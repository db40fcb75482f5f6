---------------------------- MODULE WalletLedger ----------------------------
(***************************************************************************)
(* The double-entry wallet ledger: walletLedger.post and the PostgreSQL    *)
(* rows it works on.                                                       *)
(*                                                                         *)
(* A call of post checks its legs, looks its idempotency key up, then      *)
(* opens one READ COMMITTED transaction that inserts the WalletTransaction *)
(* row and applies the legs in order, one wallet row at a time.  Each      *)
(* write locks the wallet row until the transaction ends, so calls that    *)
(* touch the same rows in opposite orders can wait for each other; Prisma  *)
(* bounds the life of an interactive transaction and PostgreSQL kills one  *)
(* of two deadlocked ones, so any open transaction may be rolled back.     *)
(*                                                                         *)
(* `row' is the newest version of each wallet row, committed or not, and   *)
(* `committed' the version other sessions read.  The WalletEntry rows of a *)
(* wallet are kept beside its balance: they are written under its row lock *)
(* and become visible with it.                                             *)
(***************************************************************************)
EXTENDS Integers, Sequences, FiniteSets, Functions

CONSTANTS
    WalletIds,        \* ids a leg can name
    Wallets,          \* the wallet rows that exist
    Buckets,          \* sub-balances: columns of the same row
    NegativeAllowed,  \* suspense wallets, by purpose
    Frozen,           \* wallets whose status is not ACTIVE
    Currencies,
    CurrencyOf,       \* the currency of each wallet
    Keys,             \* idempotency keys
    NoKey,            \* a posting without one
    Requests,         \* PostingInputs the callers pass
    Calls,            \* invocations of post; a call that books a transaction names it
    Nobody,           \* holder of a free row lock, answer of a call without one
    OpeningBalance

Legs == [wallet : WalletIds, bucket : Buckets, direction : {"DEBIT", "CREDIT"}, amount : Int]

ASSUME LedgerAssumption ==
    /\ Wallets \subseteq WalletIds
    /\ NegativeAllowed \subseteq Wallets
    /\ CurrencyOf \in [Wallets -> Currencies]
    /\ NoKey \notin Keys
    /\ Nobody \notin Calls
    /\ \A r \in Requests : /\ r.currency \in Currencies
                           /\ r.key \in Keys \cup {NoKey}
                           /\ r.legs \in Seq(Legs)
    /\ OpeningBalance \in [Wallets -> [Buckets -> Int]]
    /\ \A w \in Wallets \ NegativeAllowed, b \in Buckets : OpeningBalance[w][b] >= 0

(* A database holds finitely many rows. *)
ASSUME LedgerIsFinite == IsFiniteSet(Wallets) /\ IsFiniteSet(Buckets)

VARIABLES
    row,        \* newest version of each wallet row, with its entries
    committed,  \* committed version of each wallet row, with its entries
    lock,       \* which call's transaction holds each row
    posted,     \* calls whose transaction committed
    pc,         \* where each call of post is
    req,        \* what it was asked
    leg,        \* index of the leg it applies next
    answer      \* the WalletTransaction it returned

vars == <<row, committed, lock, posted, pc, req, leg, answer>>

----------------------------------------------------------------------------
(* Reading a request. *)

SignedAmount(l) == IF l.direction = "CREDIT" THEN l.amount ELSE -l.amount

DebitMinusCredit(legs) ==
    LET upTo[n \in 0 .. Len(legs)] == IF n = 0 THEN 0 ELSE upTo[n - 1] - SignedAmount(legs[n])
    IN  upTo[Len(legs)]

WellFormedUnbalanced(r) == \* mistake: debits are not compared with credits
    Len(r.legs) >= 2 /\ \A i \in DOMAIN r.legs : r.legs[i].amount > 0
(* At least two legs, all positive, debits equal to credits. *)
WellFormed(r) ==
    /\ Len(r.legs) >= 2
    /\ \A i \in DOMAIN r.legs : r.legs[i].amount > 0
    /\ DebitMinusCredit(r.legs) = 0

InTransaction(c) == pc[c] \in {"insert", "legs"}

(* Committed WalletTransaction rows that carry the key. *)
PostedUnder(k) == {d \in posted : k # NoKey /\ req[d].key = k}

(* A wallet row must exist, be in the posting's currency and be active. *)
Usable(c, l) ==
    /\ l.wallet \in Wallets
    /\ CurrencyOf[l.wallet] = req[c].currency
    /\ l.wallet \notin Frozen

GuardedWhenSpendable(l) == \* mistake: locked money drained without a check
    l.direction = "DEBIT" /\ l.wallet \notin NegativeAllowed /\ l.bucket = "AVAILABLE"
Guarded(l) == l.direction = "DEBIT" /\ l.wallet \notin NegativeAllowed

Mine(c, w) == lock[w] \in {Nobody, c}

(* The row version an UPDATE's WHERE clause is first evaluated on: the     *)
(* newest when nobody else holds the row, the last committed otherwise.    *)
Seen(c, w) == IF Mine(c, w) THEN row[w] ELSE committed[w]

----------------------------------------------------------------------------
Init ==
    /\ row = [w \in Wallets |-> [b \in Buckets |-> [balance |-> OpeningBalance[w][b], trail |-> << >>]]]
    /\ committed = row
    /\ lock = [w \in Wallets |-> Nobody]
    /\ posted = {}
    /\ pc = [c \in Calls |-> "idle"]
    /\ req \in [Calls -> Requests]
    /\ leg = [c \in Calls |-> 1]
    /\ answer = [c \in Calls |-> Nobody]

(* Entry of post: malformed postings are refused before any statement. *)
Post(c) ==
    /\ pc[c] = "idle"
    /\ pc' = [pc EXCEPT ![c] = IF ~WellFormed(req[c]) THEN "refused"
                               ELSE IF req[c].key = NoKey THEN "insert" ELSE "lookup"]
    /\ UNCHANGED <<row, committed, lock, posted, req, leg, answer>>

(* The first, unlocked read of the key. *)
Lookup(c) ==
    /\ pc[c] = "lookup"
    /\ IF PostedUnder(req[c].key) = {}
       THEN pc' = [pc EXCEPT ![c] = "insert"] /\ UNCHANGED answer
       ELSE /\ pc' = [pc EXCEPT ![c] = "returned"]
            /\ \E d \in PostedUnder(req[c].key) : answer' = [answer EXCEPT ![c] = d]
    /\ UNCHANGED <<row, committed, lock, posted, req, leg>>

InsertWithoutUniqueKey(c) == \* mistake: the index on idempotencyKey is not unique
    /\ pc[c] = "insert"
    /\ pc' = [pc EXCEPT ![c] = "legs"]
    /\ UNCHANGED <<row, committed, lock, posted, req, leg, answer>>

(* Insert of the WalletTransaction row.  The unique index makes it wait    *)
(* for an open transaction that inserted the same key, and fail with P2002 *)
(* if one committed; the failed transaction has nothing to roll back.      *)
InsertTransaction(c) ==
    /\ pc[c] = "insert"
    /\ \A d \in Calls : pc[d] = "legs" => req[c].key = NoKey \/ req[d].key # req[c].key
    /\ pc' = [pc EXCEPT ![c] = IF PostedUnder(req[c].key) = {} THEN "legs" ELSE "raced"]
    /\ UNCHANGED <<row, committed, lock, posted, req, leg, answer>>

ApplyLegToStaleBalance(c) == \* mistake: the balance is computed from an unlocked read
    LET l == req[c].legs[leg[c]]
        left == committed[l.wallet][l.bucket].balance + SignedAmount(l)
    IN  /\ pc[c] = "legs" /\ leg[c] <= Len(req[c].legs)
        /\ Usable(c, l)
        /\ Guarded(l) => left >= 0
        /\ row' = [row EXCEPT ![l.wallet][l.bucket] =
                     [balance |-> left,
                      trail |-> Append(@.trail, [txn |-> c, moved |-> SignedAmount(l),
                                                 balanceAfter |-> left])]]
        /\ lock' = [lock EXCEPT ![l.wallet] = c]
        /\ leg' = [leg EXCEPT ![c] = leg[c] + 1]
        /\ UNCHANGED <<committed, posted, pc, req, answer>>

ApplyLegOutside(c) == \* mistake: the leg is written beside the transaction, not in it
    LET l == req[c].legs[leg[c]]
        left == row[l.wallet][l.bucket].balance + SignedAmount(l)
        moved == [balance |-> left,
                  trail |-> Append(row[l.wallet][l.bucket].trail,
                                   [txn |-> c, moved |-> SignedAmount(l), balanceAfter |-> left])]
    IN  /\ pc[c] = "legs" /\ leg[c] <= Len(req[c].legs)
        /\ Usable(c, l)
        /\ Guarded(l) => row[l.wallet][l.bucket].balance >= l.amount
        /\ row' = [row EXCEPT ![l.wallet][l.bucket] = moved]
        /\ committed' = [committed EXCEPT ![l.wallet][l.bucket] = moved]
        /\ leg' = [leg EXCEPT ![c] = leg[c] + 1]
        /\ UNCHANGED <<lock, posted, pc, req, answer>>

(* One leg: lock the wallet row, move the column, write the WalletEntry    *)
(* with the balance the move left.                                         *)
ApplyLeg(c) ==
    LET l == req[c].legs[leg[c]]
        left == row[l.wallet][l.bucket].balance + SignedAmount(l)
    IN  /\ pc[c] = "legs" /\ leg[c] <= Len(req[c].legs)
        /\ Usable(c, l)
        /\ Mine(c, l.wallet)
        /\ Guarded(l) => row[l.wallet][l.bucket].balance >= l.amount
        /\ row' = [row EXCEPT ![l.wallet][l.bucket] =
                     [balance |-> left,
                      trail |-> Append(@.trail, [txn |-> c, moved |-> SignedAmount(l),
                                                 balanceAfter |-> left])]]
        /\ lock' = [lock EXCEPT ![l.wallet] = c]
        /\ leg' = [leg EXCEPT ![c] = leg[c] + 1]
        /\ UNCHANGED <<committed, posted, pc, req, answer>>

(* The rows of call c go back to what was committed, its locks are freed. *)
Rollback(c) ==
    /\ row' = [w \in Wallets |-> IF lock[w] = c THEN committed[w] ELSE row[w]]
    /\ lock' = [w \in Wallets |-> IF lock[w] = c THEN Nobody ELSE lock[w]]
    /\ UNCHANGED <<committed, posted, req, leg, answer>>

(* NotFound, CURRENCY_MISMATCH, WALLET_INACTIVE or INSUFFICIENT_FUNDS      *)
(* thrown from the transaction callback.                                   *)
RefuseLeg(c) ==
    LET l == req[c].legs[leg[c]]
    IN  /\ pc[c] = "legs" /\ leg[c] <= Len(req[c].legs)
        /\ \/ ~Usable(c, l)
           \/ Guarded(l) /\ Seen(c, l.wallet)[l.bucket].balance < l.amount
        /\ pc' = [pc EXCEPT ![c] = "refused"]
        /\ Rollback(c)

AbortAndRetry(c) == \* mistake: an aborted transaction is retried without limit
    /\ InTransaction(c)
    /\ pc' = [pc EXCEPT ![c] = "insert"] /\ leg' = [leg EXCEPT ![c] = 1]
    /\ row' = [w \in Wallets |-> IF lock[w] = c THEN committed[w] ELSE row[w]]
    /\ lock' = [w \in Wallets |-> IF lock[w] = c THEN Nobody ELSE lock[w]]
    /\ UNCHANGED <<committed, posted, req, answer>>

(* Deadlock victim, interactive-transaction timeout, lost connection. *)
Abort(c) ==
    /\ InTransaction(c)
    /\ pc' = [pc EXCEPT ![c] = "failed"]
    /\ Rollback(c)

CommitAnsweringKey(c) == \* mistake: the caller is handed the key, not the transaction
    /\ pc[c] = "legs" /\ leg[c] > Len(req[c].legs)
    /\ committed' = [w \in Wallets |-> IF lock[w] = c THEN row[w] ELSE committed[w]]
    /\ lock' = [w \in Wallets |-> IF lock[w] = c THEN Nobody ELSE lock[w]]
    /\ posted' = posted \cup {c}
    /\ pc' = [pc EXCEPT ![c] = "returned"] /\ answer' = [answer EXCEPT ![c] = req[c].key]
    /\ UNCHANGED <<row, req, leg>>

(* The callback returned: commit.  The caller may not hear of it. *)
Commit(c) ==
    /\ pc[c] = "legs" /\ leg[c] > Len(req[c].legs)
    /\ committed' = [w \in Wallets |-> IF lock[w] = c THEN row[w] ELSE committed[w]]
    /\ lock' = [w \in Wallets |-> IF lock[w] = c THEN Nobody ELSE lock[w]]
    /\ posted' = posted \cup {c}
    /\ \/ pc' = [pc EXCEPT ![c] = "returned"] /\ answer' = [answer EXCEPT ![c] = c]
       \/ pc' = [pc EXCEPT ![c] = "failed"] /\ UNCHANGED answer
    /\ UNCHANGED <<row, req, leg>>

ReturnLoser(c) == \* mistake: the losing call answers with its own, rolled-back row
    /\ pc[c] = "raced"
    /\ pc' = [pc EXCEPT ![c] = "returned"]
    /\ answer' = [answer EXCEPT ![c] = c]
    /\ UNCHANGED <<row, committed, lock, posted, req, leg>>

(* P2002: read the key again and return the winner. *)
ReturnWinner(c) ==
    /\ pc[c] = "raced"
    /\ IF PostedUnder(req[c].key) = {}
       THEN pc' = [pc EXCEPT ![c] = "refused"] /\ UNCHANGED answer
       ELSE /\ pc' = [pc EXCEPT ![c] = "returned"]
            /\ \E d \in PostedUnder(req[c].key) : answer' = [answer EXCEPT ![c] = d]
    /\ UNCHANGED <<row, committed, lock, posted, req, leg>>

Step(c) ==
    \/ Lookup(c) \/ InsertTransaction(c) \/ ApplyLeg(c)
    \/ RefuseLeg(c) \/ Commit(c) \/ ReturnWinner(c)

Answered(c) == pc[c] \in {"returned", "refused", "failed"}

AllAnswered == (\A c \in Calls : Answered(c)) /\ UNCHANGED vars

Next == (\E c \in Calls : Post(c) \/ Step(c) \/ Abort(c)) \/ AllAnswered

Spec == Init /\ [][Next]_vars

(* The event loop resumes every call whose statement has come back, and no *)
(* interactive transaction stays open for ever.                            *)
CallsAnswer == \A c \in Calls : WF_vars(Step(c)) /\ WF_vars(Abort(c))
FairSpec == Spec /\ CallsAnswer
----------------------------------------------------------------------------
(* Properties. *)

Entry == [txn : Calls, moved : Int, balanceAfter : Int]
Version == [Wallets -> [Buckets -> [balance : Int, trail : Seq(Entry)]]]

(* Type correctness of the rows and of every call's local state. *)
TypeOK ==
    /\ row \in Version /\ committed \in Version
    /\ lock \in [Wallets -> Calls \cup {Nobody}]
    /\ posted \subseteq Calls
    /\ pc \in [Calls -> {"idle", "lookup", "insert", "legs", "raced",
                          "returned", "refused", "failed"}]
    /\ req \in [Calls -> Requests]
    /\ leg \in [Calls -> Nat \ {0}]
    /\ answer \in [Calls -> Calls \cup {Nobody}]

(* "Debits use a guarded atomic decrement so concurrent spends can never   *)
(* overdraw a consumer/merchant wallet": no bucket of a wallet that is not *)
(* a suspense wallet is ever committed below zero, whichever postings      *)
(* interleave and whichever of them roll back.                             *)
NoOverdraft == \A w \in Wallets \ NegativeAllowed, b \in Buckets : committed[w][b].balance >= 0

(* The entries of an account, read in order, lead from its opening balance *)
(* to the given one, each balanceAfter being the previous one moved.       *)
RunsFrom(opening, account) ==
    LET t == account.trail
        before(i) == IF i = 1 THEN opening ELSE t[i - 1].balanceAfter
    IN  /\ \A i \in 1 .. Len(t) : t[i].balanceAfter = before(i) + t[i].moved
        /\ account.balance = before(Len(t) + 1)

(* "Wallet.balance is a cached running total kept in lock-step" with the   *)
(* WalletEntry rows: replaying the entries of an account gives its column, *)
(* so no concurrent posting loses another one's update.                    *)
LockStep == \A w \in Wallets, b \in Buckets :
    RunsFrom(OpeningBalance[w][b], committed[w][b])

(* Two committed transactions never carry the same idempotency key: a      *)
(* retried or concurrent posting moves the money once.                     *)
KeyBookedOnce == \A c, d \in posted :
    req[c].key # NoKey /\ req[c].key = req[d].key => c = d

(* Calls with the same key that return, return the same committed          *)
(* transaction, whichever branch (look-up, insert or race) they went by.   *)
SameKeySameAnswer == \A c \in Calls : pc[c] = "returned" =>
    /\ answer[c] \in posted
    /\ \A d \in Calls :
         pc[d] = "returned" /\ req[c].key # NoKey /\ req[d].key = req[c].key
             => answer[d] = answer[c]

(* The balance columns of a version of the wallet rows, and what those of  *)
(* one currency hold together.                                             *)
Balances(version) == [w \in Wallets |-> [b \in Buckets |-> version[w][b].balance]]
Accounts(cur) == {w \in Wallets : CurrencyOf[w] = cur} \X Buckets
Held(balances, cur) ==
    SumFunctionOnSet([a \in Wallets \X Buckets |-> balances[a[1]][a[2]]], Accounts(cur))

(* Double entry: the postings move money and never make or destroy it, so  *)
(* what all wallets of a currency hold is what they opened with.           *)
Conserved == \A cur \in Currencies : Held(Balances(committed), cur) = Held(OpeningBalance, cur)

(* Every call of post comes back with an answer, also when two postings    *)
(* lock the same wallets in opposite orders.                               *)
EveryCallAnswers == \A c \in Calls : (pc[c] # "idle") ~> Answered(c)

Atomic == INSTANCE AtomicLedger WITH
    balance <- Balances(committed),
    booked <- [c \in posted |-> req[c]]

(* "Every movement is a balanced posting": the statement-by-statement      *)
(* posting is indistinguishable from one that books all its legs in a      *)
(* single step or none, once per key and without overdraft.                *)
PostsAtomically == Atomic!Spec
=============================================================================
