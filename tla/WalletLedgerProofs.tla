------------------------- MODULE WalletLedgerProofs -------------------------
(***************************************************************************)
(* Safety of the wallet ledger for every set of wallets, buckets, calls    *)
(* and requests.                                                           *)
(*                                                                         *)
(* None of the properties is inductive: what is committed comes from rows  *)
(* an open transaction has written, and the uniqueness of a key among      *)
(* committed transactions comes from its uniqueness among the open ones.   *)
(* Inv therefore speaks of the newest row versions as well, ties them to   *)
(* the row locks, and extends key uniqueness to open transactions.         *)
(***************************************************************************)
EXTENDS WalletLedger, FiniteSums

(* An unlocked row has one version; a lock belongs to an open transaction. *)
LocksOK == \A w \in Wallets :
    IF lock[w] = Nobody THEN row[w] = committed[w] ELSE pc[lock[w]] = "legs"

(* A call under way passed validation; a booked one has come back. *)
CallsOK == \A c \in Calls :
    /\ pc[c] \in {"lookup", "insert", "legs"} => WellFormed(req[c])
    /\ c \in posted => pc[c] \in {"returned", "failed"}

RowsSolvent == \A w \in Wallets \ NegativeAllowed, b \in Buckets : row[w][b].balance >= 0

RowsInStep == \A w \in Wallets, b \in Buckets : RunsFrom(OpeningBalance[w][b], row[w][b])

(* At most one open or committed transaction per key. *)
Inserted(c) == c \in posted \/ pc[c] = "legs"
KeyInsertedOnce == \A c, d \in Calls :
    Inserted(c) /\ Inserted(d) /\ req[c].key # NoKey /\ req[c].key = req[d].key => c = d

Inv == /\ TypeOK /\ LocksOK /\ CallsOK
       /\ RowsSolvent /\ NoOverdraft
       /\ RowsInStep /\ LockStep
       /\ KeyInsertedOnce

----------------------------------------------------------------------------
(* Appending an entry for the move just made keeps an account in step. *)
LEMMA RunsOn ==
    ASSUME NEW o \in Int, NEW a \in [balance : Int, trail : Seq(Entry)],
           NEW e \in Entry, RunsFrom(o, a), e.balanceAfter = a.balance + e.moved
    PROVE  RunsFrom(o, [balance |-> e.balanceAfter, trail |-> Append(a.trail, e)])
<1> DEFINE t == a.trail
           u == Append(t, e)
           n == Len(t)
<1>1. /\ n \in Nat /\ u \in Seq(Entry) /\ Len(u) = n + 1 /\ u[n + 1] = e
      /\ \A i \in 1 .. n : u[i] = t[i]
  OBVIOUS
<1>2. ASSUME NEW i \in 1 .. n
      PROVE  u[i].balanceAfter = (IF i = 1 THEN o ELSE u[i - 1].balanceAfter) + u[i].moved
  <2>1. t[i].balanceAfter = (IF i = 1 THEN o ELSE t[i - 1].balanceAfter) + t[i].moved
    BY DEF RunsFrom
  <2>2. CASE i = 1
    BY <1>1, <2>1, <2>2
  <2>3. CASE i # 1
    <3>1. i - 1 \in 1 .. n
      BY <1>1, <2>3
    <3> QED
      BY <1>1, <2>1, <2>3, <3>1
  <2> QED
    BY <2>2, <2>3
<1>3. e.balanceAfter = (IF n + 1 = 1 THEN o ELSE u[n].balanceAfter) + e.moved
  <2>1. a.balance = (IF n + 1 = 1 THEN o ELSE t[n].balanceAfter)
    BY <1>1 DEF RunsFrom
  <2>2. n # 0 => u[n] = t[n]
    BY <1>1
  <2> QED
    BY <1>1, <2>1, <2>2
<1>4. \A i \in 1 .. n + 1 :
        u[i].balanceAfter = (IF i = 1 THEN o ELSE u[i - 1].balanceAfter) + u[i].moved
  <2> TAKE i \in 1 .. n + 1
  <2>1. CASE i \in 1 .. n
    BY <1>2, <2>1
  <2>2. CASE i = n + 1
    BY <1>1, <1>3, <2>2
  <2> QED
    BY <1>1, <2>1, <2>2
<1>5. e.balanceAfter = IF n + 2 = 1 THEN o ELSE u[n + 1].balanceAfter
  BY <1>1
<1> QED
  BY <1>1, <1>4, <1>5 DEF RunsFrom

(* The leg a call is about to apply is one of its request. *)
LEMMA LegType ==
    ASSUME TypeOK, NEW c \in Calls, leg[c] <= Len(req[c].legs)
    PROVE  /\ req[c].legs \in Seq(Legs)
           /\ leg[c] \in 1 .. Len(req[c].legs)
           /\ req[c].legs[leg[c]] \in Legs
           /\ leg[c] \in DOMAIN req[c].legs
<1>1. req[c] \in Requests /\ leg[c] \in Nat \ {0}
  BY DEF TypeOK
<1>2. req[c].legs \in Seq(Legs)
  BY <1>1, LedgerAssumption
<1>3. leg[c] \in 1 .. Len(req[c].legs)
  BY <1>1, <1>2
<1> QED
  BY <1>2, <1>3

----------------------------------------------------------------------------
LEMMA InitInv == Init => Inv
<1> SUFFICES ASSUME Init PROVE Inv
  OBVIOUS
<1> USE LedgerAssumption DEF Init
<1>1. /\ row = [w \in Wallets |-> [b \in Buckets |->
                  [balance |-> OpeningBalance[w][b], trail |-> << >>]]]
      /\ committed = row
  OBVIOUS
<1>2. \A w \in Wallets, b \in Buckets : OpeningBalance[w][b] \in Int
  OBVIOUS
<1>3. row \in Version
  BY <1>1, <1>2 DEF Version
<1>4. TypeOK
  BY <1>1, <1>3 DEF TypeOK
<1>5. LocksOK /\ CallsOK /\ KeyInsertedOnce
  BY <1>1 DEF LocksOK, CallsOK, KeyInsertedOnce, Inserted
<1>6. RowsSolvent /\ NoOverdraft
  BY <1>1 DEF RowsSolvent, NoOverdraft
<1>7. \A w \in Wallets, b \in Buckets : RunsFrom(OpeningBalance[w][b], row[w][b])
  BY <1>1, <1>2 DEF RunsFrom
<1> QED
  BY <1>1, <1>4, <1>5, <1>6, <1>7 DEF Inv, RowsInStep, LockStep

(* Steps that leave the rows, the locks and the booked calls alone. *)
LEMMA QuietStep ==
    ASSUME Inv, UNCHANGED <<row, committed, lock, posted, req>>,
           pc' \in [Calls -> {"idle", "lookup", "insert", "legs", "raced",
                              "returned", "refused", "failed"}],
           leg' \in [Calls -> Nat \ {0}], answer' \in [Calls -> Calls \cup {Nobody}],
           \A c \in Calls : pc[c] = "legs" <=> pc'[c] = "legs",
           \A c \in Calls : pc'[c] \in {"lookup", "insert"} => WellFormed(req[c]),
           \A c \in posted : pc'[c] = pc[c]
    PROVE  Inv'
<1> USE DEF Inv
<1>1. TypeOK'
  BY DEF TypeOK, Version
<1>2. LocksOK'
  BY DEF LocksOK, TypeOK
<1>3. CallsOK'
  BY DEF CallsOK, TypeOK, WellFormed
<1>4. (RowsSolvent /\ NoOverdraft /\ RowsInStep /\ LockStep)'
  BY DEF RowsSolvent, NoOverdraft, RowsInStep, LockStep
<1>5. KeyInsertedOnce'
  BY DEF KeyInsertedOnce, Inserted
<1> QED
  BY <1>1, <1>2, <1>3, <1>4, <1>5

(* Rolling an open transaction back. *)
LEMMA RollbackStep ==
    ASSUME Inv, NEW c \in Calls, c \notin posted, Rollback(c),
           NEW next \in {"refused", "failed"}, pc' = [pc EXCEPT ![c] = next]
    PROVE  Inv'
<1> USE DEF Inv
<1>1. /\ row' = [w \in Wallets |-> IF lock[w] = c THEN committed[w] ELSE row[w]]
      /\ lock' = [w \in Wallets |-> IF lock[w] = c THEN Nobody ELSE lock[w]]
      /\ UNCHANGED <<committed, posted, req, leg, answer>>
  BY DEF Rollback
<1>2. TypeOK'
  BY <1>1 DEF TypeOK, Version
<1>3. LocksOK'
  BY <1>1, LedgerAssumption DEF LocksOK, TypeOK
<1>4. CallsOK'
  BY <1>1 DEF CallsOK, TypeOK, WellFormed
<1>5. (RowsSolvent /\ NoOverdraft)'
  BY <1>1 DEF RowsSolvent, NoOverdraft
<1>6. (RowsInStep /\ LockStep)'
  BY <1>1 DEF RowsInStep, LockStep
<1>7. KeyInsertedOnce'
  BY <1>1 DEF KeyInsertedOnce, Inserted, TypeOK
<1> QED
  BY <1>2, <1>3, <1>4, <1>5, <1>6, <1>7

(* Inserting the transaction row: the only way to become inserted. *)
LEMMA InsertStep ==
    ASSUME Inv, NEW c \in Calls, InsertTransaction(c)
    PROVE  Inv'
<1> USE DEF Inv
<1>1. /\ pc[c] = "insert" /\ c \notin posted
      /\ UNCHANGED <<row, committed, lock, posted, req, leg, answer>>
  BY DEF InsertTransaction, CallsOK
<1>2. pc' = [pc EXCEPT ![c] = "legs"] \/ pc' = [pc EXCEPT ![c] = "raced"]
  BY DEF InsertTransaction
<1>3. TypeOK'
  BY <1>1, <1>2 DEF TypeOK, Version
<1>4. LocksOK'
  BY <1>1, <1>2, LedgerAssumption DEF LocksOK, TypeOK
<1>5. CallsOK'
  BY <1>1, <1>2 DEF CallsOK, TypeOK, WellFormed
<1>6. (RowsSolvent /\ NoOverdraft /\ RowsInStep /\ LockStep)'
  BY <1>1 DEF RowsSolvent, NoOverdraft, RowsInStep, LockStep
<1>7. KeyInsertedOnce'
  <2>1. CASE pc' = [pc EXCEPT ![c] = "raced"]
    BY <1>1, <2>1 DEF KeyInsertedOnce, Inserted, TypeOK
  <2>2. CASE PostedUnder(req[c].key) = {}
    <3>1. \A d \in Calls : Inserted(d) => req[c].key = NoKey \/ req[d].key # req[c].key
      BY <1>1, <2>2 DEF InsertTransaction, PostedUnder, Inserted
    <3>2. \A d \in Calls : Inserted(d)' => Inserted(d) \/ d = c
      BY <1>1, <1>2 DEF Inserted, TypeOK
    <3> QED
      BY <1>1, <3>1, <3>2 DEF KeyInsertedOnce
  <2> QED
    BY <2>1, <2>2 DEF InsertTransaction
<1> QED
  BY <1>3, <1>4, <1>5, <1>6, <1>7

(* Applying a leg: the one step that moves a balance. *)
LEMMA ApplyStep ==
    ASSUME Inv, NEW c \in Calls, ApplyLeg(c)
    PROVE  Inv'
<1> DEFINE l == req[c].legs[leg[c]]
           a == row[l.wallet][l.bucket]
           left == a.balance + SignedAmount(l)
           e == [txn |-> c, moved |-> SignedAmount(l), balanceAfter |-> left]
           new == [balance |-> left, trail |-> Append(a.trail, e)]
<1> USE DEF Inv
<1>1. /\ pc[c] = "legs" /\ leg[c] <= Len(req[c].legs)
      /\ l.wallet \in Wallets /\ Mine(c, l.wallet)
      /\ Guarded(l) => a.balance >= l.amount
      /\ row' = [row EXCEPT ![l.wallet][l.bucket] = new]
      /\ lock' = [lock EXCEPT ![l.wallet] = c]
      /\ leg' = [leg EXCEPT ![c] = leg[c] + 1]
      /\ UNCHANGED <<committed, posted, pc, req, answer>>
  BY DEF ApplyLeg, Usable
<1>2. l \in Legs /\ leg[c] \in DOMAIN req[c].legs
  BY <1>1, LegType
<1>3. l.bucket \in Buckets /\ l.amount \in Int /\ l.direction \in {"DEBIT", "CREDIT"}
  BY <1>2 DEF Legs
<1>4. l.amount > 0
  BY <1>1, <1>2 DEF CallsOK, WellFormed
<1>5. /\ a \in [balance : Int, trail : Seq(Entry)]
      /\ SignedAmount(l) \in Int
      /\ left = a.balance + SignedAmount(l) /\ left \in Int /\ new.balance = left
  <2>1. a \in [balance : Int, trail : Seq(Entry)]
    <3> HIDE DEF l
    <3> QED
      BY <1>1, <1>3 DEF TypeOK, Version
  <2>2. SignedAmount(l) \in Int
    <3> HIDE DEF l
    <3> QED
      BY <1>3 DEF SignedAmount
  <2> HIDE DEF l, a
  <2> QED
    BY <2>1, <2>2
<1>6. e \in Entry /\ new \in [balance : Int, trail : Seq(Entry)]
  <2> HIDE DEF l, a, left
  <2>1. e \in Entry
    BY <1>5 DEF Entry
  <2> HIDE DEF e
  <2>2. Append(a.trail, e) \in Seq(Entry)
    BY <1>5, <2>1
  <2> QED
    BY <1>5, <2>1, <2>2
<1>7. \A w \in Wallets, b \in Buckets :
        row'[w][b] = IF w = l.wallet /\ b = l.bucket THEN new ELSE row[w][b]
  BY <1>1, <1>3 DEF TypeOK, Version
<1>8. row' \in Version
  BY <1>1, <1>3, <1>6 DEF TypeOK, Version
<1>9. TypeOK'
  <2>1. lock' \in [Wallets -> Calls \cup {Nobody}] /\ leg' \in [Calls -> Nat \ {0}]
    <3> HIDE DEF l
    <3> QED
      BY <1>1 DEF TypeOK
  <2> HIDE DEF l
  <2> QED
    BY <1>1, <1>8, <2>1 DEF TypeOK, Version
<1>10. LocksOK'
  BY <1>1, LedgerAssumption DEF LocksOK, TypeOK, Mine, Version
<1>11. CallsOK'
  BY <1>1 DEF CallsOK, WellFormed
<1>12. RowsSolvent'
  <2>1. l.wallet \notin NegativeAllowed => left >= 0
    <3>1. l.wallet \notin NegativeAllowed => a.balance >= 0
      BY <1>1, <1>3 DEF RowsSolvent
    <3> HIDE DEF l, a, left
    <3>2. CASE l.direction = "CREDIT"
      BY <1>4, <1>5, <1>3, <3>1, <3>2 DEF SignedAmount
    <3>3. CASE l.direction = "DEBIT"
      BY <1>1, <1>3, <1>5, <3>3 DEF SignedAmount, Guarded
    <3> QED
      BY <1>3, <3>2, <3>3
  <2> HIDE DEF l, a, left, new
  <2> QED
    BY <1>5, <1>7, <2>1 DEF RowsSolvent
<1>13. RowsInStep'
  <2> DEFINE o == OpeningBalance[l.wallet][l.bucket]
  <2>1. RunsFrom(o, a) /\ o \in Int
    BY <1>1, <1>3, LedgerAssumption DEF RowsInStep
  <2>2. RunsFrom(o, new)
    BY <1>5, <1>6, <2>1, RunsOn
  <2> QED
    BY <1>7, <2>2 DEF RowsInStep
<1>14. (NoOverdraft /\ LockStep)'
  BY <1>1 DEF NoOverdraft, LockStep
<1>15. KeyInsertedOnce'
  BY <1>1 DEF KeyInsertedOnce, Inserted
<1> QED
  BY <1>9, <1>10, <1>11, <1>12, <1>13, <1>14, <1>15

(* Committing: the rows a call holds become what others read. *)
LEMMA CommitStep ==
    ASSUME Inv, NEW c \in Calls, Commit(c)
    PROVE  Inv'
<1> USE DEF Inv
<1>1. /\ pc[c] = "legs"
      /\ committed' = [w \in Wallets |-> IF lock[w] = c THEN row[w] ELSE committed[w]]
      /\ lock' = [w \in Wallets |-> IF lock[w] = c THEN Nobody ELSE lock[w]]
      /\ posted' = posted \cup {c}
      /\ UNCHANGED <<row, req, leg>>
  BY DEF Commit
<1>2. /\ pc' = [pc EXCEPT ![c] = "returned"] \/ pc' = [pc EXCEPT ![c] = "failed"]
      /\ answer' = [answer EXCEPT ![c] = c] \/ answer' = answer
  BY DEF Commit
<1>3. TypeOK'
  BY <1>1, <1>2 DEF TypeOK, Version
<1>4. LocksOK'
  BY <1>1, <1>2, LedgerAssumption DEF LocksOK, TypeOK
<1>5. CallsOK'
  BY <1>1, <1>2 DEF CallsOK, TypeOK, WellFormed
<1>6. (RowsSolvent /\ NoOverdraft)'
  BY <1>1 DEF RowsSolvent, NoOverdraft
<1>7. (RowsInStep /\ LockStep)'
  BY <1>1 DEF RowsInStep, LockStep
<1>8. KeyInsertedOnce'
  BY <1>1, <1>2 DEF KeyInsertedOnce, Inserted, TypeOK
<1> QED
  BY <1>3, <1>4, <1>5, <1>6, <1>7, <1>8

----------------------------------------------------------------------------
LEMMA NextInv == Inv /\ [Next]_vars => Inv'
<1> SUFFICES ASSUME Inv, [Next]_vars PROVE Inv'
  OBVIOUS
<1> USE DEF Inv
<1>1. ASSUME NEW c \in Calls, Post(c) PROVE Inv'
  BY <1>1, QuietStep DEF Post, TypeOK, CallsOK, WellFormed
<1>2. ASSUME NEW c \in Calls, Lookup(c) PROVE Inv'
  <2>1. \A d \in PostedUnder(req[c].key) : d \in Calls
    BY DEF PostedUnder, TypeOK
  <2>2. answer' \in [Calls -> Calls \cup {Nobody}]
    BY <1>2, <2>1 DEF Lookup, TypeOK
  <2> QED
    BY <1>2, <2>2, QuietStep DEF Lookup, TypeOK, CallsOK
<1>3. ASSUME NEW c \in Calls, ReturnWinner(c) PROVE Inv'
  <2>1. \A d \in PostedUnder(req[c].key) : d \in Calls
    BY DEF PostedUnder, TypeOK
  <2>2. answer' \in [Calls -> Calls \cup {Nobody}]
    BY <1>3, <2>1 DEF ReturnWinner, TypeOK
  <2> QED
    BY <1>3, <2>2, QuietStep DEF ReturnWinner, TypeOK, CallsOK
<1>4. ASSUME NEW c \in Calls, InsertTransaction(c) PROVE Inv'
  BY <1>4, InsertStep
<1>5. ASSUME NEW c \in Calls, ApplyLeg(c) PROVE Inv'
  BY <1>5, ApplyStep
<1>6. ASSUME NEW c \in Calls, RefuseLeg(c) PROVE Inv'
  <2>1. c \notin posted /\ Rollback(c) /\ pc' = [pc EXCEPT ![c] = "refused"]
    BY <1>6 DEF RefuseLeg, CallsOK
  <2> QED
    BY <2>1, RollbackStep
<1>7. ASSUME NEW c \in Calls, Abort(c) PROVE Inv'
  <2>1. c \notin posted /\ Rollback(c) /\ pc' = [pc EXCEPT ![c] = "failed"]
    BY <1>7 DEF Abort, InTransaction, CallsOK
  <2> QED
    BY <2>1, RollbackStep
<1>8. ASSUME NEW c \in Calls, Commit(c) PROVE Inv'
  BY <1>8, CommitStep
<1>9. CASE UNCHANGED vars
  BY <1>9, QuietStep DEF vars, TypeOK, CallsOK
<1> QED
  BY <1>1, <1>2, <1>3, <1>4, <1>5, <1>6, <1>7, <1>8, <1>9 DEF Next, Step, AllAnswered

LEMMA Invariance == Spec => []Inv
<1> QED
  BY InitInv, NextInv, PTL DEF Spec

(* Every reachable state of the ledger is well typed. *)
THEOREM TypeCorrect == Spec => []TypeOK
<1>1. Inv => TypeOK
  BY DEF Inv
<1> QED
  BY <1>1, Invariance, PTL

(* "Debits use a guarded atomic decrement so concurrent spends can never   *)
(* overdraw a consumer/merchant wallet", for any number of concurrent      *)
(* calls over any wallets, including postings of many legs over one row.   *)
THEOREM NeverOverdrawn == Spec => []NoOverdraft
<1>1. Inv => NoOverdraft
  BY DEF Inv
<1> QED
  BY <1>1, Invariance, PTL

(* The cached balance of every bucket is the running total of its entries. *)
THEOREM BalanceIsRunningTotal == Spec => []LockStep
<1>1. Inv => LockStep
  BY DEF Inv
<1> QED
  BY <1>1, Invariance, PTL

(* An idempotency key books at most one transaction. *)
THEOREM KeyBooksOnce == Spec => []KeyBookedOnce
<1>1. Inv => KeyBookedOnce
  BY DEF Inv, TypeOK, KeyInsertedOnce, Inserted, KeyBookedOnce
<1> QED
  BY <1>1, Invariance, PTL

----------------------------------------------------------------------------
(* Where the answer of a returned call comes from: its own commit, or a    *)
(* look-up of its key among the committed transactions.                    *)
AnswersOK == \A c \in Calls : pc[c] = "returned" =>
    /\ answer[c] \in posted
    /\ answer[c] = c \/ req[answer[c]].key = req[c].key

(* A step that commits nothing and hands out the answer of one look-up. *)
LEMMA LookedUpStep ==
    ASSUME Inv, AnswersOK, NEW c \in Calls, UNCHANGED <<posted, req>>,
           NEW d \in PostedUnder(req[c].key), answer' = [answer EXCEPT ![c] = d],
           pc' = [pc EXCEPT ![c] = "returned"]
    PROVE  AnswersOK'
<1>1. d \in posted /\ req[d].key = req[c].key
  BY DEF PostedUnder
<1> QED
  BY <1>1 DEF AnswersOK, Inv, TypeOK

(* A step that gives nobody an answer. *)
LEMMA UnansweredStep ==
    ASSUME Inv, AnswersOK, UNCHANGED <<posted, req, answer>>,
           \A c \in Calls : pc'[c] = "returned" => pc[c] = "returned"
    PROVE  AnswersOK'
BY DEF AnswersOK

LEMMA NextAnswers == Inv /\ AnswersOK /\ [Next]_vars => AnswersOK'
<1> SUFFICES ASSUME Inv, AnswersOK, [Next]_vars PROVE AnswersOK'
  OBVIOUS
<1>1. pc \in [Calls -> {"idle", "lookup", "insert", "legs", "raced",
                        "returned", "refused", "failed"}]
  BY DEF Inv, TypeOK
<1>2. ASSUME NEW c \in Calls, Post(c) PROVE AnswersOK'
  BY <1>1, <1>2, UnansweredStep DEF Post
<1>3. ASSUME NEW c \in Calls, Lookup(c) PROVE AnswersOK'
  <2>1. CASE PostedUnder(req[c].key) = {}
    BY <1>1, <1>3, <2>1, UnansweredStep DEF Lookup
  <2>2. CASE PostedUnder(req[c].key) # {}
    BY <1>3, <2>2, LookedUpStep DEF Lookup
  <2> QED
    BY <2>1, <2>2
<1>4. ASSUME NEW c \in Calls, ReturnWinner(c) PROVE AnswersOK'
  <2>1. CASE PostedUnder(req[c].key) = {}
    BY <1>1, <1>4, <2>1, UnansweredStep DEF ReturnWinner
  <2>2. CASE PostedUnder(req[c].key) # {}
    BY <1>4, <2>2, LookedUpStep DEF ReturnWinner
  <2> QED
    BY <2>1, <2>2
<1>5. ASSUME NEW c \in Calls, InsertTransaction(c) PROVE AnswersOK'
  BY <1>1, <1>5, UnansweredStep DEF InsertTransaction
<1>6. ASSUME NEW c \in Calls, ApplyLeg(c) PROVE AnswersOK'
  BY <1>1, <1>6, UnansweredStep DEF ApplyLeg
<1>7. ASSUME NEW c \in Calls, RefuseLeg(c) PROVE AnswersOK'
  BY <1>1, <1>7, UnansweredStep DEF RefuseLeg, Rollback
<1>8. ASSUME NEW c \in Calls, Abort(c) PROVE AnswersOK'
  BY <1>1, <1>8, UnansweredStep DEF Abort, Rollback
<1>9. ASSUME NEW c \in Calls, Commit(c) PROVE AnswersOK'
  <2>1. posted' = posted \cup {c} /\ req' = req
    BY <1>9 DEF Commit
  <2>2. CASE pc' = [pc EXCEPT ![c] = "returned"] /\ answer' = [answer EXCEPT ![c] = c]
    BY <2>1, <2>2 DEF AnswersOK, Inv, TypeOK
  <2>3. CASE pc' = [pc EXCEPT ![c] = "failed"] /\ answer' = answer
    BY <1>1, <2>1, <2>3 DEF AnswersOK
  <2> QED
    BY <1>9, <2>2, <2>3 DEF Commit
<1>10. CASE UNCHANGED vars
  BY <1>10, UnansweredStep DEF vars
<1> QED
  BY <1>2, <1>3, <1>4, <1>5, <1>6, <1>7, <1>8, <1>9, <1>10 DEF Next, Step, AllAnswered

(* A caller never learns of a transaction that was rolled back, and two    *)
(* callers of one key learn of the same one, whichever of the look-up, the *)
(* insert and the lost race each of them went by.                          *)
THEOREM SameKeyHearsTheSame == Spec => []SameKeySameAnswer
<1>1. Init => AnswersOK
  BY DEF Init, AnswersOK
<1>2. Inv /\ AnswersOK => SameKeySameAnswer
  <2> SUFFICES ASSUME Inv, AnswersOK, NEW c \in Calls, pc[c] = "returned"
               PROVE  /\ answer[c] \in posted
                      /\ \A d \in Calls :
                           pc[d] = "returned" /\ req[c].key # NoKey /\ req[d].key = req[c].key
                               => answer[d] = answer[c]
    BY DEF SameKeySameAnswer
  <2>1. answer[c] \in posted /\ posted \subseteq Calls
    BY DEF AnswersOK, Inv, TypeOK
  <2>2. ASSUME NEW d \in Calls, pc[d] = "returned", req[c].key # NoKey,
               req[d].key = req[c].key
        PROVE  answer[d] = answer[c]
    <3>1. /\ answer[c] \in posted /\ req[answer[c]].key = req[c].key
          /\ answer[d] \in posted /\ req[answer[d]].key = req[c].key
      BY <2>2 DEF AnswersOK
    <3> QED
      BY <2>1, <2>2, <3>1 DEF Inv, KeyInsertedOnce, Inserted
  <2> QED
    BY <2>1, <2>2
<1> QED
  BY <1>1, <1>2, NextAnswers, Invariance, InitInv, NextInv, PTL DEF Spec

----------------------------------------------------------------------------
(***************************************************************************)
(* The statement-by-statement posting implements AtomicLedger, for every   *)
(* set of wallets, buckets, calls and requests.                            *)
(*                                                                         *)
(* The step that matters is Commit.  To show that it moves each account by *)
(* the net of all the legs, the invariant has to say, half-way through a   *)
(* posting, that a row held by a call is the committed row moved by the    *)
(* legs applied so far, and that those legs touch no other row.  What a    *)
(* prefix of the legs adds up to is a recursive function; its equations    *)
(* are obtained from the least counterexample, by LeastNatural.            *)
(*                                                                         *)
(* Conservation follows from the same fact: a commit moves the sum over    *)
(* all accounts by the sum of the legs, which validation made zero.        *)
(***************************************************************************)

(* A finite sequence of integers has running sums. *)
LEMMA RunningSums ==
    ASSUME NEW L \in Nat, NEW e \in [1 .. L -> Int]
    PROVE  \E g \in [0 .. L -> Int] :
             \A n \in 0 .. L : g[n] = IF n = 0 THEN 0 ELSE g[n - 1] + e[n]
<1> DEFINE Sums(m, g) == \A n \in 0 .. m : g[n] = IF n = 0 THEN 0 ELSE g[n - 1] + e[n]
           Summed(m) == \E g \in [0 .. m -> Int] : Sums(m, g)
           Bad == {m \in 0 .. L : ~ Summed(m)}
<1>1. ASSUME NEW m \in Bad, \A k \in Bad : m <= k PROVE FALSE
  <2>1. CASE m = 0
    <3> DEFINE g == [n \in 0 .. 0 |-> 0]
    <3>1. g \in [0 .. m -> Int] /\ Sums(m, g)
      BY <2>1
    <3> QED
      BY <3>1
  <2>2. CASE m # 0
    <3>1. Summed(m - 1)
      <4> HIDE DEF Summed
      <4> QED
        BY <1>1, <2>2
    <3>2. PICK h \in [0 .. m - 1 -> Int] : Sums(m - 1, h)
      BY <3>1
    <3> DEFINE g == [n \in 0 .. m |-> IF n = m THEN h[m - 1] + e[m] ELSE h[n]]
    <3>3. g \in [0 .. m -> Int]
      BY <2>2
    <3>4. Sums(m, g)
      <4> SUFFICES ASSUME NEW n \in 0 .. m
                   PROVE  g[n] = IF n = 0 THEN 0 ELSE g[n - 1] + e[n]
        OBVIOUS
      <4>1. CASE n = m
        BY <2>2, <4>1
      <4>2. CASE n # m
        <5>1. n \in 0 .. m - 1
          BY <4>2
        <5>2. h[n] = IF n = 0 THEN 0 ELSE h[n - 1] + e[n]
          BY <3>2, <5>1
        <5> QED
          BY <4>2, <5>1, <5>2
      <4> QED
        BY <4>1, <4>2
    <3> HIDE DEF g
    <3> QED
      BY <3>3, <3>4
  <2> QED
    BY <2>1, <2>2
<1>2. Bad = {}
  <2>1. Bad \subseteq Nat
    OBVIOUS
  <2> HIDE DEF Bad
  <2> QED
    BY <1>1, <2>1, LeastNatural
<1>3. Summed(L)
  <2> HIDE DEF Summed
  <2> QED
    BY <1>2
<1> QED
  BY <1>3

(* What a prefix of a posting does to an account, leg by leg. *)
LEMMA RunningByLeg ==
    ASSUME NEW legs \in Seq(Legs), NEW w, NEW b
    PROVE  /\ \A l \in Legs : Atomic!Effect(l, w, b) \in Int
           /\ \A n \in 0 .. Len(legs) :
                /\ Atomic!Running(legs, w, b)[n] \in Int
                /\ Atomic!Running(legs, w, b)[n] =
                     IF n = 0 THEN 0
                     ELSE Atomic!Running(legs, w, b)[n - 1] + Atomic!Effect(legs[n], w, b)
<1>1. \A l \in Legs : Atomic!Effect(l, w, b) \in Int
  BY DEF Atomic!Effect, Atomic!SignedAmount, Legs
<1> DEFINE upTo[n \in 0 .. Len(legs)] ==
             IF n = 0 THEN 0 ELSE upTo[n - 1] + Atomic!Effect(legs[n], w, b)
           Sums(g) == g = [n \in 0 .. Len(legs) |->
                             IF n = 0 THEN 0 ELSE g[n - 1] + Atomic!Effect(legs[n], w, b)]
           e == [n \in 1 .. Len(legs) |-> Atomic!Effect(legs[n], w, b)]
<1>2. Atomic!Running(legs, w, b) = upTo
  BY DEF Atomic!Running
<1>3. upTo = CHOOSE g : Sums(g)
  OBVIOUS
<1>4. Len(legs) \in Nat /\ e \in [1 .. Len(legs) -> Int]
  BY <1>1
<1>5. PICK g \in [0 .. Len(legs) -> Int] :
        \A n \in 0 .. Len(legs) : g[n] = IF n = 0 THEN 0 ELSE g[n - 1] + e[n]
  <2> HIDE DEF e
  <2> QED
    BY <1>4, RunningSums
<1>6. Sums(g)
  BY <1>5
<1>7. Sums(upTo)
  <2> HIDE DEF Sums, upTo
  <2> QED
    BY <1>3, <1>6
<1> HIDE DEF upTo, e
<1>8. \A n \in 0 .. Len(legs) :
        upTo[n] = IF n = 0 THEN 0 ELSE upTo[n - 1] + Atomic!Effect(legs[n], w, b)
  BY <1>7
<1>9. \A n \in 0 .. Len(legs) : upTo[n] \in Int
  <2> DEFINE Bad == {n \in 0 .. Len(legs) : upTo[n] \notin Int}
  <2>1. ASSUME NEW m \in Bad, \A k \in Bad : m <= k PROVE FALSE
    <3>1. CASE m = 0
      BY <1>8, <3>1
    <3>2. CASE m # 0
      <4>1. m - 1 \in 0 .. Len(legs) /\ m - 1 \notin Bad /\ legs[m] \in Legs
        BY <1>4, <2>1, <3>2
      <4>2. upTo[m - 1] \in Int /\ Atomic!Effect(legs[m], w, b) \in Int
        BY <1>1, <4>1
      <4> QED
        BY <1>8, <3>2, <4>2
    <3> QED
      BY <3>1, <3>2
  <2>2. Bad \subseteq Nat
    BY <1>4
  <2> HIDE DEF Bad
  <2>3. Bad = {}
    BY <2>1, <2>2, LeastNatural
  <2> QED
    BY <2>3 DEF Bad
<1> QED
  BY <1>1, <1>2, <1>8, <1>9

----------------------------------------------------------------------------
(* What the legs call c has applied so far do to bucket b of wallet w. *)
Applied(c, w, b) == Atomic!Running(req[c].legs, w, b)[leg[c] - 1]

(* A call that has not inserted its transaction has applied no leg; one    *)
(* that has, applies them in order and only to wallets that exist and are  *)
(* in the posting's currency.                                              *)
InBooks(r, i) == r.legs[i].wallet \in Wallets /\ CurrencyOf[r.legs[i].wallet] = r.currency
ProgressOK == \A c \in Calls :
    /\ pc[c] \in {"idle", "lookup", "insert"} => leg[c] = 1
    /\ pc[c] = "legs" =>
         /\ leg[c] <= Len(req[c].legs) + 1
         /\ \A i \in 1 .. leg[c] - 1 : InBooks(req[c], i)

(* The rows an open transaction holds are the committed ones moved by the  *)
(* legs it has applied; those legs touch no row it does not hold.          *)
WrittenOK == \A c \in Calls, w \in Wallets, b \in Buckets : pc[c] = "legs" =>
    IF lock[w] = c THEN row[w][b].balance = committed[w][b].balance + Applied(c, w, b)
    ELSE Applied(c, w, b) = 0

RInv == Inv /\ ProgressOK /\ WrittenOK

LEMMA BalancesAreInts ==
    ASSUME TypeOK, NEW w \in Wallets, NEW b \in Buckets
    PROVE  row[w][b].balance \in Int /\ committed[w][b].balance \in Int
BY DEF TypeOK, Version

LEMMA InitRInv == Init => RInv
<1> SUFFICES ASSUME Init PROVE RInv
  OBVIOUS
<1>1. Inv
  BY InitInv
<1>2. \A c \in Calls : pc[c] = "idle" /\ leg[c] = 1
  BY DEF Init
<1> QED
  BY <1>1, <1>2 DEF RInv, ProgressOK, WrittenOK

(* Steps of other kinds than applying a leg or ending a transaction. *)
LEMMA QuietRStep ==
    ASSUME RInv, Inv', UNCHANGED <<row, committed, lock, req, leg>>,
           \A c \in Calls : pc[c] = "legs" <=> pc'[c] = "legs",
           \A c \in Calls : pc'[c] \in {"idle", "lookup", "insert"} =>
                              pc[c] \in {"idle", "lookup", "insert"}
    PROVE  RInv'
<1>1. ProgressOK'
  BY DEF RInv, ProgressOK
<1>2. WrittenOK'
  BY DEF RInv, WrittenOK, Applied
<1> QED
  BY <1>1, <1>2 DEF RInv

LEMMA InsertRStep ==
    ASSUME RInv, Inv', NEW c \in Calls, InsertTransaction(c)
    PROVE  RInv'
<1> USE DEF RInv, Inv
<1>1. /\ pc[c] = "insert" /\ leg[c] = 1
      /\ UNCHANGED <<row, committed, lock, req, leg>>
      /\ \A d \in Calls : d # c => pc'[d] = pc[d]
      /\ pc'[c] \in {"legs", "raced"}
  BY DEF InsertTransaction, ProgressOK, TypeOK
<1>2. req[c].legs \in Seq(Legs)
  BY LedgerAssumption DEF TypeOK
<1>3. ProgressOK'
  BY <1>1, <1>2 DEF ProgressOK
<1>4. WrittenOK'
  <2> SUFFICES ASSUME NEW d \in Calls, NEW w \in Wallets, NEW b \in Buckets, pc'[d] = "legs"
               PROVE  IF lock[w] = d
                      THEN row[w][b].balance = committed[w][b].balance + Applied(d, w, b)
                      ELSE Applied(d, w, b) = 0
    BY <1>1 DEF WrittenOK, Applied
  <2>1. CASE d # c
    BY <1>1, <2>1 DEF WrittenOK
  <2>2. CASE d = c
    <3>1. lock[w] # c
      BY <1>1, LedgerAssumption DEF LocksOK
    <3>2. Applied(c, w, b) = 0
      BY <1>1, <1>2, RunningByLeg DEF Applied
    <3> QED
      BY <2>2, <3>1, <3>2
  <2> QED
    BY <2>1, <2>2
<1> QED
  BY <1>3, <1>4

LEMMA ApplyRStep ==
    ASSUME RInv, Inv', NEW c \in Calls, ApplyLeg(c)
    PROVE  RInv'
<1> DEFINE legs == req[c].legs
           l == legs[leg[c]]
<1> USE DEF RInv, Inv
<1>1. /\ pc[c] = "legs" /\ leg[c] <= Len(legs)
      /\ l.wallet \in Wallets /\ lock[l.wallet] \in {Nobody, c}
      /\ lock' = [lock EXCEPT ![l.wallet] = c]
      /\ leg' = [leg EXCEPT ![c] = leg[c] + 1]
      /\ UNCHANGED <<committed, pc, req>>
  BY DEF ApplyLeg, Usable, Mine
<1>2. legs \in Seq(Legs) /\ leg[c] \in 1 .. Len(legs) /\ l \in Legs
  BY <1>1, LegType
<1>3. \A w \in Wallets, b \in Buckets :
        row'[w][b].balance = IF w = l.wallet /\ b = l.bucket
                             THEN row[w][b].balance + SignedAmount(l) ELSE row[w][b].balance
  <2>1. row' = [row EXCEPT ![l.wallet][l.bucket] =
                  [balance |-> row[l.wallet][l.bucket].balance + SignedAmount(l),
                   trail |-> Append(@.trail, [txn |-> c, moved |-> SignedAmount(l),
                     balanceAfter |-> row[l.wallet][l.bucket].balance + SignedAmount(l)])]]
    BY DEF ApplyLeg
  <2>2. l.bucket \in Buckets
    BY <1>2 DEF Legs
  <2> HIDE DEF l
  <2> QED
    BY <1>1, <2>1, <2>2 DEF TypeOK, Version
<1>4. leg'[c] = leg[c] + 1 /\ leg[c] \in Nat /\ \A d \in Calls : d # c => leg'[d] = leg[d]
  BY <1>1 DEF TypeOK
<1>5. ProgressOK'
  <2> SUFFICES ASSUME NEW d \in Calls PROVE
        /\ pc[d] \in {"idle", "lookup", "insert"} => leg'[d] = 1
        /\ pc[d] = "legs" =>
             /\ leg'[d] <= Len(req[d].legs) + 1
             /\ \A i \in 1 .. leg'[d] - 1 : InBooks(req[d], i)
    BY <1>1 DEF ProgressOK, InBooks
  <2>1. CASE d # c
    BY <1>1, <1>4, <2>1 DEF ProgressOK
  <2>2. CASE d = c
    <3>1. \A i \in 1 .. leg[c] : i = leg[c] \/ i \in 1 .. leg[c] - 1
      BY <1>4
    <3>2. leg[c] <= Len(legs) + 1 /\ \A i \in 1 .. leg[c] - 1 : InBooks(req[c], i)
      BY <1>1 DEF ProgressOK
    <3>3. InBooks(req[c], leg[c])
      BY DEF ApplyLeg, Usable, InBooks
    <3>4. \A i \in 1 .. leg[c] : InBooks(req[c], i)
      BY <3>1, <3>2, <3>3
    <3>5. leg'[d] - 1 = leg[c] /\ leg'[d] <= Len(legs) + 1
      BY <1>2, <1>4, <2>2
    <3> HIDE DEF l
    <3> QED
      BY <1>1, <2>2, <3>4, <3>5
  <2> QED
    BY <2>1, <2>2
<1>6. \A w \in Wallets, b \in Buckets :
        Applied(c, w, b)' = Applied(c, w, b) + Atomic!Effect(l, w, b)
  <2> TAKE w \in Wallets, b \in Buckets
  <2>1. Applied(c, w, b)' = Atomic!Running(legs, w, b)[leg[c]]
    BY <1>1, <1>4 DEF Applied
  <2>2. leg[c] \in 0 .. Len(legs) /\ leg[c] # 0
    BY <1>2
  <2> HIDE DEF l, legs
  <2>3. Atomic!Running(legs, w, b)[leg[c]] =
          Atomic!Running(legs, w, b)[leg[c] - 1] + Atomic!Effect(legs[leg[c]], w, b)
    BY <1>2, <2>2, RunningByLeg
  <2> QED
    BY <2>1, <2>3 DEF Applied, l, legs
<1>7. \A w \in Wallets, b \in Buckets :
        /\ Applied(c, w, b) \in Int
        /\ SignedAmount(l) \in Int
        /\ Atomic!Effect(l, w, b) = IF l.wallet = w /\ l.bucket = b THEN SignedAmount(l) ELSE 0
  <2> TAKE w \in Wallets, b \in Buckets
  <2>1. leg[c] - 1 \in 0 .. Len(legs)
    BY <1>2
  <2>2. Applied(c, w, b) \in Int
    BY <1>2, <2>1, RunningByLeg DEF Applied
  <2>3. SignedAmount(l) \in Int
    BY <1>2 DEF SignedAmount, Legs
  <2> QED
    BY <2>2, <2>3 DEF Atomic!Effect, Atomic!SignedAmount, SignedAmount
<1>8. WrittenOK'
  <2> SUFFICES ASSUME NEW d \in Calls, NEW w \in Wallets, NEW b \in Buckets, pc[d] = "legs"
               PROVE  IF lock'[w] = d
                      THEN row'[w][b].balance = committed[w][b].balance + Applied(d, w, b)'
                      ELSE Applied(d, w, b)' = 0
    BY <1>1 DEF WrittenOK
  <2> HIDE DEF l, legs
  <2>0. /\ row[w][b].balance \in Int /\ committed[w][b].balance \in Int
        /\ lock'[w] = IF w = l.wallet THEN c ELSE lock[w]
        /\ IF lock[w] = d THEN row[w][b].balance = committed[w][b].balance + Applied(d, w, b)
           ELSE Applied(d, w, b) = 0
    BY <1>1, BalancesAreInts DEF TypeOK, WrittenOK
  <2>1. CASE d # c
    <3>1. Applied(d, w, b)' = Applied(d, w, b)
      BY <1>1, <1>4, <2>1 DEF Applied
    <3>2. lock[w] = d => w # l.wallet
      BY <1>1, <2>1, LedgerAssumption
    <3>3. lock'[w] = d => lock[w] = d
      BY <2>0, <2>1
    <3> QED
      BY <1>3, <2>0, <2>1, <3>1, <3>2, <3>3
  <2>2. CASE d = c /\ w = l.wallet
    <3>1. row[w][b].balance = committed[w][b].balance + Applied(c, w, b)
      <4>1. CASE lock[w] = c
        BY <2>0, <2>2, <4>1
      <4>2. CASE lock[w] = Nobody
        <5>1. row[w] = committed[w] /\ Applied(c, w, b) = 0
          BY <2>0, <2>2, <4>2, LedgerAssumption DEF LocksOK
        <5> QED
          BY <2>0, <5>1
      <4> QED
        BY <1>1, <2>2, <4>1, <4>2
    <3> QED
      BY <1>3, <1>6, <1>7, <2>0, <2>2, <3>1
  <2>3. CASE d = c /\ w # l.wallet
    BY <1>3, <1>6, <1>7, <2>0, <2>3
  <2> QED
    BY <2>1, <2>2, <2>3
<1> QED
  BY <1>5, <1>8

(* A transaction ends: its rows and locks go, those of the others stay. *)
LEMMA EndRStep ==
    ASSUME RInv, Inv', NEW c \in Calls, pc[c] \in {"insert", "legs"},
           NEW next \in {"returned", "refused", "failed"}, pc' = [pc EXCEPT ![c] = next],
           lock' = [w \in Wallets |-> IF lock[w] = c THEN Nobody ELSE lock[w]],
           \A w \in Wallets : lock[w] # c => row'[w] = row[w] /\ committed'[w] = committed[w],
           UNCHANGED <<req, leg>>
    PROVE  RInv'
<1> USE DEF RInv, Inv
<1>1. \A d \in Calls : pc'[d] = IF d = c THEN next ELSE pc[d]
  BY DEF TypeOK
<1>2. ProgressOK'
  BY <1>1 DEF ProgressOK
<1>3. WrittenOK'
  <2> SUFFICES ASSUME NEW d \in Calls, NEW w \in Wallets, NEW b \in Buckets, pc'[d] = "legs"
               PROVE  IF lock'[w] = d
                      THEN row'[w][b].balance = committed'[w][b].balance + Applied(d, w, b)
                      ELSE Applied(d, w, b) = 0
    BY DEF WrittenOK, Applied
  <2>1. d # c /\ pc[d] = "legs"
    BY <1>1
  <2>2. lock'[w] = d <=> lock[w] = d
    BY <2>1, LedgerAssumption
  <2>3. lock[w] = d => row'[w] = row[w] /\ committed'[w] = committed[w]
    BY <2>1
  <2> QED
    BY <2>1, <2>2, <2>3 DEF WrittenOK
<1> QED
  BY <1>2, <1>3

LEMMA NextRInv == RInv /\ [Next]_vars => RInv'
<1> SUFFICES ASSUME RInv, [Next]_vars PROVE RInv'
  OBVIOUS
<1>1. Inv'
  BY NextInv DEF RInv
<1>2. ASSUME NEW c \in Calls, Post(c) \/ Lookup(c) \/ ReturnWinner(c) PROVE RInv'
  BY <1>1, <1>2, QuietRStep DEF Post, Lookup, ReturnWinner, RInv, Inv, TypeOK
<1>3. ASSUME NEW c \in Calls, InsertTransaction(c) PROVE RInv'
  BY <1>1, <1>3, InsertRStep
<1>4. ASSUME NEW c \in Calls, ApplyLeg(c) PROVE RInv'
  BY <1>1, <1>4, ApplyRStep
<1>5. ASSUME NEW c \in Calls, RefuseLeg(c) PROVE RInv'
  BY <1>1, <1>5, EndRStep DEF RefuseLeg, Rollback
<1>6. ASSUME NEW c \in Calls, Abort(c) PROVE RInv'
  BY <1>1, <1>6, EndRStep DEF Abort, InTransaction, Rollback
<1>7. ASSUME NEW c \in Calls, Commit(c) PROVE RInv'
  BY <1>1, <1>7, EndRStep DEF Commit
<1>8. CASE UNCHANGED vars
  BY <1>1, <1>8, QuietRStep DEF vars
<1> QED
  BY <1>2, <1>3, <1>4, <1>5, <1>6, <1>7, <1>8 DEF Next, Step, AllAnswered

----------------------------------------------------------------------------
LEMMA InitMaps == Init => Atomic!Init
<1> SUFFICES ASSUME Init PROVE Atomic!Init
  OBVIOUS
<1>1. Balances(committed) = OpeningBalance
  BY LedgerAssumption DEF Init, Balances
<1>2. [c \in posted |-> req[c]] = << >>
  BY DEF Init
<1> QED
  BY <1>1, <1>2 DEF Atomic!Init

(* Committing is the one step the callers see: it books the whole posting. *)
LEMMA CommitBooks ==
    ASSUME RInv, Inv', NEW c \in Calls, Commit(c)
    PROVE  Atomic!Book(c, req[c])
<1> DEFINE r == req[c]
           balance == Balances(committed)
           booked == [d \in posted |-> req[d]]
<1> USE DEF RInv, Inv
<1>1. /\ pc[c] = "legs" /\ leg[c] > Len(r.legs) /\ leg[c] \in Nat
      /\ committed' = [w \in Wallets |-> IF lock[w] = c THEN row[w] ELSE committed[w]]
      /\ posted' = posted \cup {c}
      /\ req' = req
  BY DEF Commit, TypeOK
<1>2. r.legs \in Seq(Legs) /\ leg[c] - 1 = Len(r.legs)
  <2>1. r.legs \in Seq(Legs) /\ Len(r.legs) \in Nat
    BY LedgerAssumption DEF TypeOK
  <2> QED
    BY <1>1, <2>1 DEF ProgressOK
<1>3. c \notin posted
  BY <1>1 DEF CallsOK
<1>4. r.key = NoKey \/ \A d \in DOMAIN booked : booked[d].key # r.key
  BY <1>1, <1>3 DEF KeyInsertedOnce, Inserted, TypeOK
<1>5. \A i \in DOMAIN r.legs : r.legs[i].wallet \in Wallets
  BY <1>1, <1>2 DEF ProgressOK, InBooks
<1>6. ASSUME NEW w \in Wallets, NEW b \in Buckets
      PROVE  committed'[w][b].balance = committed[w][b].balance + Atomic!Net(r.legs, w, b)
  <2>1. Atomic!Net(r.legs, w, b) = Applied(c, w, b)
    BY <1>2 DEF Atomic!Net, Applied
  <2>2. committed[w][b].balance \in Int
    BY BalancesAreInts
  <2>3. CASE lock[w] = c
    BY <1>1, <2>1, <2>3 DEF WrittenOK
  <2>4. CASE lock[w] # c
    BY <1>1, <2>1, <2>2, <2>4 DEF WrittenOK
  <2> QED
    BY <2>3, <2>4
<1>7. Balances(committed)' = Atomic!Moved(r.legs)
  BY <1>6 DEF Atomic!Moved, Balances
<1>8. \A w \in Wallets \ NegativeAllowed, b \in Buckets : Atomic!Moved(r.legs)[w][b] >= 0
  <2>1. \A w \in Wallets \ NegativeAllowed, b \in Buckets : committed'[w][b].balance >= 0
    BY DEF NoOverdraft
  <2> QED
    BY <1>6, <2>1 DEF Atomic!Moved, Balances
<1>9. [d \in posted' |-> req'[d]] =
        [d \in DOMAIN booked \cup {c} |-> IF d = c THEN r ELSE booked[d]]
  BY <1>1, <1>3
<1> QED
  BY <1>3, <1>4, <1>5, <1>7, <1>8, <1>9 DEF Atomic!Book

(* No other step shows. *)
LEMMA NextMaps == RInv /\ Inv' /\ [Next]_vars => [Atomic!Next]_(Atomic!vars)
<1> SUFFICES ASSUME RInv, Inv', [Next]_vars PROVE [Atomic!Next]_(Atomic!vars)
  OBVIOUS
<1>1. ASSUME NEW c \in Calls, Commit(c) PROVE Atomic!Next
  <2>1. req[c] \in Requests
    BY DEF RInv, Inv, TypeOK
  <2>2. Atomic!Book(c, req[c])
    BY <1>1, CommitBooks
  <2> QED
    BY <2>1, <2>2 DEF Atomic!Next, Atomic!Book
<1>2. CASE UNCHANGED <<committed, posted, req>>
  BY <1>2 DEF Atomic!vars, Balances
<1>3. UNCHANGED <<committed, posted, req>> \/ \E c \in Calls : Commit(c)
  BY DEF Next, Step, AllAnswered, vars, Post, Lookup, InsertTransaction, ApplyLeg, RefuseLeg,
         Abort, Rollback, ReturnWinner
<1> QED
  BY <1>1, <1>2, <1>3

(* "Every movement is a balanced posting": whatever calls of post          *)
(* interleave, wait for each other or roll back, what other sessions can   *)
(* read is what a ledger shows that books each posting in one step, once   *)
(* per key, and overdraws no spendable wallet.                             *)
THEOREM PostingIsAtomic == Spec => PostsAtomically
<1>1. RInv => Inv
  BY DEF RInv
<1> QED
  BY <1>1, InitRInv, NextRInv, InitMaps, NextMaps, PTL DEF Spec, PostsAtomically, Atomic!Spec

----------------------------------------------------------------------------
(* Conservation: what a posting moves adds up to nothing. *)

(* How DebitMinusCredit is reached, leg by leg. *)
LEMMA DebitsByLeg ==
    ASSUME NEW legs \in Seq(Legs)
    PROVE  \E g \in [0 .. Len(legs) -> Int] :
             /\ DebitMinusCredit(legs) = g[Len(legs)]
             /\ \A n \in 0 .. Len(legs) :
                  g[n] = IF n = 0 THEN 0 ELSE g[n - 1] - SignedAmount(legs[n])
<1> DEFINE upTo[n \in 0 .. Len(legs)] ==
             IF n = 0 THEN 0 ELSE upTo[n - 1] - SignedAmount(legs[n])
           Sums(g) == g = [n \in 0 .. Len(legs) |->
                             IF n = 0 THEN 0 ELSE g[n - 1] - SignedAmount(legs[n])]
           e == [n \in 1 .. Len(legs) |-> -SignedAmount(legs[n])]
<1>1. \A l \in Legs : SignedAmount(l) \in Int
  BY DEF SignedAmount, Legs
<1>2. DebitMinusCredit(legs) = upTo[Len(legs)]
  BY DEF DebitMinusCredit
<1>3. upTo = CHOOSE g : Sums(g)
  OBVIOUS
<1>4. Len(legs) \in Nat /\ e \in [1 .. Len(legs) -> Int]
  BY <1>1
<1>5. PICK g \in [0 .. Len(legs) -> Int] :
        \A n \in 0 .. Len(legs) : g[n] = IF n = 0 THEN 0 ELSE g[n - 1] + e[n]
  <2> HIDE DEF e
  <2> QED
    BY <1>4, RunningSums
<1>6. \A n \in 1 .. Len(legs) : g[n - 1] + e[n] = g[n - 1] - SignedAmount(legs[n])
  BY <1>1, <1>4
<1>7. Sums(g)
  <2>1. \A n \in 0 .. Len(legs) : n # 0 => n \in 1 .. Len(legs)
    BY <1>4
  <2> HIDE DEF e
  <2>2. \A n \in 0 .. Len(legs) :
          g[n] = IF n = 0 THEN 0 ELSE g[n - 1] - SignedAmount(legs[n])
    BY <1>5, <1>6, <2>1
  <2>3. g = [n \in 0 .. Len(legs) |-> g[n]]
    BY <1>5
  <2> QED
    BY <2>2, <2>3
<1>8. Sums(upTo)
  <2> HIDE DEF Sums, upTo
  <2> QED
    BY <1>3, <1>7
<1> HIDE DEF upTo, e
<1>9. ASSUME NEW n \in 0 .. Len(legs) PROVE upTo[n] = g[n]
  <2> DEFINE Bad == {k \in 0 .. Len(legs) : upTo[k] # g[k]}
  <2>1. ASSUME NEW m \in Bad, \A k \in Bad : m <= k PROVE FALSE
    <3>1. CASE m = 0
      BY <1>7, <1>8, <3>1
    <3>2. CASE m # 0
      <4>1. m - 1 \in 0 .. Len(legs) /\ m - 1 \notin Bad
        BY <1>4, <2>1, <3>2
      <4> QED
        BY <1>7, <1>8, <3>2, <4>1
    <3> QED
      BY <3>1, <3>2
  <2>2. Bad \subseteq Nat
    BY <1>4
  <2> HIDE DEF Bad
  <2>3. Bad = {}
    BY <2>1, <2>2, LeastNatural
  <2> QED
    BY <2>3 DEF Bad
<1>10. DebitMinusCredit(legs) = g[Len(legs)]
  BY <1>2, <1>4, <1>9
<1> QED
  BY <1>5, <1>7, <1>10

LEMMA AccountsAreFinite ==
    ASSUME NEW cur
    PROVE  IsFiniteSet(Accounts(cur)) /\ Accounts(cur) \subseteq Wallets \X Buckets
<1>1. {w \in Wallets : CurrencyOf[w] = cur} \in SUBSET Wallets
  OBVIOUS
<1>2. IsFiniteSet({w \in Wallets : CurrencyOf[w] = cur})
  BY <1>1, FS_Subset, LedgerIsFinite
<1> QED
  BY <1>1, <1>2, FS_Product, LedgerIsFinite DEF Accounts

(* One leg shows in the total of its own currency, and in no other. *)
LEMMA OneLeg ==
    ASSUME NEW l \in Legs, l.wallet \in Wallets, NEW cur
    PROVE  SumFunctionOnSet([a \in Wallets \X Buckets |-> Atomic!Effect(l, a[1], a[2])],
                            Accounts(cur))
             = IF cur = CurrencyOf[l.wallet] THEN SignedAmount(l) ELSE 0
<1> DEFINE f == [a \in Wallets \X Buckets |-> Atomic!Effect(l, a[1], a[2])]
           x == <<l.wallet, l.bucket>>
           S == Accounts(cur)
<1>1. l.bucket \in Buckets /\ SignedAmount(l) \in Int /\ Atomic!SignedAmount(l) = SignedAmount(l)
  BY DEF Legs, SignedAmount, Atomic!SignedAmount
<1>2. x \in Wallets \X Buckets /\ f[x] = SignedAmount(l)
  BY <1>1 DEF Atomic!Effect
<1>3. ASSUME NEW a \in Wallets \X Buckets, a # x PROVE f[a] = 0
  BY <1>3 DEF Atomic!Effect
<1>4. IsFiniteSet(S) /\ S \subseteq Wallets \X Buckets
  BY AccountsAreFinite
<1>5. x \in S <=> cur = CurrencyOf[l.wallet]
  BY <1>1 DEF Accounts
<1>6. CASE x \in S
  <2>1. f[x] \in Int /\ \A a \in S \ {x} : f[a] = 0
    BY <1>1, <1>2, <1>3, <1>4
  <2> HIDE DEF f, x, S
  <2>2. SumFunctionOnSet(f, S) = f[x]
    BY <1>4, <1>6, <2>1, SumPoint
  <2> QED
    BY <1>2, <1>5, <1>6, <2>2 DEF f, S
<1>7. CASE x \notin S
  <2>1. \A a \in S : f[a] = 0
    BY <1>3, <1>4, <1>7
  <2> HIDE DEF f, x, S
  <2>2. SumFunctionOnSet(f, S) = 0
    BY <1>4, <2>1, SumZero
  <2> QED
    BY <1>5, <1>7, <2>2 DEF f, S
<1> QED
  BY <1>6, <1>7

(* Over all accounts of a currency, the legs of a balanced posting cancel. *)
LEMMA NetsCancel ==
    ASSUME NEW legs \in Seq(Legs), DebitMinusCredit(legs) = 0, NEW cur, NEW own,
           \A i \in 1 .. Len(legs) :
              legs[i].wallet \in Wallets /\ CurrencyOf[legs[i].wallet] = own
    PROVE  SumFunctionOnSet([a \in Wallets \X Buckets |-> Atomic!Net(legs, a[1], a[2])],
                            Accounts(cur)) = 0
<1> DEFINE A == Wallets \X Buckets
           S == Accounts(cur)
           net(n) == [a \in A |-> Atomic!Running(legs, a[1], a[2])[n]]
           effect(n) == [a \in A |-> Atomic!Effect(legs[n], a[1], a[2])]
<1>1. PICK g \in [0 .. Len(legs) -> Int] :
        /\ DebitMinusCredit(legs) = g[Len(legs)]
        /\ \A n \in 0 .. Len(legs) : g[n] = IF n = 0 THEN 0 ELSE g[n - 1] - SignedAmount(legs[n])
  BY DebitsByLeg
<1>2. IsFiniteSet(S) /\ S \subseteq A /\ Len(legs) \in Nat
  BY AccountsAreFinite
<1>3. ASSUME NEW n \in 0 .. Len(legs), NEW a \in A
      PROVE  /\ net(n)[a] \in Int
             /\ n = 0 => net(n)[a] = 0
             /\ n # 0 => /\ effect(n)[a] \in Int
                         /\ net(n)[a] = net(n - 1)[a] + effect(n)[a]
  <2>1. net(n)[a] = Atomic!Running(legs, a[1], a[2])[n] /\ net(n)[a] \in Int
    BY RunningByLeg
  <2>2. CASE n = 0
    BY <2>1, <2>2, RunningByLeg
  <2>3. CASE n # 0
    <3>1. legs[n] \in Legs /\ Atomic!Effect(legs[n], a[1], a[2]) \in Int
      BY <1>2, <2>3, RunningByLeg
    <3>2. Atomic!Running(legs, a[1], a[2])[n] =
            Atomic!Running(legs, a[1], a[2])[n - 1] + Atomic!Effect(legs[n], a[1], a[2])
      BY <2>3, RunningByLeg
    <3> QED
      BY <2>1, <2>3, <3>1, <3>2
  <2> QED
    BY <2>1, <2>2, <2>3
<1> DEFINE Total(n) == SumFunctionOnSet(net(n), S)
           Bad == {n \in 0 .. Len(legs) : Total(n) # IF cur = own THEN -g[n] ELSE 0}
<1>4. ASSUME NEW m \in Bad, \A k \in Bad : m <= k PROVE FALSE
  <2>1. CASE m = 0
    <3>1. \A a \in S : net(0)[a] = 0
      BY <1>2, <1>3, <2>1
    <3> HIDE DEF net, S
    <3>2. Total(0) = 0
      BY <1>2, <3>1, SumZero
    <3> QED
      BY <1>1, <2>1, <3>2
  <2>2. CASE m # 0
    <3>1. m - 1 \in 0 .. Len(legs) /\ m - 1 \notin Bad /\ m \in 1 .. Len(legs)
      <4> HIDE DEF Total
      <4>1. m \in 0 .. Len(legs)
        OBVIOUS
      <4>2. m - 1 \in 0 .. Len(legs) /\ m \in 1 .. Len(legs) /\ ~ (m <= m - 1)
        BY <1>2, <2>2, <4>1
      <4> QED
        BY <1>4, <4>2
    <3>2. Total(m - 1) = IF cur = own THEN -g[m - 1] ELSE 0
      BY <3>1
    <3>3. \A a \in S : /\ net(m - 1)[a] \in Int /\ effect(m)[a] \in Int
                        /\ net(m)[a] = net(m - 1)[a] + effect(m)[a]
      <4> HIDE DEF net, effect
      <4> QED
        BY <1>2, <1>3, <2>2, <3>1
    <3>4. legs[m] \in Legs /\ legs[m].wallet \in Wallets /\ CurrencyOf[legs[m].wallet] = own
      BY <3>1
    <3>5. SumFunctionOnSet(effect(m), S) = IF cur = own THEN SignedAmount(legs[m]) ELSE 0
      BY <3>4, OneLeg
    <3> HIDE DEF net, effect, S
    <3>6. Total(m) = Total(m - 1) + SumFunctionOnSet(effect(m), S)
      BY <1>2, <3>3, SumPlus
    <3>7. SignedAmount(legs[m]) \in Int /\ g[m - 1] \in Int
          /\ g[m] = g[m - 1] - SignedAmount(legs[m])
      BY <1>1, <2>2, <3>1, <3>4 DEF Legs, SignedAmount
    <3> HIDE DEF Total
    <3> QED
      BY <3>2, <3>5, <3>6, <3>7
  <2> QED
    BY <2>1, <2>2
<1>5. Bad = {}
  <2>1. Bad \subseteq Nat
    BY <1>2
  <2> HIDE DEF Bad
  <2> QED
    BY <1>4, <2>1, LeastNatural
<1>6. Total(Len(legs)) = 0
  <2>1. Len(legs) \in 0 .. Len(legs) /\ g[Len(legs)] = 0
    BY <1>1, <1>2
  <2> HIDE DEF Total
  <2> QED
    BY <1>5, <2>1
<1>7. net(Len(legs)) = [a \in Wallets \X Buckets |-> Atomic!Net(legs, a[1], a[2])]
  BY DEF Atomic!Net
<1> QED
  BY <1>6, <1>7

(* A commit leaves the money of each currency as it was. *)
LEMMA CommitConserves ==
    ASSUME RInv, Inv', Conserved, NEW c \in Calls, Commit(c)
    PROVE  Conserved'
<1> DEFINE legs == req[c].legs
           A == Wallets \X Buckets
<1>1. /\ legs \in Seq(Legs) /\ DebitMinusCredit(legs) = 0
      /\ \A i \in 1 .. Len(legs) :
           legs[i].wallet \in Wallets /\ CurrencyOf[legs[i].wallet] = req[c].currency
  <2>1. pc[c] = "legs" /\ leg[c] > Len(legs) /\ leg[c] \in Nat
    BY DEF Commit, RInv, Inv, TypeOK
  <2>2. legs \in Seq(Legs) /\ Len(legs) \in Nat
    BY LedgerAssumption DEF RInv, Inv, TypeOK
  <2>3. leg[c] - 1 = Len(legs) /\ \A i \in 1 .. leg[c] - 1 : InBooks(req[c], i)
    BY <2>1, <2>2 DEF RInv, ProgressOK
  <2>4. DebitMinusCredit(legs) = 0
    BY <2>1 DEF RInv, Inv, CallsOK, WellFormed
  <2> QED
    BY <2>2, <2>3, <2>4 DEF InBooks
<1>2. Balances(committed)' = Atomic!Moved(legs)
  BY CommitBooks DEF Atomic!Book
<1> SUFFICES ASSUME NEW cur \in Currencies
             PROVE  Held(Balances(committed)', cur) = Held(OpeningBalance, cur)
  BY DEF Conserved, Held
<1> DEFINE S == Accounts(cur)
           old == [a \in A |-> Balances(committed)[a[1]][a[2]]]
           new == [a \in A |-> Balances(committed)'[a[1]][a[2]]]
           net == [a \in A |-> Atomic!Net(legs, a[1], a[2])]
<1>3. IsFiniteSet(S) /\ S \subseteq A
  BY AccountsAreFinite
<1>4. ASSUME NEW a \in S PROVE old[a] \in Int /\ net[a] \in Int /\ new[a] = old[a] + net[a]
  <2>1. a \in A /\ a[1] \in Wallets /\ a[2] \in Buckets
    BY <1>3
  <2>2. old[a] \in Int
    BY <2>1, BalancesAreInts DEF Balances, RInv, Inv
  <2>3. Len(legs) \in 0 .. Len(legs)
    BY <1>1
  <2>4. net[a] \in Int
    BY <1>1, <2>1, <2>3, RunningByLeg DEF Atomic!Net
  <2>5. new[a] = old[a] + net[a]
    BY <1>2, <2>1 DEF Atomic!Moved, Balances
  <2> QED
    BY <2>2, <2>4, <2>5
<1>5. SumFunctionOnSet(net, S) = 0
  BY <1>1, NetsCancel
<1>6. SumFunctionOnSet(old, S) = Held(OpeningBalance, cur)
  BY DEF Conserved, Held
<1>7. Held(Balances(committed)', cur) = SumFunctionOnSet(new, S)
  BY DEF Held
<1> HIDE DEF old, new, net, S
<1>8. SumFunctionOnSet(new, S) = SumFunctionOnSet(old, S) + SumFunctionOnSet(net, S)
  BY <1>3, <1>4, SumPlus
<1>9. SumFunctionOnSet(old, S) \in Int
  BY <1>3, <1>4, SumRemove
<1> QED
  BY <1>5, <1>6, <1>7, <1>8, <1>9

(* Double entry conserves money: after any number of concurrent postings,  *)
(* retries and rollbacks, all buckets of all wallets of a currency hold    *)
(* together what they opened with.                                         *)
THEOREM MoneyIsConserved == Spec => []Conserved
<1>1. Init => Conserved
  BY InitMaps DEF Conserved, Atomic!Init
<1>2. RInv /\ Inv' /\ Conserved /\ [Next]_vars => Conserved'
  <2> SUFFICES ASSUME RInv, Inv', Conserved, [Next]_vars PROVE Conserved'
    OBVIOUS
  <2>1. CASE UNCHANGED committed
    BY <2>1 DEF Conserved, Held, Balances
  <2>2. UNCHANGED committed \/ \E c \in Calls : Commit(c)
    BY DEF Next, Step, AllAnswered, vars, Post, Lookup, InsertTransaction, ApplyLeg, RefuseLeg,
           Abort, Rollback, ReturnWinner
  <2> QED
    BY <2>1, <2>2, CommitConserves
<1>3. RInv => Inv
  BY DEF RInv
<1> QED
  BY <1>1, <1>2, <1>3, InitRInv, NextRInv, PTL DEF Spec
=============================================================================
