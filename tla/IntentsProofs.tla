--------------------------- MODULE IntentsProofs ---------------------------
(***************************************************************************)
(* Safety of incoming payments for every number of intents, sessions, jobs *)
(* and crashes, and every order total.                                     *)
(*                                                                         *)
(* What an intent shows as paid is a sum over the booked rows, and what    *)
(* the gateway took a sum over its charges.  The invariant ties one to the *)
(* other row by row: a row booked through the gateway is a charge that was *)
(* taken, with its amount, and no charge has two rows.  The rest of it     *)
(* says what each running job may rely on although it read it statements   *)
(* ago; it can, because what was taken is never given back.                *)
(***************************************************************************)
EXTENDS PaymentIntents, FiniteSums

----------------------------------------------------------------------------
Statuses == {"ABSENT", "AWAITING_PAYMENT", "PROCESSING", "PARTIALLY_PAID", "PAID", "OVERPAID",
             "CANCELLED", "EXPIRED"}
JobOps == {"none", "raise", "checkout", "webhook", "browser", "sweep", "wallet", "cancel"}
Steps == {"idle", "create", "stand down", "email", "reference", "remember", "initialize",
          "hand over", "find", "processed", "post", "apply", "order", "write order", "release",
          "fan out", "cancel"}
Numbers == 0 .. MaxIntents
References == 0 .. MaxSessions
JobRecord == [op : JobOps, step : Steps, i : Numbers, n : References, sum : Nat,
              seen : Nat, flag : BOOLEAN]
IntentRecord == [status : Statuses, amount : Nat, paid : Nat, due : BOOLEAN, engaged : BOOLEAN,
                 session : References, asked : Nat]
ChargeRecord == [state : {"none", "open", "offered", "taken"}, amount : Nat]
EventRecord == [status : {"none", "RECEIVED", "FAILED", "IGNORED", "PROCESSED"}, tries : Nat]
BookedRow == [i : Intents, n : References, sum : Nat]

TypeOK ==
    /\ intent \in [Intents -> IntentRecord]
    /\ charge \in [Charges -> ChargeRecord]
    /\ wallet \in [Intents -> Nat]
    /\ booked \subseteq BookedRow /\ IsFiniteSet(booked)
    /\ fannedOut \subseteq Intents
    /\ job \in [Jobs -> JobRecord]

(* A session is only opened for an intent that was raised. *)
ChargesOK == \A c \in Charges : charge[c].state # "none" => Exists(c[1])

(* The rows of one intent have different references; a row of the gateway  *)
(* is a charge it took, a row of the wallet has a ledger transaction; what *)
(* the intent shows is what its rows add up to.                            *)
IsCharge(i, n, sum) == /\ n \in 1 .. MaxSessions
                       /\ charge[<<i, n>>].state = "taken"
                       /\ charge[<<i, n>>].amount = sum
RowsOf(rows, i) == {t \in rows : t.i = i}
BooksOK ==
    /\ \A t, u \in booked : t.i = u.i /\ t.n = u.n => t = u
    /\ \A t \in booked : /\ Exists(t.i)
                         /\ IF t.n = Wallet THEN wallet[t.i] # 0 ELSE IsCharge(t.i, t.n, t.sum)
    /\ \A i \in Intents : intent[i].paid = SumOf(RowsOf(booked, i))

(* A wallet that pays, pays all that the gateway has not taken. *)
Covered(i) == Taken(i) >= intent[i].amount
WalletOK == \A i \in Intents : wallet[i] # 0 => Exists(i) /\ Covered(i)

(* An event is the report of a charge that was taken. *)
EventsOK == /\ event \in [Charges -> EventRecord]
            /\ \A c \in Charges : event[c].status # "none" => charge[c].state = "taken"

FanOutOK == \A i \in fannedOut : Exists(i) /\ Covered(i)

CheckoutSteps == {"email", "reference", "remember", "initialize", "hand over"}
OrderSteps == {"order", "write order", "release", "fan out"}

(* What a job may rely on at each of its steps. *)
JobFine(c) ==
    /\ c.step \in {"create", "stand down"} => c.op = "raise"
    /\ c.step \notin {"idle", "create"} => c.i \in Intents /\ Exists(c.i)
    /\ c.op = "webhook" => /\ c.i \in Intents /\ c.n \in 1 .. MaxSessions
                           /\ charge[<<c.i, c.n>>].state = "taken"
    /\ c.step \in CheckoutSteps => c.op # "webhook"
    /\ c.step = "processed" => c.op = "webhook"
    /\ c.step = "find" => IsCharge(c.i, c.n, c.sum)
    /\ c.step = "apply" => IF c.n = Wallet THEN wallet[c.i] # 0 ELSE IsCharge(c.i, c.n, c.sum)
    /\ c.step = "post" => /\ c.n = Wallet /\ c.sum # 0
                          /\ wallet[c.i] = 0 => c.sum + TakenByGateway(c.i) >= intent[c.i].amount
    /\ c.step \in OrderSteps /\ c.flag => Covered(c.i)
JobsOK == \A j \in Jobs : JobFine(job[j])

(* There is a row for every job that is about to insert one. *)
Free == {i \in Intents : ~Exists(i)}
Raising == {k \in Jobs : job[k].op = "raise"}
RaisesOK == Cardinality(Free) >= Cardinality(Raising)

Inv == TypeOK /\ ChargesOK /\ EventsOK /\ BooksOK /\ WalletOK /\ FanOutOK /\ JobsOK /\ RaisesOK

----------------------------------------------------------------------------
(* Sums over charges and rows. *)

LEMMA ChargesAreFinite == IsFiniteSet(Intents) /\ IsFiniteSet(Charges)
<1>1. IsFiniteSet(Intents) /\ IsFiniteSet(1 .. MaxSessions)
  BY FS_Interval, IntentAssumption DEF Intents
<1> QED
  BY <1>1, FS_Product DEF Charges

(* What was taken is a natural number. *)
TakenInNat == \A i \in Intents : TakenByGateway(i) \in Nat /\ Taken(i) \in Nat

LEMMA TakenIsNat == TypeOK => TakenInNat
<1> SUFFICES ASSUME TypeOK, NEW i \in Intents
             PROVE  TakenByGateway(i) \in Nat /\ Taken(i) \in Nat
  BY DEF TakenInNat
<1> DEFINE S == TakenCharges(i)
           f == [c \in S |-> charge[c].amount]
<1>1. IsFiniteSet(S)
  BY ChargesAreFinite, FS_Subset DEF TakenCharges
<1>2. \A c \in S : f[c] \in Nat
  BY DEF TakenCharges, TypeOK, ChargeRecord
<1>3. TakenByGateway(i) = SumFunctionOnSet(f, S)
  BY DEF TakenByGateway, SumFunction
<1> HIDE DEF S, f
<1>4. TakenByGateway(i) \in Nat
  BY <1>1, <1>2, <1>3, SumNat
<1> QED
  BY <1>4 DEF Taken, TypeOK

LEMMA TakenIsNatNext == TypeOK' => TakenInNat'
BY TakenIsNat, PTL

(* The gateway gives nothing back. *)
ChargesStay == \A c \in Charges : charge[c].state = "taken" =>
    charge'[c].state = "taken" /\ charge'[c].amount = charge[c].amount

LEMMA TakenGrows ==
    ASSUME TypeOK, TypeOK', ChargesStay, NEW i \in Intents
    PROVE  TakenByGateway(i) <= TakenByGateway(i)'
<1> DEFINE S == TakenCharges(i)
           T == {c \in Charges : c[1] = i /\ charge'[c].state = "taken"}
           f == [c \in S |-> charge[c].amount]
           g == [c \in T |-> charge'[c].amount]
<1>1. IsFiniteSet(S) /\ IsFiniteSet(T)
  BY ChargesAreFinite, FS_Subset DEF TakenCharges
<1>2. S \subseteq T /\ \A c \in S : f[c] = g[c]
  BY DEF TakenCharges, ChargesStay
<1>3. \A c \in T : g[c] \in Nat
  BY DEF TypeOK, ChargeRecord
<1>4. TakenByGateway(i) = SumFunctionOnSet(f, S)
  BY DEF TakenByGateway, SumFunction
<1>5. TakenByGateway(i)' = SumFunctionOnSet(g, T)
  BY DEF TakenByGateway, SumFunction, TakenCharges
<1> HIDE DEF S, T, f, g
<1>6. SumFunctionOnSet(f, S) = SumFunctionOnSet(g, S)
  BY <1>1, <1>2, SumAgree
<1>7. SumFunctionOnSet(g, S) <= SumFunctionOnSet(g, T)
  BY <1>1, <1>2, <1>3, SumSubset
<1> QED
  BY <1>4, <1>5, <1>6, <1>7

(* The rows of one intent, through the gateway and from the wallet. *)
ByGateway(rows, i) == {t \in rows : t.i = i /\ t.n # Wallet}
ByWallet(rows, i) == {t \in rows : t.i = i /\ t.n = Wallet}

LEMMA RowsAddUp ==
    ASSUME NEW rows \in SUBSET BookedRow, IsFiniteSet(rows), NEW i
    PROVE  /\ SumOf(RowsOf(rows, i)) \in Nat
           /\ SumOf(ByGateway(rows, i)) \in Nat /\ SumOf(ByWallet(rows, i)) \in Nat
           /\ SumOf(RowsOf(rows, i)) = SumOf(ByGateway(rows, i)) + SumOf(ByWallet(rows, i))
<1> DEFINE S == ByGateway(rows, i)
           T == ByWallet(rows, i)
           f == [t \in rows |-> t.sum]
<1>1. /\ IsFiniteSet(S) /\ IsFiniteSet(T) /\ S \cap T = {}
      /\ S \cup T = RowsOf(rows, i) /\ S \cup T \subseteq rows
  BY FS_Subset DEF ByGateway, ByWallet, RowsOf
<1>2. \A t \in rows : f[t] \in Nat /\ f[t] \in Int
  BY DEF BookedRow
<1>3. ASSUME NEW R \in SUBSET rows
      PROVE  SumOf(R) = SumFunctionOnSet(f, R) /\ SumOf(R) \in Nat
  <2> DEFINE g == [t \in R |-> t.sum]
  <2>1. IsFiniteSet(R)
    BY FS_Subset
  <2>2. \A t \in R : g[t] = f[t] /\ f[t] \in Nat
    BY <1>2
  <2>3. SumOf(R) = SumFunctionOnSet(g, R)
    BY DEF SumOf, SumFunction
  <2> HIDE DEF f, g
  <2>4. SumFunctionOnSet(g, R) = SumFunctionOnSet(f, R) /\ SumFunctionOnSet(f, R) \in Nat
    BY <2>1, <2>2, SumAgree, SumNat
  <2> QED
    BY <2>3, <2>4
<1> HIDE DEF f
<1>4. SumFunctionOnSet(f, S \cup T) = SumFunctionOnSet(f, S) + SumFunctionOnSet(f, T)
  <2> HIDE DEF S, T
  <2> QED
    BY <1>1, <1>2, SumUnion
<1>5. /\ SumOf(S) = SumFunctionOnSet(f, S) /\ SumOf(S) \in Nat
      /\ SumOf(T) = SumFunctionOnSet(f, T) /\ SumOf(T) \in Nat
      /\ SumOf(RowsOf(rows, i)) = SumFunctionOnSet(f, RowsOf(rows, i))
      /\ SumOf(RowsOf(rows, i)) \in Nat
  <2>1. S \in SUBSET rows /\ T \in SUBSET rows /\ RowsOf(rows, i) \in SUBSET rows
    BY DEF ByGateway, ByWallet, RowsOf
  <2> HIDE DEF S, T
  <2> QED
    BY <1>3, <2>1
<1>6. SumFunctionOnSet(f, RowsOf(rows, i)) = SumFunctionOnSet(f, S \cup T)
  BY <1>1, Zenon
<1> QED
  BY <1>4, <1>5, <1>6

(* The rows booked through the gateway are no more than what it took. *)
LEMMA GatewayRowsWereTaken ==
    TypeOK /\ BooksOK => \A i \in Intents : SumOf(ByGateway(booked, i)) <= TakenByGateway(i)
<1> SUFFICES ASSUME TypeOK, BooksOK, NEW i \in Intents
             PROVE  SumOf(ByGateway(booked, i)) <= TakenByGateway(i)
  OBVIOUS
<1> DEFINE R == ByGateway(booked, i)
           f == [t \in R |-> t.sum]
           h == [t \in R |-> <<t.i, t.n>>]
           S == TakenCharges(i)
           e == [c \in S |-> charge[c].amount]
           image == {h[t] : t \in R}
<1>1. IsFiniteSet(R) /\ IsFiniteSet(S)
  BY ChargesAreFinite, FS_Subset DEF TypeOK, ByGateway, TakenCharges
<1>2. ASSUME NEW t \in R PROVE f[t] \in Int /\ h[t] \in S /\ e[h[t]] = f[t]
  <2>1. t \in booked /\ t.i = i /\ t.n # Wallet /\ t \in BookedRow
    BY DEF ByGateway, TypeOK
  <2>2. IsCharge(i, t.n, t.sum)
    BY <2>1 DEF BooksOK
  <2>3. <<i, t.n>> \in S
    BY <2>1, <2>2 DEF IsCharge, TakenCharges, Charges
  <2>4. h[t] = <<i, t.n>>
    BY <2>1
  <2> QED
    BY <2>1, <2>2, <2>3, <2>4 DEF IsCharge, BookedRow
<1>3. \A t, u \in R : h[t] = h[u] => t = u
  BY DEF ByGateway, BooksOK
<1>4. \A c \in S : e[c] \in Nat
  BY DEF TypeOK, ChargeRecord, TakenCharges
<1>5. image \subseteq S
  BY <1>2
<1>6. SumOf(R) = SumFunctionOnSet(f, R) /\ TakenByGateway(i) = SumFunctionOnSet(e, S)
  BY DEF SumOf, SumFunction, TakenByGateway
<1> HIDE DEF R, S, f, h, e
<1>7. SumFunctionOnSet(e, image) = SumFunctionOnSet(f, R)
  BY <1>1, <1>2, <1>3, SumReindex
<1>8. SumFunctionOnSet(e, image) <= SumFunctionOnSet(e, S)
  <2> HIDE DEF image
  <2> QED
    BY <1>1, <1>4, <1>5, SumSubset
<1> QED
  BY <1>6, <1>7, <1>8 DEF R

(* Without a ledger transaction, what an intent shows as paid was taken by *)
(* the gateway.                                                            *)
LEMMA PaidByGateway ==
    TypeOK /\ BooksOK =>
        \A i \in Intents : wallet[i] = 0 => intent[i].paid <= TakenByGateway(i)
<1> SUFFICES ASSUME TypeOK, BooksOK, NEW i \in Intents, wallet[i] = 0
             PROVE  intent[i].paid <= TakenByGateway(i)
  OBVIOUS
<1>1. ByWallet(booked, i) = {}
  BY DEF BooksOK, ByWallet
<1>2. SumOf(ByWallet(booked, i)) = 0
  <2> DEFINE S == ByWallet(booked, i)
             f == [t \in S |-> t.sum]
  <2>1. SumOf(S) = SumFunctionOnSet(f, S)
    BY DEF SumOf, SumFunction
  <2>2. S = {}
    BY <1>1
  <2> HIDE DEF f, S
  <2>3. SumFunctionOnSet(f, {}) = 0
    BY SumEmpty
  <2>4. SumFunctionOnSet(f, S) = 0
    BY <2>2, <2>3, Zenon
  <2> QED
    BY <2>1, <2>4 DEF S
<1>3. booked \in SUBSET BookedRow /\ IsFiniteSet(booked)
  BY DEF TypeOK
<1>4. /\ SumOf(RowsOf(booked, i)) = SumOf(ByGateway(booked, i)) + SumOf(ByWallet(booked, i))
      /\ SumOf(ByGateway(booked, i)) \in Nat
  BY <1>3, RowsAddUp
<1>5. SumOf(ByGateway(booked, i)) <= TakenByGateway(i)
  BY GatewayRowsWereTaken
<1>6. intent[i].paid = SumOf(RowsOf(booked, i))
  BY DEF BooksOK
<1> QED
  BY <1>2, <1>4, <1>5, <1>6

(* An intent that shows as paid in full has been.                          *)
WhatIsPaidIsCovered ==
    \A i \in Intents : intent[i].paid >= intent[i].amount => Covered(i)

LEMMA PaidIsCovered == TypeOK /\ BooksOK /\ WalletOK => WhatIsPaidIsCovered
<1> SUFFICES ASSUME TypeOK, BooksOK, WalletOK, NEW i \in Intents,
                    intent[i].paid >= intent[i].amount
             PROVE  Covered(i)
  BY DEF WhatIsPaidIsCovered
<1>1. CASE wallet[i] # 0
  BY <1>1 DEF WalletOK
<1>2. CASE wallet[i] = 0
  <2>1. intent[i].paid <= TakenByGateway(i)
    BY <1>2, PaidByGateway
  <2>2. intent[i].paid \in Nat /\ intent[i].amount \in Nat /\ TakenByGateway(i) \in Nat
    BY TakenIsNat DEF TakenInNat, TypeOK, IntentRecord
  <2> QED
    BY <1>2, <2>1, <2>2 DEF Covered, Taken
<1> QED
  BY <1>1, <1>2

LEMMA PaidIsCoveredNext == TypeOK' /\ BooksOK' /\ WalletOK' => WhatIsPaidIsCovered'
BY PaidIsCovered, PTL

----------------------------------------------------------------------------
(* What no step undoes: an intent that exists keeps its amount, what was   *)
(* taken stays taken.  So what a job could rely on, it still can.          *)

Grows ==
    /\ ChargesStay
    /\ \A i \in Intents : /\ Exists(i) => Exists(i)' /\ intent'[i].amount = intent[i].amount
                          /\ wallet[i] <= wallet'[i]

LEMMA SameRowsGrow ==
    ASSUME TypeOK, UNCHANGED <<intent, charge, wallet>>
    PROVE  Grows
BY DEF TypeOK, Exists, Grows, ChargesStay

LEMMA CoveredStays ==
    ASSUME TypeOK, TypeOK', Grows, NEW i \in Intents, Exists(i), Covered(i)
    PROVE  Covered(i)'
<1>1. TakenByGateway(i) <= TakenByGateway(i)'
  BY TakenGrows DEF Grows
<1>2. wallet[i] <= wallet'[i] /\ intent'[i].amount = intent[i].amount
  BY DEF Grows
<1>3. wallet[i] \in Nat /\ wallet'[i] \in Nat /\ intent[i].amount \in Nat
  BY DEF TypeOK, IntentRecord
<1>4. TakenByGateway(i) \in Nat
  BY TakenIsNat DEF TakenInNat
<1>5. TakenByGateway(i)' \in Nat
  BY TakenIsNatNext DEF TakenInNat
<1> QED
  BY <1>1, <1>2, <1>3, <1>4, <1>5 DEF Covered, Taken

LEMMA ChargeStays ==
    ASSUME Grows, NEW i \in Intents, NEW n, NEW sum, IsCharge(i, n, sum)
    PROVE  IsCharge(i, n, sum)'
BY DEF Grows, ChargesStay, IsCharge, Charges

LEMMA FineStays ==
    ASSUME TypeOK, TypeOK', Grows, NEW c \in JobRecord, JobFine(c)
    PROVE  JobFine(c)'
<1>0. (c.op = "webhook" => /\ c.i \in Intents /\ c.n \in 1 .. MaxSessions
                           /\ charge[<<c.i, c.n>>].state = "taken")'
  BY DEF JobFine, Grows, ChargesStay, Charges
<1>1. CASE c.step \in {"idle", "create"}
  BY <1>0, <1>1 DEF JobFine, CheckoutSteps, OrderSteps
<1>2. CASE c.step \notin {"idle", "create"}
  <2>1. c.i \in Intents /\ Exists(c.i)
    BY <1>2 DEF JobFine
  <2>2. /\ Exists(c.i)' /\ intent'[c.i].amount = intent[c.i].amount
        /\ wallet[c.i] <= wallet'[c.i] /\ wallet[c.i] \in Nat /\ wallet'[c.i] \in Nat
        /\ intent[c.i].amount \in Nat
    BY <2>1 DEF Grows, TypeOK, IntentRecord
  <2>3. IsCharge(c.i, c.n, c.sum) => IsCharge(c.i, c.n, c.sum)'
    BY <2>1, ChargeStays
  <2>4. Covered(c.i) => Covered(c.i)'
    BY <2>1, CoveredStays
  <2>5. TakenByGateway(c.i) <= TakenByGateway(c.i)' /\ TakenByGateway(c.i) \in Nat
    BY <2>1, TakenGrows, TakenIsNat DEF Grows, TakenInNat
  <2>6. TakenByGateway(c.i)' \in Nat
    BY <2>1, TakenIsNatNext DEF TakenInNat
  <2>7. (c.step = "apply" => IF c.n = Wallet THEN wallet[c.i] # 0 ELSE IsCharge(c.i, c.n, c.sum))'
    BY <1>2, <2>2, <2>3 DEF JobFine
  <2>8. (c.step = "post" =>
           /\ c.n = Wallet /\ c.sum # 0
           /\ wallet[c.i] = 0 => c.sum + TakenByGateway(c.i) >= intent[c.i].amount)'
    <3> SUFFICES ASSUME c.step = "post"
                 PROVE  /\ c.n = Wallet /\ c.sum # 0
                        /\ wallet'[c.i] = 0 =>
                             c.sum + TakenByGateway(c.i)' >= intent'[c.i].amount
      OBVIOUS
    <3>1. c.sum \in Nat
      BY DEF JobRecord
    <3>2. /\ c.n = Wallet /\ c.sum # 0
          /\ wallet[c.i] = 0 => c.sum + TakenByGateway(c.i) >= intent[c.i].amount
      BY DEF JobFine
    <3> QED
      BY <3>1, <3>2, <2>2, <2>5, <2>6
  <2> QED
    BY <1>0, <1>2, <2>1, <2>2, <2>3, <2>4, <2>7, <2>8 DEF JobFine, CheckoutSteps, OrderSteps
<1> QED
  BY <1>1, <1>2

----------------------------------------------------------------------------
(* The parts of the invariant, across a step. *)

LEMMA BooksStay ==
    ASSUME TypeOK, Grows, BooksOK, booked' = booked,
           \A i \in Intents : intent'[i].paid = intent[i].paid
    PROVE  BooksOK'
<1>1. \A t \in booked : /\ t.i \in Intents /\ Exists(t.i)'
                        /\ IF t.n = Wallet THEN wallet'[t.i] # 0 ELSE IsCharge(t.i, t.n, t.sum)'
  <2> SUFFICES ASSUME NEW t \in booked
               PROVE  /\ t.i \in Intents /\ Exists(t.i)'
                      /\ IF t.n = Wallet THEN wallet'[t.i] # 0 ELSE IsCharge(t.i, t.n, t.sum)'
    OBVIOUS
  <2>1. t.i \in Intents /\ Exists(t.i)
    BY DEF TypeOK, BookedRow, BooksOK
  <2>2. CASE t.n = Wallet
    <3>1. wallet[t.i] # 0
      BY <2>2 DEF BooksOK
    <3> QED
      BY <2>1, <2>2, <3>1 DEF Grows, TypeOK, Wallet
  <2>3. CASE t.n # Wallet
    <3>1. IsCharge(t.i, t.n, t.sum)
      BY <2>3 DEF BooksOK
    <3>2. PICK a, n, m : a \in Intents /\ a = t.i /\ n = t.n /\ m = t.sum
      BY <2>1
    <3>3. IsCharge(a, n, m)'
      BY <3>1, <3>2, ChargeStays
    <3> QED
      BY <2>1, <2>3, <3>2, <3>3 DEF Grows, IsCharge
  <2> QED
    BY <2>2, <2>3
<1> QED
  BY <1>1 DEF BooksOK, Exists, IsCharge

(* An event only moves once its charge was taken. *)
EventMoves ==
    \/ event' = event
    \/ \E c \in Charges, e \in EventRecord :
         charge[c].state = "taken" /\ event' = [event EXCEPT ![c] = e]

LEMMA EventsStay ==
    ASSUME EventsOK, Grows, EventMoves
    PROVE  EventsOK'
BY DEF EventsOK, Grows, ChargesStay, EventMoves, Charges

LEMMA CoveredIntentsStay ==
    ASSUME TypeOK, TypeOK', Grows, WalletOK, FanOutOK,
           fannedOut' = fannedOut, wallet' = wallet
    PROVE  WalletOK' /\ FanOutOK'
<1>1. \A i \in Intents : Exists(i) /\ Covered(i) => Exists(i)' /\ Covered(i)'
  BY CoveredStays DEF Grows
<1>2. \A i \in fannedOut : i \in Intents
  BY DEF TypeOK
<1> QED
  BY <1>1, <1>2 DEF WalletOK, FanOutOK, Intents

LEMMA JobsStep ==
    ASSUME TypeOK, TypeOK', Grows, JobsOK, NEW j \in Jobs, NEW c \in JobRecord,
           job' = [job EXCEPT ![j] = c], JobFine(c)'
    PROVE  JobsOK'
<1> SUFFICES ASSUME NEW k \in Jobs
             PROVE  JobFine(job[k])'
  BY DEF JobsOK
<1>1. CASE k = j
  <2>1. job'[k] = c
    BY <1>1 DEF TypeOK
  <2> QED
    BY <2>1 DEF JobFine, IsCharge, Covered, Taken, Exists
<1>2. CASE k # j
  <2>1. PICK d \in JobRecord : d = job[k]
    BY DEF TypeOK
  <2>2. JobFine(d)'
    BY <2>1, FineStays DEF JobsOK
  <2>3. job'[k] = d
    BY <1>2, <2>1 DEF TypeOK
  <2> QED
    BY <2>2, <2>3 DEF JobFine, IsCharge, Covered, Taken, Exists
<1> QED
  BY <1>1, <1>2

LEMMA RaisesStay ==
    ASSUME TypeOK, RaisesOK, NEW j \in Jobs, NEW c \in JobRecord,
           job' = [job EXCEPT ![j] = c], c.op = "raise" => job[j].op = "raise",
           \A i \in Intents : Exists(i)' <=> Exists(i)
    PROVE  RaisesOK'
<1>1. Free' = Free
  BY DEF Free, Intents
<1>2. Raising' \subseteq Raising
  BY DEF Raising, TypeOK
<1>3. IsFiniteSet(Raising)
  BY IntentAssumption, FS_Subset DEF Raising
<1>4. IsFiniteSet(Free)
  BY ChargesAreFinite, FS_Subset DEF Free
<1>5. /\ Cardinality(Raising') <= Cardinality(Raising)
      /\ Cardinality(Raising') \in Nat /\ Cardinality(Raising) \in Nat
      /\ Cardinality(Free) \in Nat
  BY <1>2, <1>3, <1>4, FS_Subset, FS_CardinalityType
<1> QED
  BY <1>1, <1>5 DEF RaisesOK

(* A step that books nothing and opens or closes no intent. *)
LEMMA PlainStep ==
    ASSUME Inv, TypeOK', ChargesOK', Grows, EventMoves,
           NEW j \in Jobs, NEW c \in JobRecord, job' = [job EXCEPT ![j] = c],
           JobFine(c)', c.op = "raise" => job[j].op = "raise",
           \A i \in Intents : intent'[i].paid = intent[i].paid /\ (Exists(i)' <=> Exists(i)),
           booked' = booked, wallet' = wallet, fannedOut' = fannedOut
    PROVE  Inv'
<1>1. BooksOK'
  BY BooksStay DEF Inv
<1>2. WalletOK' /\ FanOutOK'
  BY CoveredIntentsStay DEF Inv
<1>3. JobsOK'
  BY JobsStep DEF Inv
<1>4. RaisesOK'
  BY RaisesStay DEF Inv
<1>5. EventsOK'
  BY EventsStay DEF Inv
<1> QED
  BY <1>1, <1>2, <1>3, <1>4, <1>5 DEF Inv

(* A step that changes no row the invariant is about but its job. *)
LEMMA JobOnly ==
    ASSUME Inv, NEW j \in Jobs, NEW c \in JobRecord, job' = [job EXCEPT ![j] = c],
           JobFine(c), c.op = "raise" => job[j].op = "raise", EventMoves,
           UNCHANGED <<intent, charge, wallet, booked, fannedOut>>
    PROVE  Inv' /\ Grows
<1>1. TypeOK'
  BY DEF Inv, TypeOK
<1>2. ChargesOK'
  BY DEF Inv, ChargesOK, Exists
<1>3. Grows
  BY DEF Grows, ChargesStay, Exists, Inv, TypeOK
<1>4. JobFine(c)'
  BY <1>1, <1>3, FineStays DEF Inv
<1>5. \A i \in Intents : intent'[i].paid = intent[i].paid /\ (Exists(i)' <=> Exists(i))
  BY DEF Exists
<1> QED
  BY <1>1, <1>2, <1>3, <1>4, <1>5, PlainStep

----------------------------------------------------------------------------
(* One lemma per operation that only moves its own job. *)

LEMMA InRange ==
    /\ \A i \in Intents : i \in Numbers
    /\ \A n \in 1 .. MaxSessions : n \in References /\ n # Wallet
BY IntentAssumption DEF Intents, Wallet, Numbers, References

LEMMA ConstantsFit ==
    /\ Asks \subseteq Nat /\ 0 \in Numbers /\ 0 \in References /\ Wallet \in References
    /\ \A n \in References : n < MaxSessions => n + 1 \in References
BY IntentAssumption DEF Numbers, References, Wallet

LEMMA JobStrings ==
    /\ {"none", "raise", "checkout", "webhook", "browser", "sweep", "wallet", "cancel"} \subseteq JobOps
    /\ {"idle", "create", "stand down", "email", "reference", "remember", "initialize",
        "hand over", "find", "processed", "post", "apply", "order", "write order", "release",
        "fan out", "cancel"} \subseteq Steps
BY DEF JobOps, Steps

LEMMA IdleIsFine == Idle \in JobRecord /\ JobFine(Idle) /\ JobFine(Idle)' /\ Idle.op = "none"
<1>1. "none" \in JobOps /\ "idle" \in Steps
  BY JobStrings
<1>2. Idle \in JobRecord
  BY <1>1, ConstantsFit DEF Idle, JobRecord
<1> QED
  BY <1>2 DEF Idle, JobFine, CheckoutSteps, OrderSteps

(* A job that starts on something that exists. *)
LEMMA JobStarts ==
    ASSUME Inv, NEW j \in Jobs, NEW op \in JobOps, NEW step \in Steps, NEW i \in Intents,
           NEW n \in References, NEW sum \in Nat, Start(j, op, step, i, n, sum),
           op # "raise", step \notin {"create", "stand down", "processed"},
           op = "webhook" => step = "find",
           Exists(i), step \in {"find", "apply"} => IsCharge(i, n, sum),
           step = "post" =>
             n = Wallet /\ sum # 0 /\ (wallet[i] = 0 => sum + TakenByGateway(i) >= intent[i].amount),
           EventMoves, UNCHANGED <<intent, charge, wallet, booked, fannedOut>>
    PROVE  Inv' /\ Grows
<1> DEFINE c == [op |-> op, step |-> step, i |-> i, n |-> n, sum |-> sum, seen |-> 0, flag |-> FALSE]
<1>1. i \in Numbers
  BY InRange
<1>2. c \in JobRecord
  BY <1>1 DEF JobRecord
<1>3. step \in {"find", "apply"} => n # Wallet
  BY InRange DEF IsCharge
<1>4. JobFine(c)
  BY <1>3 DEF JobFine, IsCharge, CheckoutSteps, OrderSteps
<1>5. job' = [job EXCEPT ![j] = c]
  BY DEF Start
<1> HIDE DEF c
<1>6. c.op = op
  BY DEF c
<1> QED
  BY <1>2, <1>4, <1>5, <1>6, JobOnly

(* A charge that was taken belongs to an intent that exists. *)
LEMMA TakenCharge ==
    ASSUME Inv, NEW c \in Charges, charge[c].state = "taken"
    PROVE  /\ c[1] \in Intents /\ c[2] \in 1 .. MaxSessions /\ c[2] \in References
           /\ c = <<c[1], c[2]>> /\ charge[c].amount \in Nat
           /\ Exists(c[1]) /\ IsCharge(c[1], c[2], charge[c].amount)
<1>1. c[1] \in Intents /\ c[2] \in 1 .. MaxSessions /\ c = <<c[1], c[2]>>
  BY DEF Charges
<1>2. Exists(c[1]) /\ charge[c].amount \in Nat
  BY DEF Inv, ChargesOK, TypeOK, ChargeRecord
<1>3. c[2] \in References
  BY <1>1, InRange
<1> QED
  BY <1>1, <1>2, <1>3 DEF IsCharge

LEMMA DeliverSafe ==
    ASSUME Inv, NEW j \in Jobs, NEW c \in Charges, Deliver(j, c) PROVE Inv' /\ Grows
<1>1. "webhook" \in JobOps /\ "find" \in Steps
  BY JobStrings
<1>2. charge[c].state = "taken" /\ Start(j, "webhook", "find", c[1], c[2], charge[c].amount)
  BY DEF Deliver
<1>3. UNCHANGED <<intent, charge, wallet, booked, fannedOut>>
  BY DEF Deliver
<1>4. EventMoves
  <2> DEFINE e == [event[c] EXCEPT !.status = "RECEIVED"]
  <2>1. e \in EventRecord
    BY DEF Inv, EventsOK, EventRecord
  <2>2. event' = [event EXCEPT ![c] = e]
    BY DEF Deliver, Inv, EventsOK
  <2> HIDE DEF e
  <2> QED
    BY <1>2, <2>1, <2>2 DEF EventMoves
<1> QED
  BY <1>1, <1>2, <1>3, <1>4, TakenCharge, JobStarts

LEMMA RetryEventSafe ==
    ASSUME Inv, NEW j \in Jobs, NEW c \in Charges, RetryEvent(j, c) PROVE Inv' /\ Grows
<1>1. "webhook" \in JobOps /\ "find" \in Steps
  BY JobStrings
<1>2. Start(j, "webhook", "find", c[1], c[2], charge[c].amount)
  BY DEF RetryEvent
<1>3. UNCHANGED <<intent, charge, wallet, booked, event, fannedOut>>
  BY DEF RetryEvent
<1>4. charge[c].state = "taken"
  BY DEF RetryEvent, Inv, EventsOK
<1>5. EventMoves
  BY <1>3 DEF EventMoves
<1> QED
  BY <1>1, <1>2, <1>3, <1>4, <1>5, TakenCharge, JobStarts

LEMMA BrowserReturnsSafe ==
    ASSUME Inv, NEW j \in Jobs, NEW c \in Charges, BrowserReturns(j, c) PROVE Inv' /\ Grows
<1>1. "browser" \in JobOps /\ "apply" \in Steps
  BY JobStrings
<1>2. charge[c].state = "taken" /\ Start(j, "browser", "apply", c[1], c[2], charge[c].amount)
  BY DEF BrowserReturns
<1>3. UNCHANGED <<intent, charge, wallet, booked, event, fannedOut>>
  BY DEF BrowserReturns
<1>9. EventMoves
  BY DEF BrowserReturns, EventMoves
<1>8. /\ c[1] \in Intents /\ c[2] \in References /\ charge[c].amount \in Nat
      /\ Exists(c[1]) /\ IsCharge(c[1], c[2], charge[c].amount)
  BY <1>2, <1>3, TakenCharge
<1> QED
  BY <1>1, <1>2, <1>3, <1>8, <1>9, JobStarts

LEMMA SweepSafe ==
    ASSUME Inv, NEW j \in Jobs, NEW i \in Intents, Sweep(j, i) PROVE Inv' /\ Grows
<1> DEFINE c == <<i, 1>>
<1>1. "sweep" \in JobOps /\ "apply" \in Steps
  BY JobStrings
<1>2. c \in Charges /\ c[1] = i /\ c[2] = 1
  BY IntentAssumption DEF Charges
<1>3. charge[c].state = "taken" /\ Start(j, "sweep", "apply", c[1], c[2], charge[c].amount)
  BY DEF Sweep
<1>4. UNCHANGED <<intent, charge, wallet, booked, event, fannedOut>>
  BY DEF Sweep
<1> HIDE DEF c
<1>9. EventMoves
  BY DEF Sweep, EventMoves
<1>8. /\ c[1] \in Intents /\ c[2] \in References /\ charge[c].amount \in Nat
      /\ Exists(c[1]) /\ IsCharge(c[1], c[2], charge[c].amount)
  BY <1>2, <1>3, TakenCharge
<1> QED
  BY <1>1, <1>3, <1>4, <1>8, <1>9, JobStarts

LEMMA PayWithWalletSafe ==
    ASSUME Inv, NEW j \in Jobs, NEW i \in Intents, PayWithWallet(j, i) PROVE Inv' /\ Grows
<1>1. "wallet" \in JobOps /\ "post" \in Steps
  BY JobStrings
<1>2. /\ Exists(i) /\ Start(j, "wallet", "post", i, Wallet, Outstanding(i))
      /\ Outstanding(i) > 0 /\ UNCHANGED <<intent, charge, wallet, booked, event, fannedOut>>
  BY DEF PayWithWallet
<1>3. intent[i].amount \in Nat /\ intent[i].paid \in Nat /\ TakenByGateway(i) \in Nat
  BY TakenIsNat DEF Inv, TypeOK, IntentRecord, TakenInNat
<1>4. Outstanding(i) \in Nat /\ Outstanding(i) # 0 /\ Wallet \in References
  BY <1>2, <1>3, ConstantsFit DEF Outstanding
<1>5. wallet[i] = 0 => intent[i].paid <= TakenByGateway(i)
  BY PaidByGateway DEF Inv
<1>6. wallet[i] = 0 => Outstanding(i) + TakenByGateway(i) >= intent[i].amount
  BY <1>2, <1>3, <1>5 DEF Outstanding
<1>9. EventMoves
  BY DEF PayWithWallet, EventMoves
<1> QED
  BY <1>1, <1>9, <1>2, <1>4, <1>6, JobStarts

LEMMA CancelSafe ==
    ASSUME Inv, NEW j \in Jobs, NEW i \in Intents, Cancel(j, i) PROVE Inv' /\ Grows
<1>1. "cancel" \in JobOps /\ "cancel" \in Steps
  BY JobStrings
<1>2. 0 \in References /\ 0 \in Nat
  BY ConstantsFit
<1>3. Exists(i) /\ Start(j, "cancel", "cancel", i, 0, 0)
  BY DEF Cancel
<1>4. UNCHANGED <<intent, charge, wallet, booked, event, fannedOut>>
  BY DEF Cancel
<1>9. EventMoves
  BY DEF Cancel, EventMoves
<1> QED
  BY <1>1, <1>9, <1>2, <1>3, <1>4, JobStarts

LEMMA OpenCheckoutSafe ==
    ASSUME Inv, NEW j \in Jobs, NEW i \in Intents, OpenCheckout(j, i) PROVE Inv' /\ Grows
<1>1. PICK sum \in 1 .. Outstanding(i) :
         job' = [job EXCEPT ![j] = [op |-> "checkout", step |-> "email", i |-> i,
                                    n |-> intent[i].session, sum |-> sum,
                                    seen |-> intent[i].asked, flag |-> FALSE]]
  BY DEF OpenCheckout
<1> DEFINE c == [op |-> "checkout", step |-> "email", i |-> i, n |-> intent[i].session,
                 sum |-> sum, seen |-> intent[i].asked, flag |-> FALSE]
<1>2. "checkout" \in JobOps /\ "email" \in Steps
  BY JobStrings
<1>3. intent[i].session \in References /\ intent[i].asked \in Nat
  BY DEF Inv, TypeOK, IntentRecord
<1>4. sum \in Nat
  <2>1. Outstanding(i) \in Nat
    BY DEF Inv, TypeOK, IntentRecord, Outstanding
  <2> QED
    BY <2>1
<1>5. c \in JobRecord
  BY <1>2, <1>3, <1>4, InRange DEF JobRecord
<1>6. Exists(i)
  BY DEF OpenCheckout, Payable
<1>7. JobFine(c)
  BY <1>6 DEF JobFine, CheckoutSteps, OrderSteps
<1>8. EventMoves /\ UNCHANGED <<intent, charge, wallet, booked, fannedOut>>
  BY DEF OpenCheckout, EventMoves
<1>9. c.op # "raise" /\ job' = [job EXCEPT ![j] = c]
  BY <1>1
<1> HIDE DEF c
<1> QED
  BY <1>5, <1>7, <1>8, <1>9, JobOnly

(* A job that goes on with what it has. *)
LEMMA JobGoesOn ==
    ASSUME Inv, NEW j \in Jobs, NEW c \in JobRecord, job' = [job EXCEPT ![j] = c],
           job[j].step \notin {"idle", "create"},
           c.op = job[j].op, c.i = job[j].i, c.flag => job[j].flag,
           c.op = "webhook" => c.n = job[j].n,
           c.step \notin {"idle", "create", "stand down", "find", "processed", "apply", "post"},
           c.step \in OrderSteps =>
             job[j].step \in OrderSteps,
           c.step \in CheckoutSteps => job[j].step \in CheckoutSteps,
           EventMoves, UNCHANGED <<intent, charge, wallet, booked, fannedOut>>
    PROVE  Inv' /\ Grows
<1>1. PICK d \in JobRecord : d = job[j]
  BY DEF Inv, TypeOK
<1>2. JobFine(d)
  BY <1>1 DEF Inv, JobsOK
<1>3. JobFine(c)
  BY <1>1, <1>2 DEF JobFine, CheckoutSteps, OrderSteps
<1> QED
  BY <1>1, <1>3, JobOnly

LEMMA JobIsRecord ==
    ASSUME Inv, NEW j \in Jobs
    PROVE  /\ job[j] \in JobRecord /\ JobFine(job[j])
           /\ job[j].op \in JobOps /\ job[j].i \in Numbers /\ job[j].n \in References
           /\ job[j].sum \in Nat /\ job[j].seen \in Nat /\ job[j].flag \in BOOLEAN
           /\ job[j].step \in Steps
BY DEF Inv, TypeOK, JobsOK, JobRecord

(* Writing other fields of its own row leaves a job a job. *)
LEMMA JobRewritten ==
    ASSUME NEW d \in JobRecord, NEW step \in Steps, NEW n \in References, NEW sum \in Nat,
           NEW seen \in Nat, NEW flag \in BOOLEAN
    PROVE  [op |-> d.op, step |-> step, i |-> d.i, n |-> n, sum |-> sum, seen |-> seen,
            flag |-> flag] \in JobRecord
BY DEF JobRecord

LEMMA ReadOrderSafe ==
    ASSUME Inv, NEW j \in Jobs, ReadOrder(j) PROVE Inv' /\ Grows
<1> DEFINE f == [i \in Intents |-> intent[i].paid]
           c == [job[j] EXCEPT !.step = "write order", !.sum = SumFunction(f)]
<1>1. SumFunction(f) \in Nat
  <2>1. \A i \in Intents : f[i] \in Nat
    BY DEF Inv, TypeOK, IntentRecord
  <2>2. SumFunction(f) = SumFunctionOnSet(f, Intents)
    BY DEF SumFunction
  <2> HIDE DEF f
  <2> QED
    BY <2>1, <2>2, ChargesAreFinite, SumNat
<1>2. job' = [job EXCEPT ![j] = c] /\ job[j].step = "order"
  BY DEF ReadOrder, At, Inv, TypeOK
<1>3. EventMoves /\ UNCHANGED <<intent, charge, wallet, booked, fannedOut>>
  BY DEF ReadOrder, EventMoves
<1> HIDE DEF f
<1>4. /\ c.op = job[j].op /\ c.i = job[j].i /\ c.n = job[j].n /\ c.flag = job[j].flag
      /\ c.step = "write order"
  BY JobIsRecord DEF JobRecord
<1>5. "write order" \in Steps
  BY JobStrings
<1>6. c \in JobRecord
  BY <1>1, <1>5, JobIsRecord DEF JobRecord
<1> HIDE DEF c
<1> QED
  BY <1>2, <1>3, <1>4, <1>6, JobGoesOn DEF CheckoutSteps, OrderSteps

(* The steps that only write the order's row, or pass it over. *)
LEMMA OrderStepSafe ==
    ASSUME Inv, NEW j \in Jobs, WriteOrder(j) \/ ReleaseOrder(j) \/ OrderFails(j)
    PROVE  Inv' /\ Grows
<1>1. PICK step \in {"release", "fan out"} : job' = [job EXCEPT ![j].step = step]
  BY DEF WriteOrder, ReleaseOrder, OrderFails, Goto
<1>2. job[j].step \in {"order", "write order", "release"}
  BY DEF WriteOrder, ReleaseOrder, OrderFails, At
<1>3. EventMoves /\ UNCHANGED <<intent, charge, wallet, booked, fannedOut>>
  BY DEF WriteOrder, ReleaseOrder, OrderFails, EventMoves
<1> DEFINE c == [job[j] EXCEPT !.step = step]
<1>4. /\ c.op = job[j].op /\ c.i = job[j].i /\ c.n = job[j].n /\ c.flag = job[j].flag
      /\ c.step = step
  BY JobIsRecord DEF JobRecord
<1>5. step \in Steps
  BY JobStrings
<1>6. c \in JobRecord
  BY <1>5, JobIsRecord DEF JobRecord
<1>7. job' = [job EXCEPT ![j] = c]
  BY <1>1 DEF Inv, TypeOK
<1> HIDE DEF c
<1> QED
  BY <1>2, <1>3, <1>4, <1>6, <1>7, JobGoesOn DEF CheckoutSteps, OrderSteps

LEMMA ChooseReferenceSafe ==
    ASSUME Inv, NEW j \in Jobs, ChooseReference(j) PROVE Inv' /\ Grows
<1>1. job[j].step = "reference"
  BY DEF ChooseReference, At
<1>2. EventMoves /\ UNCHANGED <<intent, charge, wallet, booked, fannedOut>>
  BY DEF ChooseReference, EventMoves
<1>3. CASE End(j)
  <2>1. job' = [job EXCEPT ![j] = Idle]
    BY <1>3 DEF End
  <2> QED
    BY <1>2, <2>1, IdleIsFine, JobOnly
<1>4. CASE ~ End(j)
  <2>1. job[j].i \in Intents
    BY <1>1, JobIsRecord DEF JobFine
  <2>2. intent[job[j].i].session \in References
    BY <2>1 DEF Inv, TypeOK, IntentRecord
  <2>3. PICK n \in References, step \in {"initialize", "remember"} :
          job' = [job EXCEPT ![j].n = n, ![j].step = step]
    BY <1>4, <2>2, ConstantsFit DEF ChooseReference
  <2> DEFINE c == [job[j] EXCEPT !.n = n, !.step = step]
  <2>4. step \in Steps
    BY JobStrings
  <2>5. /\ c.op = job[j].op /\ c.i = job[j].i /\ c.flag = job[j].flag
        /\ c.step = step /\ c \in JobRecord
    BY <2>4, JobIsRecord DEF JobRecord
  <2>6. job' = [job EXCEPT ![j] = c]
    BY <2>3 DEF Inv, TypeOK
  <2>7. job[j].op # "webhook"
    BY <1>1, JobIsRecord DEF JobFine, CheckoutSteps
  <2> HIDE DEF c
  <2> QED
    BY <1>1, <1>2, <2>5, <2>6, <2>7, JobGoesOn DEF CheckoutSteps, OrderSteps
<1> QED
  BY <1>3, <1>4

(* A webhook's job still holds a charge that was taken. *)
LEMMA WebhookCharge ==
    ASSUME Inv, NEW j \in Jobs, job[j].op = "webhook"
    PROVE  /\ <<job[j].i, job[j].n>> \in Charges
           /\ charge[<<job[j].i, job[j].n>>].state = "taken"
           /\ job[j].i \in Intents /\ Exists(job[j].i)
<1>1. /\ job[j].i \in Intents /\ job[j].n \in 1 .. MaxSessions
      /\ charge[<<job[j].i, job[j].n>>].state = "taken"
  BY JobIsRecord DEF JobFine
<1>2. <<job[j].i, job[j].n>> \in Charges
  BY <1>1 DEF Charges
<1> QED
  BY <1>1, <1>2 DEF Inv, ChargesOK

LEMMA ReturnIsFine ==
    ASSUME Inv, NEW j \in Jobs, Return(j)
    PROVE  \E c \in JobRecord : /\ job' = [job EXCEPT ![j] = c]
                                /\ JobFine(c) /\ (c.op = "raise" => job[j].op = "raise")
<1>1. CASE job[j].op # "webhook"
  BY <1>1, IdleIsFine DEF Return, End
<1>2. CASE job[j].op = "webhook"
  <2> DEFINE c == [job[j] EXCEPT !.step = "processed", !.sum = 0, !.flag = FALSE]
  <2>1. job' = [job EXCEPT ![j] = c]
    BY <1>2 DEF Return, Inv, TypeOK
  <2>2. "processed" \in Steps
    BY JobStrings
  <2>3. c \in JobRecord /\ c.op = job[j].op /\ c.i = job[j].i /\ c.n = job[j].n
        /\ c.step = "processed"
    BY <2>2, JobIsRecord DEF JobRecord
  <2>4. JobFine(c)
    <3>1. /\ c.i \in Intents /\ c.n \in 1 .. MaxSessions
          /\ charge[<<c.i, c.n>>].state = "taken" /\ Exists(c.i)
      <4> HIDE DEF c
      <4> QED
        BY <1>2, <2>3, JobIsRecord, WebhookCharge DEF JobFine
    <3> QED
      BY <1>2, <2>3, <3>1 DEF JobFine, CheckoutSteps, OrderSteps
  <2> QED
    BY <2>1, <2>3, <2>4
<1> QED
  BY <1>1, <1>2

LEMMA FindIntentSafe ==
    ASSUME Inv, NEW j \in Jobs, FindIntent(j) PROVE Inv' /\ Grows
<1> DEFINE c == <<job[j].i, job[j].n>>
<1>1. job[j].step = "find" /\ UNCHANGED <<intent, charge, wallet, booked, fannedOut>>
  BY DEF FindIntent, At
<1>2. job[j].i \in Intents /\ Exists(job[j].i) /\ IsCharge(job[j].i, job[j].n, job[j].sum)
  BY <1>1, JobIsRecord DEF JobFine
<1>3. c \in Charges /\ charge[c].state = "taken"
  BY <1>2 DEF Charges, IsCharge
<1>4. EventMoves
  <2>1. [event[c] EXCEPT !.status = "IGNORED"] \in EventRecord
    BY <1>3 DEF Inv, EventsOK, EventRecord
  <2>2. [status |-> "FAILED", tries |-> event[c].tries + 1] \in EventRecord
    BY <1>3 DEF Inv, EventsOK, EventRecord
  <2>3. \/ event' = event
        \/ event' = [event EXCEPT ![c] = [event[c] EXCEPT !.status = "IGNORED"]]
        \/ event' = [event EXCEPT ![c] = [status |-> "FAILED", tries |-> event[c].tries + 1]]
    BY <1>3 DEF FindIntent, Inv, EventsOK
  <2> HIDE DEF c
  <2> QED
    BY <1>3, <2>1, <2>2, <2>3 DEF EventMoves
<1>5. CASE End(j)
  <2>1. job' = [job EXCEPT ![j] = Idle]
    BY <1>5 DEF End
  <2> QED
    BY <1>1, <1>4, <2>1, IdleIsFine, JobOnly
<1>6. CASE Goto(j, "apply")
  <2> DEFINE e == [job[j] EXCEPT !.step = "apply"]
  <2>1. job' = [job EXCEPT ![j] = e]
    BY <1>6 DEF Goto, Inv, TypeOK
  <2>2. "apply" \in Steps
    BY JobStrings
  <2>3. /\ e \in JobRecord /\ e.op = job[j].op /\ e.i = job[j].i /\ e.n = job[j].n
        /\ e.sum = job[j].sum /\ e.step = "apply"
    BY <2>2, JobIsRecord DEF JobRecord
  <2> HIDE DEF e
  <2>4. e.n # Wallet /\ e.n \in 1 .. MaxSessions /\ charge[<<e.i, e.n>>].state = "taken"
    BY <1>2, <2>3, InRange DEF IsCharge
  <2>5. JobFine(e)
    BY <1>2, <2>3, <2>4 DEF JobFine, CheckoutSteps, OrderSteps
  <2> QED
    BY <1>1, <1>4, <2>1, <2>3, <2>5, JobOnly
<1> QED
  BY <1>5, <1>6 DEF FindIntent

LEMMA MarkProcessedSafe ==
    ASSUME Inv, NEW j \in Jobs, MarkProcessed(j) PROVE Inv' /\ Grows
<1> DEFINE c == <<job[j].i, job[j].n>>
           e == [event[c] EXCEPT !.status = "PROCESSED"]
<1>1. c \in Charges /\ charge[c].state = "taken"
  BY JobIsRecord, WebhookCharge DEF JobFine, MarkProcessed, At
<1>2. event' = [event EXCEPT ![c] = e] /\ e \in EventRecord
  BY <1>1 DEF MarkProcessed, Inv, EventsOK, EventRecord
<1>3. UNCHANGED <<intent, charge, wallet, booked, fannedOut>> /\ job' = [job EXCEPT ![j] = Idle]
  BY DEF MarkProcessed, End
<1> HIDE DEF c, e
<1>4. EventMoves
  BY <1>1, <1>2 DEF EventMoves
<1> QED
  BY <1>3, <1>4, IdleIsFine, JobOnly

----------------------------------------------------------------------------
(* Raising an intent. *)

LEMMA GreatestIsIn ==
    ASSUME NEW S \in SUBSET Intents, S # {}
    PROVE  Max(S) \in S
<1> DEFINE T == {n \in Nat : \E x \in S : n = MaxIntents - x}
<1>1. T \subseteq Nat /\ T # {}
  <2>1. PICK x \in S : TRUE
    OBVIOUS
  <2>2. MaxIntents - x \in Nat
    BY IntentAssumption DEF Intents
  <2> QED
    BY <2>1, <2>2
<1>2. PICK n \in T : \A m \in T : n <= m
  <2> HIDE DEF T
  <2> QED
    BY <1>1, LeastNatural
<1>3. PICK x \in S : n = MaxIntents - x
  BY <1>2
<1>4. ASSUME NEW y \in S PROVE y <= x
  <2>1. MaxIntents - y \in T
    BY IntentAssumption DEF Intents
  <2>2. n <= MaxIntents - y
    BY <1>2, <2>1
  <2> QED
    BY <1>3, <2>2, IntentAssumption DEF Intents
<1> QED
  BY <1>4 DEF Max

LEMMA LeastIsIn ==
    ASSUME NEW S \in SUBSET Intents, S # {}
    PROVE  Min(S) \in S
<1>1. S \subseteq Nat
  BY IntentAssumption DEF Intents
<1> QED
  BY <1>1, LeastNatural DEF Min

LEMMA CountsAreNat ==
    /\ IsFiniteSet(Free) /\ Cardinality(Free) \in Nat
    /\ IsFiniteSet(Raising) /\ Cardinality(Raising) \in Nat
<1>1. IsFiniteSet(Raising)
  BY IntentAssumption, FS_Subset DEF Raising
<1>2. IsFiniteSet(Free)
  BY ChargesAreFinite, FS_Subset DEF Free
<1> QED
  BY <1>1, <1>2, FS_CardinalityType

LEMMA OneMore ==
    ASSUME NEW S, IsFiniteSet(S), NEW x
    PROVE  \A n \in Nat : n > Cardinality(S) => n >= Cardinality(S \cup {x})
<1>1. IsFiniteSet(S \cup {x}) /\ Cardinality(S) \in Nat
  BY FS_AddElement, FS_CardinalityType
<1>2. Cardinality(S \cup {x}) = IF x \in S THEN Cardinality(S) ELSE Cardinality(S) + 1
  BY FS_AddElement
<1> QED
  BY <1>1, <1>2

LEMMA RaiseSafe ==
    ASSUME Inv, NEW j \in Jobs, NEW amount \in Asks, Raise(j, amount) PROVE Inv' /\ Grows
<1> DEFINE open == {i \in Intents : intent[i].status \in Reusable}
           newest == Max(open)
<1>1. PICK step \in {"create", "stand down"}, i \in Numbers :
        /\ Start(j, "raise", step, i, 0, amount)
        /\ step = "stand down" => i \in Intents /\ Exists(i)
  <2>1. CASE Start(j, "raise", "create", 0, 0, amount)
    BY <2>1, ConstantsFit
  <2>2. CASE ~ Start(j, "raise", "create", 0, 0, amount)
    <3>1. open # {} /\ Start(j, "raise", "stand down", newest, 0, amount)
      BY <2>2 DEF Raise
    <3>2. open \in SUBSET Intents
      OBVIOUS
    <3>3. newest \in open
      <4> HIDE DEF open
      <4> QED
        BY <3>1, <3>2, GreatestIsIn
    <3>4. newest \in Intents /\ Exists(newest)
      BY <3>3 DEF Reusable, Exists
    <3> QED
      BY <3>1, <3>4, InRange
  <2> QED
    BY <2>1, <2>2
<1> DEFINE c == [op |-> "raise", step |-> step, i |-> i, n |-> 0, sum |-> amount, seen |-> 0,
                 flag |-> FALSE]
<1>2. job[j] = Idle /\ job' = [job EXCEPT ![j] = c]
  BY <1>1 DEF Start
<1>3. c \in JobRecord
  <2>1. "raise" \in JobOps /\ step \in Steps /\ amount \in Nat /\ 0 \in References
    BY JobStrings, ConstantsFit
  <2> QED
    BY <2>1 DEF JobRecord
<1>4. JobFine(c)
  BY <1>1 DEF JobFine, CheckoutSteps, OrderSteps
<1>5. UNCHANGED <<intent, charge, wallet, booked, event, fannedOut>>
  BY DEF Raise
<1> HIDE DEF c
<1>6. TypeOK' /\ ChargesOK' /\ Grows /\ EventMoves
  <2>1. TypeOK'
    BY <1>2, <1>3, <1>5 DEF Inv, TypeOK
  <2>2. ChargesOK' /\ EventMoves
    BY <1>5 DEF Inv, ChargesOK, Exists, EventMoves
  <2>3. Grows
    BY <1>5, SameRowsGrow DEF Inv
  <2> QED
    BY <2>1, <2>2, <2>3
<1>7. JobFine(c)'
  BY <1>3, <1>4, <1>6, FineStays DEF Inv
<1>8. BooksOK' /\ EventsOK' /\ WalletOK' /\ FanOutOK' /\ JobsOK'
  <2>1. \A k \in Intents : intent'[k].paid = intent[k].paid
    BY <1>5
  <2> QED
    BY <1>2, <1>3, <1>5, <1>6, <1>7, <2>1, BooksStay, EventsStay, CoveredIntentsStay, JobsStep
       DEF Inv
<1>9. RaisesOK'
  <2>1. Free' = Free
    BY <1>5 DEF Free, Exists
  <2>2. Raising' = Raising \cup {j}
    <3>1. c.op = "raise"
      BY DEF c
    <3> QED
      BY <1>2, <3>1 DEF Raising, Inv, TypeOK
  <2>3. Cardinality(Free) > Cardinality(Raising)
    BY DEF Raise, Free, Raising
  <2>4. Cardinality(Free) >= Cardinality(Raising \cup {j})
    BY <2>3, CountsAreNat, OneMore
  <2> QED
    BY <2>1, <2>2, <2>4 DEF RaisesOK
<1> QED
  BY <1>6, <1>8, <1>9 DEF Inv

----------------------------------------------------------------------------
(* Writing the row of an intent. *)

(* A step no job of its own takes. *)
LEMMA PlainStepNoJob ==
    ASSUME Inv, TypeOK', ChargesOK', Grows, EventMoves, job' = job,
           \A i \in Intents : intent'[i].paid = intent[i].paid /\ (Exists(i)' <=> Exists(i)),
           booked' = booked, wallet' = wallet, fannedOut' = fannedOut
    PROVE  Inv'
<1>1. BooksOK'
  BY BooksStay DEF Inv
<1>2. WalletOK' /\ FanOutOK' /\ EventsOK'
  BY CoveredIntentsStay, EventsStay DEF Inv
<1>3. JobsOK'
  <2> SUFFICES ASSUME NEW k \in Jobs PROVE JobFine(job[k])'
    BY DEF JobsOK
  <2>1. PICK d \in JobRecord : d = job[k]
    BY DEF Inv, TypeOK
  <2>2. JobFine(d)'
    BY <2>1, FineStays DEF Inv, JobsOK
  <2> QED
    BY <2>1, <2>2 DEF JobFine, IsCharge, Covered, Taken, Exists
<1>4. RaisesOK'
  <2>1. Free' = Free /\ Raising' = Raising
    BY DEF Free, Raising, Intents
  <2> QED
    BY <2>1 DEF RaisesOK, Inv
<1> QED
  BY <1>1, <1>2, <1>3, <1>4 DEF Inv

(* The row of an intent that exists is written, its amounts are not; a     *)
(* charge may be offered or taken, but not opened.                         *)
LEMMA RowWritten ==
    ASSUME Inv, NEW i \in Intents, Exists(i),
           NEW r \in IntentRecord, intent' = [intent EXCEPT ![i] = r],
           r.status # "ABSENT", r.amount = intent[i].amount, r.paid = intent[i].paid,
           charge' \in [Charges -> ChargeRecord], ChargesStay,
           \A c \in Charges : charge'[c].state # "none" => charge[c].state # "none",
           UNCHANGED <<wallet, booked, fannedOut>>, job' \in [Jobs -> JobRecord]
    PROVE  /\ Grows /\ TypeOK' /\ ChargesOK'
           /\ \A k \in Intents : intent'[k].paid = intent[k].paid /\ (Exists(k)' <=> Exists(k))
<1>1. intent' \in [Intents -> IntentRecord]
  BY DEF Inv, TypeOK
<1>2. \A k \in Intents : /\ intent'[k].paid = intent[k].paid /\ (Exists(k)' <=> Exists(k))
                         /\ intent'[k].amount = intent[k].amount
  BY DEF Inv, TypeOK, Exists
<1>3. TypeOK'
  BY <1>1 DEF Inv, TypeOK
<1>4. Grows
  BY <1>2 DEF Grows, Inv, TypeOK
<1>5. ChargesOK'
  <2>1. \A c \in Charges : c[1] \in Intents
    BY DEF Charges
  <2> QED
    BY <1>2, <2>1 DEF ChargesOK, Inv, Exists
<1> QED
  BY <1>2, <1>3, <1>4, <1>5

(* A job writes the row of its intent and goes on. *)
LEMMA RowStep ==
    ASSUME Inv, NEW i \in Intents, Exists(i),
           NEW r \in IntentRecord, intent' = [intent EXCEPT ![i] = r],
           r.status # "ABSENT", r.amount = intent[i].amount, r.paid = intent[i].paid,
           charge' \in [Charges -> ChargeRecord], ChargesStay,
           \A c \in Charges : charge'[c].state # "none" => charge[c].state # "none",
           UNCHANGED <<wallet, booked, event, fannedOut>>,
           NEW j \in Jobs, NEW d \in JobRecord, job' = [job EXCEPT ![j] = d],
           JobFine(d), d.op = "raise" => job[j].op = "raise"
    PROVE  Inv' /\ Grows
<1>1. job' \in [Jobs -> JobRecord]
  BY DEF Inv, TypeOK
<1>2. /\ Grows /\ TypeOK' /\ ChargesOK'
      /\ \A k \in Intents : intent'[k].paid = intent[k].paid /\ (Exists(k)' <=> Exists(k))
  BY <1>1, RowWritten
<1>3. JobFine(d)'
  BY <1>2, FineStays DEF Inv
<1>4. EventMoves
  BY DEF EventMoves
<1> QED
  BY <1>2, <1>3, <1>4, PlainStep

LEMMA ChargesUnchanged ==
    ASSUME Inv, charge' = charge
    PROVE  /\ charge' \in [Charges -> ChargeRecord] /\ ChargesStay
           /\ \A c \in Charges : charge'[c].state # "none" => charge[c].state # "none"
BY DEF Inv, TypeOK, ChargesStay

LEMMA StandDownSafe ==
    ASSUME Inv, NEW j \in Jobs, StandDown(j) PROVE Inv' /\ Grows
<1> DEFINE i == job[j].i
           r == [intent[i] EXCEPT !.status = "EXPIRED"]
           d == [job[j] EXCEPT !.step = "create"]
<1>1. i \in Intents /\ Exists(i) /\ job[j].op = "raise"
  BY JobIsRecord DEF StandDown, At, JobFine
<1>2. /\ r \in IntentRecord /\ r.status # "ABSENT" /\ r.amount = intent[i].amount
      /\ r.paid = intent[i].paid
  BY <1>1 DEF Inv, TypeOK, IntentRecord, Statuses
<1>3. intent' = [intent EXCEPT ![i] = r] /\ UNCHANGED <<charge, wallet, booked, event, fannedOut>>
  BY <1>1 DEF StandDown, Inv, TypeOK
<1>4. job' = [job EXCEPT ![j] = d]
  BY DEF StandDown, Goto, Inv, TypeOK
<1>5. "create" \in Steps
  BY JobStrings
<1>6. d \in JobRecord /\ d.op = job[j].op /\ d.step = "create"
  BY <1>5, JobIsRecord DEF JobRecord
<1> HIDE DEF d, r, i
<1>7. JobFine(d)
  BY <1>1, <1>6 DEF JobFine, CheckoutSteps, OrderSteps
<1> QED
  BY <1>1, <1>2, <1>3, <1>4, <1>6, <1>7, ChargesUnchanged, RowStep

LEMMA RememberEmailSafe ==
    ASSUME Inv, NEW j \in Jobs, RememberEmail(j) PROVE Inv' /\ Grows
<1> DEFINE i == job[j].i
           r == [intent[i] EXCEPT !.session = job[j].n, !.asked = job[j].seen]
           d == [job[j] EXCEPT !.step = "reference", !.n = 0, !.seen = 0]
<1>1. i \in Intents /\ Exists(i) /\ job[j].op # "webhook"
  BY JobIsRecord DEF RememberEmail, At, JobFine, CheckoutSteps
<1>2. /\ r \in IntentRecord /\ r.status # "ABSENT" /\ r.amount = intent[i].amount
      /\ r.paid = intent[i].paid
  BY <1>1, JobIsRecord DEF Inv, TypeOK, IntentRecord, Exists
<1>3. intent' = [intent EXCEPT ![i] = r] /\ UNCHANGED <<charge, wallet, booked, event, fannedOut>>
  BY <1>1 DEF RememberEmail, Inv, TypeOK
<1>4. job' = [job EXCEPT ![j] = d]
  BY DEF RememberEmail, Inv, TypeOK
<1>5. "reference" \in Steps /\ 0 \in References
  BY JobStrings, ConstantsFit
<1>6. d \in JobRecord /\ d.op = job[j].op /\ d.i = i /\ d.step = "reference"
  BY <1>5, JobIsRecord DEF JobRecord
<1> HIDE DEF d, r, i
<1>7. JobFine(d)
  BY <1>1, <1>6 DEF JobFine, CheckoutSteps, OrderSteps
<1> QED
  BY <1>1, <1>2, <1>3, <1>4, <1>6, <1>7, ChargesUnchanged, RowStep

LEMMA RememberSessionSafe ==
    ASSUME Inv, NEW j \in Jobs, RememberSession(j) PROVE Inv' /\ Grows
<1> DEFINE i == job[j].i
           r == [intent[i] EXCEPT !.session = job[j].n, !.asked = job[j].sum]
           d == [job[j] EXCEPT !.step = "initialize"]
<1>1. i \in Intents /\ Exists(i) /\ job[j].op # "webhook"
  BY JobIsRecord DEF RememberSession, At, JobFine, CheckoutSteps
<1>2. /\ r \in IntentRecord /\ r.status # "ABSENT" /\ r.amount = intent[i].amount
      /\ r.paid = intent[i].paid
  BY <1>1, JobIsRecord DEF Inv, TypeOK, IntentRecord, Exists
<1>3. intent' = [intent EXCEPT ![i] = r] /\ UNCHANGED <<charge, wallet, booked, event, fannedOut>>
  BY <1>1 DEF RememberSession, Inv, TypeOK
<1>4. job' = [job EXCEPT ![j] = d]
  BY DEF RememberSession, Goto, Inv, TypeOK
<1>5. "initialize" \in Steps
  BY JobStrings
<1>6. d \in JobRecord /\ d.op = job[j].op /\ d.i = i /\ d.step = "initialize"
  BY <1>5, JobIsRecord DEF JobRecord
<1> HIDE DEF d, r, i
<1>7. JobFine(d)
  BY <1>1, <1>6 DEF JobFine, CheckoutSteps, OrderSteps
<1> QED
  BY <1>1, <1>2, <1>3, <1>4, <1>6, <1>7, ChargesUnchanged, RowStep

LEMMA WriteCancelledSafe ==
    ASSUME Inv, NEW j \in Jobs, WriteCancelled(j) PROVE Inv' /\ Grows
<1> DEFINE i == job[j].i
           r == [intent[i] EXCEPT !.status = "CANCELLED"]
<1>1. i \in Intents /\ Exists(i)
  BY JobIsRecord DEF WriteCancelled, At, JobFine
<1>2. /\ r \in IntentRecord /\ r.status # "ABSENT" /\ r.amount = intent[i].amount
      /\ r.paid = intent[i].paid
  BY <1>1 DEF Inv, TypeOK, IntentRecord, Statuses
<1>3. intent' = [intent EXCEPT ![i] = r] /\ UNCHANGED <<charge, wallet, booked, event, fannedOut>>
  BY <1>1 DEF WriteCancelled, Inv, TypeOK
<1>4. job' = [job EXCEPT ![j] = Idle]
  BY DEF WriteCancelled, End
<1> HIDE DEF r, i
<1> QED
  BY <1>1, <1>2, <1>3, <1>4, IdleIsFine, ChargesUnchanged, RowStep

LEMMA HandOverSafe ==
    ASSUME Inv, NEW j \in Jobs, HandOver(j) PROVE Inv' /\ Grows
<1> DEFINE i == job[j].i
           r == [intent[i] EXCEPT !.status = "PROCESSING", !.engaged = TRUE]
           c == <<job[j].i, job[j].n>>
<1>1. i \in Intents /\ Exists(i)
  BY JobIsRecord DEF HandOver, At, JobFine
<1>2. /\ r \in IntentRecord /\ r.status # "ABSENT" /\ r.amount = intent[i].amount
      /\ r.paid = intent[i].paid
  BY <1>1 DEF Inv, TypeOK, IntentRecord, Statuses
<1>3. intent' = [intent EXCEPT ![i] = r] /\ UNCHANGED <<wallet, booked, event, fannedOut>>
  BY <1>1 DEF HandOver, Inv, TypeOK
<1>4. job' = [job EXCEPT ![j] = Idle]
  BY DEF HandOver, End
<1>5. /\ charge' \in [Charges -> ChargeRecord] /\ ChargesStay
      /\ \A b \in Charges : charge'[b].state # "none" => charge[b].state # "none"
  <2>1. CASE charge' = charge
    BY <2>1, ChargesUnchanged
  <2>2. CASE charge[c].state = "open" /\ charge' = [charge EXCEPT ![c].state = "offered"]
    BY <2>2 DEF Inv, TypeOK, ChargeRecord, ChargesStay
  <2> QED
    BY <2>1, <2>2 DEF HandOver
<1> HIDE DEF r, i, c
<1> QED
  BY <1>1, <1>2, <1>3, <1>4, <1>5, IdleIsFine, RowStep

LEMMA FallDueSafe ==
    ASSUME Inv, NEW i \in Intents, FallDue(i) PROVE Inv' /\ Grows
<1> DEFINE r == [intent[i] EXCEPT !.due = TRUE]
<1>1. Exists(i)
  BY DEF FallDue, Reusable, Exists
<1>2. /\ r \in IntentRecord /\ r.status # "ABSENT" /\ r.amount = intent[i].amount
      /\ r.paid = intent[i].paid
  BY <1>1 DEF Inv, TypeOK, IntentRecord, Exists
<1>3. /\ intent' = [intent EXCEPT ![i] = r]
      /\ UNCHANGED <<charge, wallet, booked, event, fannedOut, job>>
  BY DEF FallDue, Inv, TypeOK
<1>4. job' \in [Jobs -> JobRecord] /\ EventMoves
  BY <1>3 DEF Inv, TypeOK, EventMoves
<1> HIDE DEF r
<1>5. /\ Grows /\ TypeOK' /\ ChargesOK'
      /\ \A k \in Intents : intent'[k].paid = intent[k].paid /\ (Exists(k)' <=> Exists(k))
  BY <1>1, <1>2, <1>3, <1>4, ChargesUnchanged, RowWritten
<1> QED
  BY <1>3, <1>4, <1>5, PlainStepNoJob

LEMMA ExpireOverdueSafe ==
    ASSUME Inv, NEW i \in Intents, ExpireOverdue(i) PROVE Inv' /\ Grows
<1> DEFINE r == [intent[i] EXCEPT !.status = "EXPIRED"]
<1>1. Exists(i)
  BY DEF ExpireOverdue, Exists
<1>2. /\ r \in IntentRecord /\ r.status # "ABSENT" /\ r.amount = intent[i].amount
      /\ r.paid = intent[i].paid
  BY <1>1 DEF Inv, TypeOK, IntentRecord, Statuses
<1>3. /\ intent' = [intent EXCEPT ![i] = r]
      /\ UNCHANGED <<charge, wallet, booked, event, fannedOut, job>>
  BY DEF ExpireOverdue, Inv, TypeOK
<1>4. job' \in [Jobs -> JobRecord] /\ EventMoves
  BY <1>3 DEF Inv, TypeOK, EventMoves
<1> HIDE DEF r
<1>5. /\ Grows /\ TypeOK' /\ ChargesOK'
      /\ \A k \in Intents : intent'[k].paid = intent[k].paid /\ (Exists(k)' <=> Exists(k))
  BY <1>1, <1>2, <1>3, <1>4, ChargesUnchanged, RowWritten
<1> QED
  BY <1>3, <1>4, <1>5, PlainStepNoJob

(* The customer pays: an offered charge is taken. *)
LEMMA CustomerPaysSafe ==
    ASSUME Inv, NEW c \in Charges, CustomerPays(c) PROVE Inv' /\ Grows
<1>1. charge[c].state = "offered" /\ charge' = [charge EXCEPT ![c].state = "taken"]
  BY DEF CustomerPays
<1>2. UNCHANGED <<intent, wallet, booked, event, fannedOut, job>>
  BY DEF CustomerPays
<1>3. /\ charge' \in [Charges -> ChargeRecord] /\ ChargesStay
      /\ \A b \in Charges : charge'[b].state # "none" => charge[b].state # "none"
  BY <1>1 DEF Inv, TypeOK, ChargeRecord, ChargesStay
<1>4. TypeOK' /\ ChargesOK' /\ EventMoves
  BY <1>2, <1>3 DEF Inv, TypeOK, ChargesOK, Exists, EventMoves
<1>5. Grows
  BY <1>2, <1>3 DEF Grows, Inv, TypeOK, Exists
<1>6. \A i \in Intents : intent'[i].paid = intent[i].paid /\ (Exists(i)' <=> Exists(i))
  BY <1>2 DEF Exists
<1> QED
  BY <1>2, <1>4, <1>5, <1>6, PlainStepNoJob

(* The gateway opens a session for an intent that was raised. *)
LEMMA InitializeSafe ==
    ASSUME Inv, NEW j \in Jobs, Initialize(j) PROVE Inv' /\ Grows
<1> DEFINE c == <<job[j].i, job[j].n>>
           d == [job[j] EXCEPT !.step = "hand over"]
<1>1. /\ job[j].i \in Intents /\ Exists(job[j].i) /\ job[j].op # "webhook"
      /\ job[j].sum \in Nat
  BY JobIsRecord DEF Initialize, At, JobFine, CheckoutSteps
<1>2. UNCHANGED <<intent, wallet, booked, event, fannedOut>>
  BY DEF Initialize
<1>3. /\ charge' \in [Charges -> ChargeRecord] /\ ChargesStay /\ ChargesOK'
  <2>1. CASE charge' = charge
    BY <1>2, <2>1, ChargesUnchanged DEF Inv, ChargesOK, Exists
  <2>2. CASE charge[c].state = "none"
             /\ charge' = [charge EXCEPT ![c] = [state |-> "open", amount |-> job[j].sum]]
    <3>1. charge' \in [Charges -> ChargeRecord] /\ ChargesStay
      BY <1>1, <2>2 DEF Inv, TypeOK, ChargeRecord, ChargesStay
    <3>2. \A b \in Charges : charge'[b].state # "none" => Exists(b[1])
      BY <1>1, <2>2 DEF Inv, TypeOK, ChargesOK
    <3> QED
      BY <1>2, <3>1, <3>2 DEF ChargesOK, Exists
  <2> QED
    BY <2>1, <2>2 DEF Initialize
<1>4. "hand over" \in Steps
  BY JobStrings
<1>5. d \in JobRecord /\ d.op = job[j].op /\ d.i = job[j].i /\ d.step = "hand over"
  BY <1>4, JobIsRecord DEF JobRecord
<1>6. PICK e \in JobRecord : /\ job' = [job EXCEPT ![j] = e] /\ JobFine(e)
                             /\ e.op = "raise" => job[j].op = "raise"
  <2>1. CASE Goto(j, "hand over")
    <3>1. job' = [job EXCEPT ![j] = d]
      BY <2>1 DEF Goto, Inv, TypeOK
    <3> HIDE DEF d
    <3>2. JobFine(d)
      BY <1>1, <1>5 DEF JobFine, CheckoutSteps, OrderSteps
    <3> QED
      BY <1>5, <3>1, <3>2
  <2>2. CASE End(j)
    BY <2>2, IdleIsFine DEF End
  <2> QED
    BY <2>1, <2>2 DEF Initialize
<1> HIDE DEF c, d
<1>7. TypeOK'
  BY <1>2, <1>3, <1>6 DEF Inv, TypeOK
<1>8. Grows
  BY <1>2, <1>3 DEF Grows, Inv, TypeOK, Exists
<1>9. JobFine(e)' /\ EventMoves
  BY <1>2, <1>6, <1>7, <1>8, FineStays DEF Inv, EventMoves
<1>10. \A i \in Intents : intent'[i].paid = intent[i].paid /\ (Exists(i)' <=> Exists(i))
  BY <1>2 DEF Exists
<1> QED
  BY <1>2, <1>3, <1>6, <1>7, <1>8, <1>9, <1>10, PlainStep

(* The intent is inserted in a row that was free. *)
LEMMA CreateIntentSafe ==
    ASSUME Inv, NEW j \in Jobs, CreateIntent(j) PROVE Inv' /\ Grows
<1> DEFINE f == Min(Free)
           r == [intent[f] EXCEPT !.status = "AWAITING_PAYMENT", !.amount = job[j].sum]
<1>1. job[j].op = "raise" /\ job[j].sum \in Nat
  BY JobIsRecord DEF CreateIntent, At, JobFine
<1>2. j \in Raising
  BY <1>1 DEF Raising
<1>3. Free # {}
  <2>1. Cardinality(Raising) # 0
    BY <1>2, CountsAreNat, FS_EmptySet
  <2>2. Cardinality(Free) # 0
    BY <2>1, CountsAreNat DEF Inv, RaisesOK
  <2> QED
    BY <2>2, FS_EmptySet
<1>4. f \in Intents /\ ~ Exists(f)
  <2>1. Free \in SUBSET Intents
    BY DEF Free
  <2>2. f \in Free
    BY <1>3, <2>1, LeastIsIn
  <2> QED
    BY <2>2 DEF Free
<1>5. intent' = [intent EXCEPT ![f].status = "AWAITING_PAYMENT", ![f].amount = job[j].sum]
  BY DEF CreateIntent, Free
<1>6. UNCHANGED <<charge, wallet, booked, event, fannedOut>> /\ job' = [job EXCEPT ![j] = Idle]
  BY DEF CreateIntent, End
<1> HIDE DEF f
<1>7. r \in IntentRecord /\ r.status # "ABSENT" /\ r.paid = intent[f].paid
  BY <1>1, <1>4 DEF Inv, TypeOK, IntentRecord, Statuses
<1>8. intent' = [intent EXCEPT ![f] = r]
  BY <1>4, <1>5 DEF Inv, TypeOK
<1> HIDE DEF r
<1>9. TypeOK' /\ EventMoves
  BY <1>6, <1>7, <1>8, IdleIsFine DEF Inv, TypeOK, EventMoves
<1>10. \A i \in Intents : intent'[i].paid = intent[i].paid /\ (i # f => intent'[i] = intent[i])
  BY <1>7, <1>8 DEF Inv, TypeOK
<1>11. Grows
  BY <1>4, <1>6, <1>10 DEF Grows, ChargesStay, Inv, TypeOK, Exists
<1>12. ChargesOK'
  <2>1. \A c \in Charges : c[1] \in Intents
    BY DEF Charges
  <2>2. \A i \in Intents : Exists(i) => Exists(i)'
    BY <1>11 DEF Grows
  <2> QED
    BY <1>6, <2>1, <2>2 DEF Inv, ChargesOK, Exists
<1>13. BooksOK' /\ EventsOK' /\ WalletOK' /\ FanOutOK' /\ JobsOK'
  <2>1. \A k \in Intents : intent'[k].paid = intent[k].paid
    BY <1>10
  <2> QED
    BY <1>6, <1>9, <1>11, <2>1, IdleIsFine, BooksStay, EventsStay, CoveredIntentsStay, JobsStep
       DEF Inv
<1>14. RaisesOK'
  <2>1. Free' = Free \ {f}
    BY <1>4, <1>7, <1>8, <1>10 DEF Free, Exists, Inv, TypeOK
  <2>2. Raising' = Raising \ {j}
    BY <1>6, IdleIsFine DEF Raising, Inv, TypeOK
  <2>3. /\ Cardinality(Free \ {f}) = Cardinality(Free) - 1
        /\ Cardinality(Raising \ {j}) = Cardinality(Raising) - 1
    <3>1. f \in Free
      BY <1>4 DEF Free
    <3> QED
      BY <1>2, <3>1, CountsAreNat, FS_RemoveElement
  <2>4. Cardinality(Free \ {f}) >= Cardinality(Raising \ {j})
    BY <2>3, CountsAreNat DEF Inv, RaisesOK
  <2> QED
    BY <2>1, <2>2, <2>4 DEF RaisesOK
<1> QED
  BY <1>9, <1>11, <1>12, <1>13, <1>14 DEF Inv

----------------------------------------------------------------------------
(* Taking and booking the money. *)

LEMMA PostToLedgerSafe ==
    ASSUME Inv, NEW j \in Jobs, PostToLedger(j) PROVE Inv' /\ Grows
<1>1. PICK i \in Intents :
      /\ i = job[j].i /\ Exists(i) /\ job[j].n = Wallet /\ job[j].sum # 0 /\ job[j].sum \in Nat
      /\ wallet[i] = 0 => job[j].sum + TakenByGateway(i) >= intent[i].amount
  BY JobIsRecord DEF PostToLedger, At, JobFine
<1>2. UNCHANGED <<intent, charge, booked, event, fannedOut>>
  BY DEF PostToLedger
<1>3. CASE UNCHANGED wallet /\ End(j)
  <2>1. job' = [job EXCEPT ![j] = Idle] /\ EventMoves
    BY <1>2, <1>3 DEF End, EventMoves
  <2> QED
    BY <1>2, <1>3, <2>1, IdleIsFine, JobOnly
<1>4. CASE /\ wallet' = IF wallet[i] = 0 THEN [wallet EXCEPT ![i] = job[j].sum] ELSE wallet
           /\ Goto(j, "apply")
  <2>1. PICK d : d = [job[j] EXCEPT !.step = "apply"]
    OBVIOUS
  <2>2. job' = [job EXCEPT ![j] = d]
    BY <1>4, <2>1 DEF Goto, Inv, TypeOK
  <2>3. d \in JobRecord /\ d.op = job[j].op /\ d.i = i /\ d.n = Wallet /\ d.step = "apply"
    <3>1. "apply" \in Steps
      BY JobStrings
    <3> QED
      BY <1>1, <2>1, <3>1, JobIsRecord DEF JobRecord
  <2>4. job[j].op # "webhook"
    BY <1>1, JobIsRecord, InRange DEF JobFine
  <2>5. wallet' \in [Intents -> Nat] /\ wallet'[i] # 0
    BY <1>1, <1>4 DEF Inv, TypeOK
  <2>6. \A k \in Intents : /\ k # i => wallet'[k] = wallet[k]
                           /\ wallet[i] # 0 => wallet'[k] = wallet[k]
                           /\ wallet[i] = 0 => wallet'[i] = job[j].sum
    BY <1>1, <1>4 DEF Inv, TypeOK
  <2>7. TypeOK' /\ EventMoves /\ ChargesOK'
    BY <1>2, <2>2, <2>3, <2>5 DEF Inv, TypeOK, EventMoves, ChargesOK, Exists
  <2>8. Grows
    <3> SUFFICES ASSUME NEW k \in Intents PROVE wallet[k] <= wallet'[k]
      BY <1>2 DEF Grows, ChargesStay, Exists
    <3>1. wallet[k] \in Nat /\ wallet'[k] \in Nat
      BY <2>5 DEF Inv, TypeOK
    <3> QED
      BY <1>1, <2>6, <3>1
  <2>9. BooksOK'
    BY <1>2, <2>8, BooksStay DEF Inv
  <2>10. \A k \in Intents : Exists(k) /\ Covered(k) => Exists(k)' /\ Covered(k)'
    BY <2>7, <2>8, CoveredStays DEF Inv, Grows
  <2>11. Exists(i)' /\ Covered(i)'
    <3>1. CASE wallet[i] # 0
      BY <1>1, <2>10, <3>1 DEF Inv, WalletOK
    <3>2. CASE wallet[i] = 0
      <4>1. TakenByGateway(i)' = TakenByGateway(i)
        BY <1>2 DEF TakenByGateway, TakenCharges
      <4>2. wallet'[i] + TakenByGateway(i) >= intent[i].amount
        BY <1>1, <2>6, <3>2
      <4> QED
        BY <1>1, <1>2, <4>1, <4>2 DEF Covered, Taken, Exists
    <3> QED
      BY <3>1, <3>2
  <2>12. WalletOK'
    <3> SUFFICES ASSUME NEW k \in Intents, wallet'[k] # 0 PROVE Exists(k)' /\ Covered(k)'
      BY DEF WalletOK, Intents
    <3>1. CASE k = i
      BY <2>11, <3>1
    <3>2. CASE k # i
      BY <2>6, <2>10, <3>2 DEF Inv, WalletOK
    <3> QED
      BY <3>1, <3>2
  <2>13. FanOutOK'
    <3>1. \A k \in fannedOut : k \in Intents /\ Exists(k) /\ Covered(k)
      BY DEF Inv, TypeOK, FanOutOK
    <3> QED
      BY <1>2, <2>10, <3>1 DEF FanOutOK
  <2>14. JobFine(d)'
    BY <1>1, <1>2, <2>3, <2>4, <2>5 DEF JobFine, CheckoutSteps, OrderSteps, Exists
  <2>15. JobsOK' /\ EventsOK'
    BY <2>2, <2>3, <2>7, <2>8, <2>14, JobsStep, EventsStay DEF Inv
  <2>16. RaisesOK'
    BY <1>2, <2>2, <2>3, RaisesStay DEF Inv, Exists
  <2> QED
    BY <2>7, <2>8, <2>9, <2>12, <2>13, <2>15, <2>16 DEF Inv
<1> QED
  BY <1>1, <1>3, <1>4 DEF PostToLedger

(* The row of a reference that was not booked yet. *)
LEMMA ApplySafe ==
    ASSUME Inv, NEW j \in Jobs, Apply(j) PROVE Inv' /\ Grows
<1>1. PICK i \in Intents :
      /\ i = job[j].i /\ Exists(i) /\ job[j].n \in References /\ job[j].sum \in Nat
      /\ IF job[j].n = Wallet THEN wallet[i] # 0 ELSE IsCharge(i, job[j].n, job[j].sum)
  BY JobIsRecord DEF Apply, At, JobFine
<1> DEFINE t0 == [i |-> i, n |-> job[j].n, sum |-> job[j].sum]
           rows == booked \cup {t0}
           paid == SumOf({t \in rows : t.i = i})
           status == StatusForAmounts(intent[i].amount, paid)
           r == [intent[i] EXCEPT !.paid = paid, !.status = status]
           flag == status \in {"PAID", "OVERPAID"} /\ intent[i].status \notin {"PAID", "OVERPAID"}
<1>2. UNCHANGED <<charge, wallet, event, order, fannedOut>>
  BY DEF Apply
<1>3. CASE \E t \in booked : t.i = i /\ t.n = job[j].n
  <2>1. Return(j) /\ UNCHANGED <<intent, booked>>
    BY <1>1, <1>3 DEF Apply
  <2>2. EventMoves
    BY <1>2 DEF EventMoves
  <2> QED
    BY <1>2, <2>1, <2>2, ReturnIsFine, JobOnly
<1>4. CASE ~ \E t \in booked : t.i = i /\ t.n = job[j].n
  <2>1. /\ booked' = rows
        /\ intent' = [intent EXCEPT ![i].paid = paid, ![i].status = status]
        /\ job' = [job EXCEPT ![j].step = "order", ![j].flag = flag]
    BY <1>1, <1>4 DEF Apply
  <2>2. rows \in SUBSET BookedRow /\ IsFiniteSet(rows)
    <3>1. t0 \in BookedRow
      BY <1>1 DEF BookedRow
    <3> HIDE DEF t0
    <3> QED
      BY <3>1, FS_AddElement DEF Inv, TypeOK
  <2>3. paid \in Nat
    <3> HIDE DEF rows
    <3>1. SumOf(RowsOf(rows, i)) \in Nat
      BY <2>2, RowsAddUp
    <3> QED
      BY <3>1 DEF RowsOf
  <2>4. t0.i = i /\ t0.n = job[j].n /\ t0.sum = job[j].sum
    OBVIOUS
  <2> HIDE DEF t0, paid
  <2>5. /\ r \in IntentRecord /\ r.amount = intent[i].amount /\ r.paid = paid
        /\ r.status = status /\ status # "ABSENT"
    BY <1>1, <2>3 DEF Inv, TypeOK, IntentRecord, Statuses, StatusForAmounts
  <2>6. intent' = [intent EXCEPT ![i] = r]
    BY <1>1, <2>1 DEF Inv, TypeOK
  <2>7. PICK d : d = [job[j] EXCEPT !.step = "order", !.flag = flag]
    OBVIOUS
  <2>8. job' = [job EXCEPT ![j] = d]
    BY <2>1, <2>7 DEF Inv, TypeOK
  <2>9. d \in JobRecord /\ d.op = job[j].op /\ d.i = i /\ d.n = job[j].n /\ d.step = "order"
        /\ d.flag = flag
    <3>1. "order" \in Steps /\ flag \in BOOLEAN
      BY JobStrings
    <3> HIDE DEF flag
    <3> QED
      BY <1>1, <2>7, <3>1, JobIsRecord DEF JobRecord
  <2>10. flag => paid >= intent[i].amount
    BY <1>1, <2>3 DEF StatusForAmounts, Inv, TypeOK, IntentRecord
  <2> HIDE DEF r, status, flag
  <2>11. \A k \in Intents : /\ intent'[k].amount = intent[k].amount
                            /\ k # i => intent'[k] = intent[k]
                            /\ Exists(k)' <=> Exists(k)
    BY <1>1, <2>5, <2>6 DEF Inv, TypeOK, Exists
  <2>12. TypeOK'
    <3>1. intent' \in [Intents -> IntentRecord]
      BY <2>5, <2>6 DEF Inv, TypeOK
    <3>2. booked' \subseteq BookedRow /\ IsFiniteSet(booked')
      BY <2>1, <2>2
    <3>3. job' \in [Jobs -> JobRecord]
      BY <2>8, <2>9 DEF Inv, TypeOK
    <3> QED
      BY <1>2, <3>1, <3>2, <3>3 DEF Inv, TypeOK
  <2>13. Grows
    BY <1>2, <2>11 DEF Grows, ChargesStay, Inv, TypeOK
  <2>14. ChargesOK' /\ EventMoves
    <3>1. \A c \in Charges : c[1] \in Intents
      BY DEF Charges
    <3> QED
      BY <1>2, <2>11, <3>1 DEF ChargesOK, Inv, Exists, EventMoves
  <2>15. BooksOK'
    <3>1. \A t, u \in rows : t.i = u.i /\ t.n = u.n => t = u
      BY <1>4, <2>4 DEF Inv, BooksOK
    <3>2. \A t \in rows : /\ t.i \in Intents /\ Exists(t.i)'
                          /\ IF t.n = Wallet THEN wallet[t.i] # 0 ELSE IsCharge(t.i, t.n, t.sum)
      <4> SUFFICES ASSUME NEW t \in rows
                   PROVE  /\ t.i \in Intents /\ Exists(t.i)
                          /\ IF t.n = Wallet THEN wallet[t.i] # 0 ELSE IsCharge(t.i, t.n, t.sum)
        BY <2>11
      <4>1. CASE t = t0
        BY <1>1, <2>4, <4>1
      <4>2. CASE t \in booked
        BY <4>2 DEF Inv, TypeOK, BooksOK, BookedRow
      <4> QED
        BY <4>1, <4>2
    <3>3. \A k \in Intents : intent'[k].paid = SumOf(RowsOf(rows, k))
      <4> SUFFICES ASSUME NEW k \in Intents PROVE intent'[k].paid = SumOf(RowsOf(rows, k))
        OBVIOUS
      <4>1. CASE k = i
        <5>1. intent'[k].paid = paid
          BY <2>5, <2>6, <4>1 DEF Inv, TypeOK
        <5> QED
          BY <4>1, <5>1 DEF paid, RowsOf
      <4>2. CASE k # i
        <5>1. RowsOf(rows, k) = RowsOf(booked, k)
          BY <2>4, <4>2 DEF RowsOf
        <5>2. intent'[k].paid = SumOf(RowsOf(booked, k))
          BY <2>11, <4>2 DEF Inv, BooksOK
        <5> QED
          BY <5>1, <5>2
      <4> QED
        BY <4>1, <4>2
    <3> HIDE DEF rows
    <3> QED
      BY <1>2, <2>1, <3>1, <3>2, <3>3 DEF BooksOK, Exists, IsCharge
  <2>16. WalletOK' /\ FanOutOK'
    BY <1>2, <2>12, <2>13, CoveredIntentsStay DEF Inv
  <2>17. \A k \in Intents : intent'[k].paid >= intent'[k].amount => Covered(k)'
    <3>1. WhatIsPaidIsCovered'
      BY <2>12, <2>15, <2>16, PaidIsCoveredNext
    <3> QED
      BY <3>1 DEF WhatIsPaidIsCovered
  <2>18. flag => Covered(i)'
    <3>1. intent'[i].paid = paid
      BY <1>1, <2>5, <2>6 DEF Inv, TypeOK
    <3> QED
      BY <1>1, <2>10, <2>11, <2>17, <3>1
  <2>19. JobFine(d)'
    <3>1. Exists(d.i)' /\ d.i \in Intents /\ (d.flag => Covered(d.i)')
      BY <1>1, <2>9, <2>11, <2>18
    <3>2. d.op = "webhook" => /\ d.n \in 1 .. MaxSessions
                              /\ charge'[<<d.i, d.n>>].state = "taken"
      BY <1>1, <1>2, <2>9, JobIsRecord DEF JobFine
    <3> QED
      BY <2>9, <3>1, <3>2 DEF JobFine, CheckoutSteps, OrderSteps
  <2>20. JobsOK' /\ EventsOK'
    BY <2>8, <2>9, <2>12, <2>13, <2>14, <2>19, JobsStep, EventsStay DEF Inv
  <2>21. RaisesOK'
    BY <2>8, <2>9, <2>11, RaisesStay DEF Inv
  <2> QED
    BY <2>12, <2>13, <2>14, <2>15, <2>16, <2>20, <2>21 DEF Inv
<1> QED
  BY <1>3, <1>4

LEMMA FanOutSafe ==
    ASSUME Inv, NEW j \in Jobs, FanOut(j) PROVE Inv' /\ Grows
<1>1. PICK i \in Intents : i = job[j].i /\ Exists(i) /\ (job[j].flag => Covered(i))
  BY JobIsRecord DEF FanOut, At, JobFine, OrderSteps
<1>2. UNCHANGED <<intent, charge, wallet, booked, event>>
  BY DEF FanOut
<1>3. PICK c \in JobRecord : /\ job' = [job EXCEPT ![j] = c]
                             /\ JobFine(c) /\ (c.op = "raise" => job[j].op = "raise")
  BY ReturnIsFine DEF FanOut
<1>4. fannedOut' = IF job[j].flag THEN fannedOut \cup {i} ELSE fannedOut
  BY <1>1 DEF FanOut
<1>5. TypeOK' /\ ChargesOK' /\ EventMoves
  BY <1>1, <1>2, <1>3, <1>4 DEF Inv, TypeOK, ChargesOK, Exists, EventMoves
<1>6. Grows
  BY <1>2, SameRowsGrow DEF Inv
<1>7. \A k \in Intents : Exists(k) /\ Covered(k) => Exists(k)' /\ Covered(k)'
  BY <1>5, <1>6, CoveredStays DEF Inv, Grows
<1>8. FanOutOK'
  <2>1. \A k \in fannedOut' : k \in Intents /\ Exists(k) /\ Covered(k)
    BY <1>1, <1>4 DEF Inv, TypeOK, FanOutOK
  <2> QED
    BY <1>7, <2>1 DEF FanOutOK
<1>9. WalletOK'
  BY <1>2, <1>7 DEF Inv, WalletOK, Intents
<1>10. BooksOK' /\ EventsOK'
  BY <1>2, <1>5, <1>6, BooksStay, EventsStay DEF Inv
<1>11. JobsOK'
  <2>1. JobFine(c)'
    BY <1>3, <1>5, <1>6, FineStays DEF Inv
  <2> QED
    BY <1>3, <1>5, <1>6, <2>1, JobsStep DEF Inv
<1>12. RaisesOK'
  BY <1>2, <1>3, RaisesStay DEF Inv, Exists
<1> QED
  BY <1>5, <1>6, <1>8, <1>9, <1>10, <1>11, <1>12 DEF Inv

(* A crash ends every job. *)
LEMMA CrashSafe ==
    ASSUME Inv, Crash PROVE Inv' /\ Grows
<1>1. job' = [j \in Jobs |-> Idle] /\ UNCHANGED <<intent, charge, wallet, booked, event, fannedOut>>
  BY DEF Crash
<1>2. TypeOK' /\ ChargesOK' /\ EventMoves
  BY <1>1, IdleIsFine DEF Inv, TypeOK, ChargesOK, Exists, EventMoves
<1>3. Grows
  BY <1>1, SameRowsGrow DEF Inv
<1>4. BooksOK' /\ EventsOK' /\ WalletOK' /\ FanOutOK'
  BY <1>1, <1>2, <1>3, BooksStay, EventsStay, CoveredIntentsStay DEF Inv
<1>5. JobsOK'
  <2> SUFFICES ASSUME NEW k \in Jobs PROVE JobFine(job[k])'
    BY DEF JobsOK
  <2>1. job'[k] = Idle
    BY <1>1
  <2> QED
    BY <2>1 DEF JobFine, Idle, CheckoutSteps, OrderSteps
<1>6. RaisesOK'
  <2>1. Raising' = {}
    BY <1>1, IdleIsFine DEF Raising
  <2>2. Free' = Free
    BY <1>1 DEF Free, Exists
  <2>3. Cardinality(Free) >= Cardinality({})
    BY CountsAreNat, FS_EmptySet
  <2> QED
    BY <2>1, <2>2, <2>3 DEF RaisesOK
<1> QED
  BY <1>2, <1>3, <1>4, <1>5, <1>6 DEF Inv

----------------------------------------------------------------------------
(* The invariant. *)

LEMMA InitIsSafe == Init => Inv
<1> SUFFICES ASSUME Init PROVE Inv
  OBVIOUS
<1>1. TypeOK
  <2>1. [status |-> "ABSENT", amount |-> 0, paid |-> 0, due |-> FALSE, engaged |-> FALSE,
         session |-> 0, asked |-> 0] \in IntentRecord
    BY ConstantsFit DEF IntentRecord, Statuses
  <2> QED
    BY <2>1, IdleIsFine, FS_EmptySet DEF Init, TypeOK, ChargeRecord
<1>2. ChargesOK /\ EventsOK /\ WalletOK /\ FanOutOK
  BY DEF Init, ChargesOK, EventsOK, EventRecord, WalletOK, FanOutOK
<1>3. BooksOK
  <2>1. \A i : RowsOf(booked, i) = {}
    BY DEF Init, RowsOf
  <2>2. SumOf({}) = 0
    <3>1. SumOf({}) = SumFunctionOnSet([t \in {} |-> t.sum], {})
      BY DEF SumOf, SumFunction
    <3> QED
      BY <3>1, SumEmpty
  <2> QED
    BY <2>1, <2>2 DEF Init, BooksOK
<1>4. JobsOK
  BY IdleIsFine DEF Init, JobsOK
<1>5. RaisesOK
  <2>1. Raising = {}
    BY IdleIsFine DEF Init, Raising
  <2> QED
    BY <2>1, CountsAreNat, FS_EmptySet DEF RaisesOK
<1> QED
  BY <1>1, <1>2, <1>3, <1>4, <1>5 DEF Inv

LEMMA NextIsSafe == Inv /\ Next => Inv' /\ Grows
<1> SUFFICES ASSUME Inv, Next PROVE Inv' /\ Grows
  OBVIOUS
<1>1. ASSUME NEW j \in Jobs, Step(j) PROVE Inv' /\ Grows
  BY <1>1, StandDownSafe, CreateIntentSafe, RememberEmailSafe, ChooseReferenceSafe,
     RememberSessionSafe, InitializeSafe, HandOverSafe, FindIntentSafe, MarkProcessedSafe,
     PostToLedgerSafe, ApplySafe, ReadOrderSafe, OrderStepSafe, FanOutSafe, WriteCancelledSafe
     DEF Step
<1>2. ASSUME NEW j \in Jobs, NEW amount \in Asks, Raise(j, amount) PROVE Inv' /\ Grows
  BY <1>2, RaiseSafe
<1>3. ASSUME NEW j \in Jobs, NEW i \in Intents,
             OpenCheckout(j, i) \/ Sweep(j, i) \/ PayWithWallet(j, i) \/ Cancel(j, i)
      PROVE  Inv' /\ Grows
  BY <1>3, OpenCheckoutSafe, SweepSafe, PayWithWalletSafe, CancelSafe
<1>4. ASSUME NEW j \in Jobs, NEW c \in Charges,
             Deliver(j, c) \/ RetryEvent(j, c) \/ BrowserReturns(j, c)
      PROVE  Inv' /\ Grows
  BY <1>4, DeliverSafe, RetryEventSafe, BrowserReturnsSafe
<1>5. ASSUME NEW i \in Intents, FallDue(i) \/ ExpireOverdue(i) PROVE Inv' /\ Grows
  BY <1>5, FallDueSafe, ExpireOverdueSafe
<1>6. ASSUME NEW c \in Charges, CustomerPays(c) PROVE Inv' /\ Grows
  BY <1>6, CustomerPaysSafe
<1>7. CASE Crash
  BY <1>7, CrashSafe
<1> QED
  BY <1>1, <1>2, <1>3, <1>4, <1>5, <1>6, <1>7 DEF Next

LEMMA StutterIsSafe == Inv /\ UNCHANGED vars => Inv' /\ Grows
<1> SUFFICES ASSUME Inv, UNCHANGED vars PROVE Inv' /\ Grows
  OBVIOUS
<1>1. UNCHANGED <<intent, charge, wallet, booked, event, fannedOut, job>>
  BY DEF vars
<1>2. TypeOK' /\ ChargesOK' /\ EventMoves
  BY <1>1 DEF Inv, TypeOK, ChargesOK, Exists, EventMoves
<1>3. Grows
  BY <1>1, SameRowsGrow DEF Inv
<1>4. \A i \in Intents : intent'[i].paid = intent[i].paid /\ (Exists(i)' <=> Exists(i))
  BY <1>1 DEF Exists
<1> QED
  BY <1>1, <1>2, <1>3, <1>4, PlainStepNoJob

(* Under every interleaving of jobs, bank events and crashes, the charges  *)
(* booked, the work in hand and the fan-outs stay in the shape Inv states. *)
THEOREM InvHolds == Spec => []Inv
<1>1. Inv /\ [Next]_vars => Inv'
  BY NextIsSafe, StutterIsSafe
<1> QED
  BY <1>1, InitIsSafe, PTL DEF Spec

----------------------------------------------------------------------------
(* The properties. *)

(* "A gateway that retries a webhook five times books once": what an       *)
(* intent shows as paid through a gateway was taken by the gateway,        *)
(* whatever webhooks, browsers and sweeps report it and crash over it.     *)
THEOREM ChargesBookOnceHolds == Spec => []ChargesBookOnce
<1>1. Inv => ChargesBookOnce
  <2> SUFFICES ASSUME Inv, NEW i \in Intents
               PROVE  intent[i].paid - SumOf(ByWallet(booked, i)) <= TakenByGateway(i)
    BY DEF ChargesBookOnce, ByWallet
  <2>1. booked \in SUBSET BookedRow /\ IsFiniteSet(booked)
    BY DEF Inv, TypeOK
  <2>2. /\ SumOf(RowsOf(booked, i)) = SumOf(ByGateway(booked, i)) + SumOf(ByWallet(booked, i))
        /\ SumOf(ByGateway(booked, i)) \in Nat /\ SumOf(ByWallet(booked, i)) \in Nat
    BY <2>1, RowsAddUp
  <2>3. SumOf(ByGateway(booked, i)) <= TakenByGateway(i)
    BY GatewayRowsWereTaken DEF Inv
  <2>4. intent[i].paid = SumOf(RowsOf(booked, i))
    BY DEF Inv, BooksOK
  <2> QED
    BY <2>2, <2>3, <2>4
<1> QED
  BY <1>1, InvHolds, PTL

(* The effects of a full payment run only for an intent whose money has    *)
(* been taken, from the gateway and the wallet together.                   *)
THEOREM FannedOutWasTakenHolds == Spec => []FannedOutWasTaken
<1>1. Inv => FannedOutWasTaken
  BY DEF Inv, FanOutOK, Covered, FannedOutWasTaken
<1> QED
  BY <1>1, InvHolds, PTL

----------------------------------------------------------------------------
(* Without a wallet, an order is only released for money that was taken.   *)

WithoutWallet == ~ HasWallet

NoPost == \A i \in Intents : wallet[i] = 0
NoPosting == \A j \in Jobs : job[j].step # "post"

(* The total a job read has been taken, and is still there when it acts.   *)
OrderFine(c) == /\ c.step = "write order" => c.sum <= TakenInAll
                /\ c.step = "release" => TakenInAll >= Total
OrderRecord == [pay : {"PENDING", "PARTIALLY_PAID", "PAID"}, released : BOOLEAN]
OrderOK == order \in OrderRecord /\ ReleasedWasTaken /\ \A j \in Jobs : OrderFine(job[j])

WalletFreeInv == Inv /\ NoPost /\ NoPosting /\ OrderOK

LEMMA TakenInAllIsNat == TypeOK => TakenInAll \in Nat
<1> SUFFICES ASSUME TypeOK PROVE TakenInAll \in Nat
  OBVIOUS
<1> DEFINE f == [i \in Intents |-> Taken(i)]
<1>1. TakenInAll = SumFunctionOnSet(f, Intents)
  BY DEF TakenInAll, SumFunction
<1>2. \A i \in Intents : f[i] \in Nat
  BY TakenIsNat DEF TakenInNat
<1> HIDE DEF f
<1> QED
  BY <1>1, <1>2, ChargesAreFinite, SumNat

LEMMA TakenInAllIsNatNext == TypeOK' => TakenInAll' \in Nat
<1> DEFINE P == TakenInAll \in Nat
<1>1. TypeOK => P
  BY TakenIsNat, TakenInAllIsNat
<1>2. TypeOK' => P'
  <2> HIDE DEF P
  <2> QED
    BY <1>1, PTL
<1> QED
  BY <1>2

(* What was taken in all only grows. *)
LEMMA TakenInAllGrows ==
    ASSUME TypeOK, TypeOK', Grows
    PROVE  TakenInAll <= TakenInAll'
<1> DEFINE f == [i \in Intents |-> Taken(i)]
           g == [i \in Intents |-> Taken(i)']
<1>1. TakenInAll = SumFunctionOnSet(f, Intents) /\ TakenInAll' = SumFunctionOnSet(g, Intents)
  BY DEF TakenInAll, SumFunction, Intents
<1>2. ASSUME NEW i \in Intents PROVE f[i] \in Int /\ g[i] \in Int /\ f[i] <= g[i]
  <2>1. Taken(i) \in Nat /\ Taken(i)' \in Nat
    BY TakenIsNat, TakenIsNatNext DEF TakenInNat, Intents
  <2>2. TakenByGateway(i) <= TakenByGateway(i)' /\ wallet[i] <= wallet'[i]
    BY TakenGrows DEF Grows
  <2>3. /\ TakenByGateway(i) \in Nat /\ TakenByGateway(i)' \in Nat
        /\ wallet[i] \in Nat /\ wallet'[i] \in Nat
    BY TakenIsNat, TakenIsNatNext DEF TakenInNat, Intents, TypeOK
  <2>4. Taken(i) <= Taken(i)'
    BY <2>2, <2>3 DEF Taken
  <2> QED
    BY <2>1, <2>4
<1> HIDE DEF f, g
<1> QED
  BY <1>1, <1>2, ChargesAreFinite, SumMonotone

(* What all intents show as paid was taken. *)
LEMMA PaidInAllWasTaken ==
    ASSUME TypeOK, BooksOK, NoPost
    PROVE  SumFunction([i \in Intents |-> intent[i].paid]) <= TakenInAll
<1> DEFINE f == [i \in Intents |-> intent[i].paid]
           g == [i \in Intents |-> Taken(i)]
<1>1. /\ SumFunction(f) = SumFunctionOnSet(f, Intents)
      /\ TakenInAll = SumFunctionOnSet(g, Intents)
  BY DEF TakenInAll, SumFunction
<1>2. ASSUME NEW i \in Intents PROVE f[i] \in Int /\ g[i] \in Int /\ f[i] <= g[i]
  <2>1. intent[i].paid <= TakenByGateway(i) /\ wallet[i] = 0
    BY PaidByGateway DEF NoPost
  <2>2. TakenByGateway(i) \in Nat /\ intent[i].paid \in Nat
    BY TakenIsNat DEF TakenInNat, TypeOK, IntentRecord
  <2> QED
    BY <2>1, <2>2 DEF Taken
<1>3. SumFunctionOnSet(f, Intents) <= SumFunctionOnSet(g, Intents)
  <2> HIDE DEF f, g
  <2> QED
    BY <1>2, ChargesAreFinite, SumMonotone
<1> QED
  BY <1>1, <1>3

(* Most steps leave the order and the wallets alone, and start no job      *)
(* where the order is written.                                             *)
Quiet ==
    /\ UNCHANGED <<wallet, order>>
    /\ \A k \in Jobs : job'[k] = job[k] \/ job'[k].step \notin {"write order", "release", "post"}

LEMMA QuietJob ==
    ASSUME TypeOK, UNCHANGED <<wallet, order>>, NEW j \in Jobs, NEW c,
           job' = [job EXCEPT ![j] = c], c.step \notin {"write order", "release", "post"}
    PROVE  Quiet
BY DEF TypeOK, Quiet

LEMMA QuietEnd ==
    ASSUME TypeOK, UNCHANGED <<wallet, order>>, NEW j \in Jobs, End(j)
    PROVE  Quiet
<1>1. job' = [job EXCEPT ![j] = Idle] /\ Idle.step \notin {"write order", "release", "post"}
  BY DEF End, Idle
<1> QED
  BY <1>1, QuietJob

LEMMA QuietStart ==
    ASSUME TypeOK, UNCHANGED <<wallet, order>>, NEW j \in Jobs, NEW op, NEW step, NEW i, NEW n, NEW sum,
           Start(j, op, step, i, n, sum), step \notin {"write order", "release", "post"}
    PROVE  Quiet
<1> DEFINE c == [op |-> op, step |-> step, i |-> i, n |-> n, sum |-> sum, seen |-> 0, flag |-> FALSE]
<1>1. job' = [job EXCEPT ![j] = c] /\ c.step = step
  BY DEF Start
<1> HIDE DEF c
<1> QED
  BY <1>1, QuietJob

LEMMA QuietGoto ==
    ASSUME TypeOK, UNCHANGED <<wallet, order>>, NEW j \in Jobs, NEW step, Goto(j, step),
           step \notin {"write order", "release", "post"}
    PROVE  Quiet
<1> DEFINE c == [job[j] EXCEPT !.step = step]
<1>1. job' = [job EXCEPT ![j] = c] /\ c.step = step
  BY DEF Goto, TypeOK, JobRecord
<1> HIDE DEF c
<1> QED
  BY <1>1, QuietJob

LEMMA QuietReturn ==
    ASSUME TypeOK, UNCHANGED <<wallet, order>>, NEW j \in Jobs, Return(j)
    PROVE  Quiet
<1>1. CASE job[j].op # "webhook"
  BY <1>1, QuietEnd DEF Return
<1>2. CASE job[j].op = "webhook"
  <2> DEFINE c == [job[j] EXCEPT !.step = "processed", !.sum = 0, !.flag = FALSE]
  <2>1. job' = [job EXCEPT ![j] = c] /\ c.step = "processed"
    BY <1>2 DEF Return, TypeOK, JobRecord
  <2> HIDE DEF c
  <2> QED
    BY <2>1, QuietJob
<1> QED
  BY <1>1, <1>2

LEMMA QuietSteps ==
    ASSUME TypeOK, NEW j \in Jobs,
           \/ StandDown(j) \/ CreateIntent(j) \/ RememberEmail(j) \/ ChooseReference(j)
           \/ RememberSession(j) \/ Initialize(j) \/ HandOver(j) \/ FindIntent(j)
           \/ MarkProcessed(j) \/ Apply(j) \/ OrderFails(j) \/ FanOut(j) \/ WriteCancelled(j)
    PROVE  Quiet
<1>1. CASE StandDown(j)
  BY <1>1, QuietGoto DEF StandDown
<1>2. CASE CreateIntent(j)
  BY <1>2, QuietEnd DEF CreateIntent
<1>3. CASE RememberEmail(j)
  <2> DEFINE c == [job[j] EXCEPT !.step = "reference", !.n = 0, !.seen = 0]
  <2>1. job' = [job EXCEPT ![j] = c] /\ c.step = "reference" /\ UNCHANGED <<wallet, order>>
    BY <1>3 DEF RememberEmail, TypeOK, JobRecord
  <2> HIDE DEF c
  <2> QED
    BY <2>1, QuietJob
<1>4. CASE ChooseReference(j)
  <2>1. UNCHANGED <<wallet, order>>
    BY <1>4 DEF ChooseReference
  <2>2. CASE End(j)
    BY <2>1, <2>2, QuietEnd
  <2>3. CASE ~ End(j)
    <3>1. \/ job' = [job EXCEPT ![j].n = intent[job[j].i].session, ![j].step = "initialize"]
          \/ job' = [job EXCEPT ![j].n = intent[job[j].i].session + 1, ![j].step = "remember"]
      BY <1>4, <2>3 DEF ChooseReference
    <3>2. PICK n, step : /\ job' = [job EXCEPT ![j].n = n, ![j].step = step]
                         /\ step \in {"initialize", "remember"}
      BY <3>1, Zenon
    <3> DEFINE c == [job[j] EXCEPT !.n = n, !.step = step]
    <3>3. job' = [job EXCEPT ![j] = c] /\ c.step = step
      BY <3>2 DEF TypeOK, JobRecord
    <3> HIDE DEF c
    <3> QED
      BY <2>1, <3>2, <3>3, QuietJob
  <2> QED
    BY <2>2, <2>3
<1>5. CASE RememberSession(j)
  BY <1>5, QuietGoto DEF RememberSession
<1>6. CASE Initialize(j)
  BY <1>6, QuietGoto, QuietEnd DEF Initialize
<1>7. CASE HandOver(j)
  BY <1>7, QuietEnd DEF HandOver
<1>8. CASE FindIntent(j)
  BY <1>8, QuietGoto, QuietEnd DEF FindIntent
<1>9. CASE MarkProcessed(j)
  BY <1>9, QuietEnd DEF MarkProcessed
<1>10. CASE Apply(j)
  <2>1. UNCHANGED <<wallet, order>>
    BY <1>10 DEF Apply
  <2>2. CASE Return(j)
    BY <2>1, <2>2, QuietReturn
  <2>3. CASE ~ Return(j)
    <3>1. PICK flag : job' = [job EXCEPT ![j].step = "order", ![j].flag = flag]
      BY <1>10, <2>3 DEF Apply
    <3> DEFINE c == [job[j] EXCEPT !.step = "order", !.flag = flag]
    <3>2. job' = [job EXCEPT ![j] = c] /\ c.step = "order"
      BY <3>1 DEF TypeOK, JobRecord
    <3> HIDE DEF c
    <3> QED
      BY <2>1, <3>2, QuietJob
  <2> QED
    BY <2>2, <2>3
<1>11. CASE OrderFails(j)
  BY <1>11, QuietGoto DEF OrderFails
<1>12. CASE FanOut(j)
  BY <1>12, QuietReturn DEF FanOut
<1>13. CASE WriteCancelled(j)
  BY <1>13, QuietEnd DEF WriteCancelled
<1> QED
  BY <1>1, <1>2, <1>3, <1>4, <1>5, <1>6, <1>7, <1>8, <1>9, <1>10, <1>11, <1>12, <1>13

LEMMA QuietRaise ==
    ASSUME TypeOK, NEW j \in Jobs, NEW amount \in Asks, Raise(j, amount)
    PROVE  Quiet
<1>1. PICK step \in {"create", "stand down"} : \E a : Start(j, "raise", step, a, 0, amount)
  BY DEF Raise
<1>2. UNCHANGED <<wallet, order>>
  BY DEF Raise
<1>3. PICK a : Start(j, "raise", step, a, 0, amount)
  BY <1>1
<1> QED
  BY <1>2, <1>3, QuietStart

LEMMA QuietOnIntent ==
    ASSUME TypeOK, NEW j \in Jobs, NEW i \in Intents,
           OpenCheckout(j, i) \/ Sweep(j, i) \/ Cancel(j, i)
    PROVE  Quiet
<1>1. CASE OpenCheckout(j, i)
  <2>1. PICK sum : job' = [job EXCEPT ![j] = [op |-> "checkout", step |-> "email", i |-> i,
                                             n |-> intent[i].session, sum |-> sum,
                                             seen |-> intent[i].asked, flag |-> FALSE]]
    BY <1>1 DEF OpenCheckout
  <2>2. UNCHANGED <<wallet, order>>
    BY <1>1 DEF OpenCheckout
  <2> QED
    BY <2>1, <2>2, QuietJob
<1>2. CASE Sweep(j, i)
  <2>1. PICK a, b, m : Start(j, "sweep", "apply", a, b, m)
    BY <1>2 DEF Sweep
  <2>2. UNCHANGED <<wallet, order>>
    BY <1>2 DEF Sweep
  <2>3. "apply" \notin {"write order", "release", "post"}
    OBVIOUS
  <2> QED
    BY <2>1, <2>2, <2>3, QuietStart, Zenon
<1>3. CASE Cancel(j, i)
  BY <1>3, QuietStart DEF Cancel
<1> QED
  BY <1>1, <1>2, <1>3

LEMMA QuietOnCharge ==
    ASSUME TypeOK, NEW j \in Jobs, NEW c \in Charges,
           Deliver(j, c) \/ RetryEvent(j, c) \/ BrowserReturns(j, c)
    PROVE  Quiet
<1>1. CASE Deliver(j, c)
  <2>1. PICK a, b, m : Start(j, "webhook", "find", a, b, m)
    BY <1>1 DEF Deliver
  <2>2. UNCHANGED <<wallet, order>>
    BY <1>1 DEF Deliver
  <2>3. "find" \notin {"write order", "release", "post"}
    OBVIOUS
  <2> QED
    BY <2>1, <2>2, <2>3, QuietStart, Zenon
<1>2. CASE RetryEvent(j, c)
  <2>1. PICK a, b, m : Start(j, "webhook", "find", a, b, m)
    BY <1>2 DEF RetryEvent
  <2>2. UNCHANGED <<wallet, order>>
    BY <1>2 DEF RetryEvent
  <2>3. "find" \notin {"write order", "release", "post"}
    OBVIOUS
  <2> QED
    BY <2>1, <2>2, <2>3, QuietStart, Zenon
<1>3. CASE BrowserReturns(j, c)
  <2>1. PICK a, b, m : Start(j, "browser", "apply", a, b, m)
    BY <1>3 DEF BrowserReturns
  <2>2. UNCHANGED <<wallet, order>>
    BY <1>3 DEF BrowserReturns
  <2>3. "apply" \notin {"write order", "release", "post"}
    OBVIOUS
  <2> QED
    BY <2>1, <2>2, <2>3, QuietStart, Zenon
<1> QED
  BY <1>1, <1>2, <1>3

(* What a job relies on, across a quiet step. *)
LEMMA QuietIsSafe ==
    ASSUME WalletFreeInv, Inv', Grows, Quiet
    PROVE  WalletFreeInv'
<1>1. TakenInAll <= TakenInAll'
  BY TakenInAllGrows DEF WalletFreeInv, Inv
<1>2. TakenInAll \in Nat /\ TakenInAll' \in Nat
  BY TakenInAllIsNat, TakenInAllIsNatNext DEF WalletFreeInv, Inv
<1>3. NoPost' /\ NoPosting'
  BY DEF Quiet, WalletFreeInv, NoPost, NoPosting, Intents
<1>4. Total \in Nat
  BY IntentAssumption
<1>5. ReleasedWasTaken' /\ order' \in OrderRecord
  <2>1. ReleasedWasTaken /\ order' = order
    BY DEF Quiet, WalletFreeInv, OrderOK
  <2>2. order \in OrderRecord
    BY DEF WalletFreeInv, OrderOK
  <2>3. TakenInAll >= Total => TakenInAll' >= Total
    BY <1>1, <1>2, <1>4
  <2> QED
    BY <2>1, <2>2, <2>3 DEF ReleasedWasTaken
<1>6. ASSUME NEW k \in Jobs PROVE OrderFine(job[k])'
  <2>1. job'[k] = job[k] \/ job'[k].step \notin {"write order", "release"}
    BY DEF Quiet
  <2>2. OrderFine(job[k]) /\ job[k].sum \in Nat
    BY JobIsRecord DEF WalletFreeInv, OrderOK
  <2>3. TakenInAll >= Total => TakenInAll' >= Total
    BY <1>1, <1>2, <1>4
  <2>4. job[k].sum <= TakenInAll => job[k].sum <= TakenInAll'
    BY <1>1, <1>2, <2>2
  <2> QED
    BY <2>1, <2>2, <2>3, <2>4 DEF OrderFine
<1> QED
  BY <1>3, <1>5, <1>6 DEF WalletFreeInv, OrderOK

(* The three steps that read, write and release the order. *)
LEMMA OrderStepsAreSafe ==
    ASSUME WalletFreeInv, Inv', Grows, NEW j \in Jobs,
           ReadOrder(j) \/ WriteOrder(j) \/ ReleaseOrder(j)
    PROVE  WalletFreeInv'
<1>1. UNCHANGED <<intent, charge, wallet, booked, fannedOut>>
  BY DEF ReadOrder, WriteOrder, ReleaseOrder
<1>2. TakenInAll' = TakenInAll
  BY <1>1 DEF TakenInAll, Taken, TakenByGateway, TakenCharges
<1>3. TakenInAll \in Nat /\ Total \in Nat /\ job[j].sum \in Nat
  BY TakenInAllIsNat, IntentAssumption, JobIsRecord DEF WalletFreeInv, Inv
<1>4. \A k \in Jobs : OrderFine(job[k]) /\ job[k].step # "post"
  BY DEF WalletFreeInv, OrderOK, NoPosting
<1>5. ReleasedWasTaken /\ order \in OrderRecord
  BY DEF WalletFreeInv, OrderOK
<1>6. /\ \A k \in Jobs : k # j => job'[k] = job[k]
      /\ job'[j].step # "post"
      /\ (job'[j].step = "write order" => job'[j].sum <= TakenInAll)
      /\ (job'[j].step = "release" => TakenInAll >= Total)
      /\ (order'.pay = "PAID" \/ order'.released => TakenInAll >= Total)
      /\ order' \in OrderRecord
  <2>1. CASE ReadOrder(j)
    <3>1. PICK sum : /\ job' = [job EXCEPT ![j].step = "write order", ![j].sum = sum]
                     /\ sum = SumFunction([i \in Intents |-> intent[i].paid])
      BY <2>1, Zenon DEF ReadOrder
    <3>2. sum <= TakenInAll
      BY <3>1, PaidInAllWasTaken DEF WalletFreeInv, Inv
    <3>3. order' = order
      BY <2>1 DEF ReadOrder
    <3>4. /\ \A k \in Jobs : k # j => job'[k] = job[k]
          /\ job'[j].step = "write order" /\ job'[j].sum = sum
      BY <3>1 DEF WalletFreeInv, Inv, TypeOK, JobRecord
    <3> QED
      BY <1>5, <3>2, <3>3, <3>4 DEF ReleasedWasTaken
  <2>2. CASE WriteOrder(j)
    <3> DEFINE full == job[j].sum >= Total
    <3>1. /\ job[j].step = "write order"
          /\ job' = [job EXCEPT ![j].step = IF full THEN "release" ELSE "fan out"]
          /\ order' = [order EXCEPT !.pay = IF full THEN "PAID" ELSE "PARTIALLY_PAID"]
      BY <2>2 DEF WriteOrder, At, Goto
    <3>2. full => TakenInAll >= Total
      <4>1. job[j].sum <= TakenInAll
        BY <1>4, <3>1 DEF OrderFine
      <4> QED
        BY <1>3, <4>1
    <3>3. /\ \A k \in Jobs : k # j => job'[k] = job[k]
          /\ job'[j].step = IF full THEN "release" ELSE "fan out"
      <4> HIDE DEF full
      <4> QED
        BY <3>1 DEF WalletFreeInv, Inv, TypeOK, JobRecord
    <3>4. /\ order'.released => order.released
          /\ order'.pay = "PAID" => full \/ order.pay = "PAID"
          /\ order' \in OrderRecord
      <4> HIDE DEF full
      <4> QED
        BY <1>5, <3>1 DEF OrderRecord
    <3> HIDE DEF full
    <3> QED
      BY <1>5, <3>2, <3>3, <3>4 DEF ReleasedWasTaken
  <2>3. CASE ReleaseOrder(j)
    <3>1. /\ job[j].step = "release" /\ job' = [job EXCEPT ![j].step = "fan out"]
      BY <2>3 DEF ReleaseOrder, At, Goto
    <3>2. TakenInAll >= Total
      BY <1>4, <3>1 DEF OrderFine
    <3>3. /\ \A k \in Jobs : k # j => job'[k] = job[k]
          /\ job'[j].step = "fan out"
      BY <3>1 DEF WalletFreeInv, Inv, TypeOK, JobRecord
    <3>4. order' \in OrderRecord
      BY <1>5, <2>3 DEF ReleaseOrder, OrderRecord
    <3> QED
      BY <3>2, <3>3, <3>4
  <2> QED
    BY <2>1, <2>2, <2>3
<1>7. NoPost' /\ NoPosting'
  BY <1>1, <1>4, <1>6 DEF WalletFreeInv, NoPost, NoPosting, Intents
<1>8. ReleasedWasTaken'
  BY <1>2, <1>6 DEF ReleasedWasTaken
<1>9. \A k \in Jobs : OrderFine(job[k])'
  BY <1>2, <1>4, <1>6 DEF OrderFine
<1> QED
  BY <1>6, <1>7, <1>8, <1>9 DEF WalletFreeInv, OrderOK

LEMMA WalletFreeNext ==
    ASSUME WithoutWallet, WalletFreeInv, Next
    PROVE  WalletFreeInv'
<1>1. Inv' /\ Grows /\ TypeOK
  BY NextIsSafe DEF WalletFreeInv, Inv
<1>2. ASSUME NEW j \in Jobs, Step(j) PROVE WalletFreeInv'
  <2>1. ~ PostToLedger(j)
    BY DEF PostToLedger, At, WalletFreeInv, NoPosting
  <2>2. CASE ReadOrder(j) \/ WriteOrder(j) \/ ReleaseOrder(j)
    BY <1>1, <2>2, OrderStepsAreSafe
  <2>3. CASE ~ (ReadOrder(j) \/ WriteOrder(j) \/ ReleaseOrder(j))
    <3>1. Quiet
      BY <1>1, <1>2, <2>1, <2>3, QuietSteps DEF Step
    <3> QED
      BY <1>1, <3>1, QuietIsSafe
  <2> QED
    BY <2>2, <2>3
<1>3. ASSUME NEW j \in Jobs, NEW i \in Intents PROVE ~ PayWithWallet(j, i)
  BY DEF PayWithWallet, WithoutWallet
<1>4. ASSUME NEW j \in Jobs, NEW amount \in Asks, Raise(j, amount) PROVE WalletFreeInv'
  BY <1>1, <1>4, QuietRaise, QuietIsSafe
<1>5. ASSUME NEW j \in Jobs, NEW i \in Intents, OpenCheckout(j, i) \/ Sweep(j, i) \/ Cancel(j, i)
      PROVE  WalletFreeInv'
  <2>1. Quiet
    BY <1>1, <1>5, QuietOnIntent
  <2> QED
    BY <1>1, <2>1, QuietIsSafe
<1>6. ASSUME NEW j \in Jobs, NEW c \in Charges,
             Deliver(j, c) \/ RetryEvent(j, c) \/ BrowserReturns(j, c)
      PROVE  WalletFreeInv'
  <2>1. Quiet
    BY <1>1, <1>6, QuietOnCharge
  <2> QED
    BY <1>1, <2>1, QuietIsSafe
<1>7. CASE \/ \E i \in Intents : FallDue(i) \/ ExpireOverdue(i)
           \/ \E c \in Charges : CustomerPays(c)
  <2>1. Quiet
    BY <1>7 DEF FallDue, ExpireOverdue, CustomerPays, Quiet
  <2> QED
    BY <1>1, <2>1, QuietIsSafe
<1>8. CASE Crash
  <2>1. Quiet
    BY <1>8 DEF Crash, Quiet, Idle
  <2> QED
    BY <1>1, <2>1, QuietIsSafe
<1> QED
  BY <1>2, <1>3, <1>4, <1>5, <1>6, <1>7, <1>8 DEF Next

LEMMA WalletFreeInit == Init => WalletFreeInv
<1> SUFFICES ASSUME Init PROVE WalletFreeInv
  OBVIOUS
<1>1. NoPost /\ NoPosting
  BY DEF Init, NoPost, NoPosting, Idle
<1>2. OrderOK
  BY DEF Init, OrderOK, OrderRecord, ReleasedWasTaken, OrderFine, Idle
<1> QED
  BY <1>1, <1>2, InitIsSafe DEF WalletFreeInv

LEMMA WalletFreeInvHolds == WithoutWallet => (Spec => []WalletFreeInv)
<1> SUFFICES ASSUME WithoutWallet PROVE Spec => []WalletFreeInv
  OBVIOUS
<1>1. WalletFreeInv /\ UNCHANGED vars => WalletFreeInv'
  <2> SUFFICES ASSUME WalletFreeInv, UNCHANGED vars PROVE WalletFreeInv'
    OBVIOUS
  <2>1. Inv' /\ Grows
    BY StutterIsSafe DEF WalletFreeInv
  <2>2. Quiet
    BY DEF vars, Quiet
  <2> QED
    BY <2>1, <2>2, QuietIsSafe
<1>2. WalletFreeInv /\ [Next]_vars => WalletFreeInv'
  BY <1>1, WalletFreeNext
<1> QED
  BY <1>2, WalletFreeInit, PTL DEF Spec

(* An order is shown as paid and released, and the effects of a full       *)
(* payment run, only when the money for it has been taken, although the    *)
(* totals are read in one statement and acted on in later ones.  It is     *)
(* true of every business whose customers pay through the gateway; with a  *)
(* wallet as well, an intent can show more than was taken.                 *)
THEOREM NothingUnpaidIsReleasedHolds == WithoutWallet => (Spec => []NothingUnpaidIsReleased)
<1> SUFFICES ASSUME WithoutWallet PROVE Spec => []NothingUnpaidIsReleased
  OBVIOUS
<1>1. WalletFreeInv => ReleasedWasTaken
  BY DEF WalletFreeInv, OrderOK
<1>2. Spec => []WalletFreeInv
  BY WalletFreeInvHolds
<1> QED
  BY <1>1, <1>2, FannedOutWasTakenHolds, PTL DEF NothingUnpaidIsReleased

(* Through the gateway alone, what an intent shows as paid was taken.      *)
THEOREM BookedWasTakenHolds == WithoutWallet => (Spec => []BookedWasTaken)
<1> SUFFICES ASSUME WithoutWallet PROVE Spec => []BookedWasTaken
  OBVIOUS
<1>1. WalletFreeInv => BookedWasTaken
  <2> SUFFICES ASSUME WalletFreeInv, NEW i \in Intents PROVE intent[i].paid <= Taken(i)
    BY DEF BookedWasTaken
  <2>1. wallet[i] = 0 /\ intent[i].paid <= TakenByGateway(i) /\ TakenByGateway(i) \in Nat
    BY PaidByGateway, TakenIsNat DEF WalletFreeInv, Inv, NoPost, TakenInNat
  <2> QED
    BY <2>1 DEF Taken
<1>2. Spec => []WalletFreeInv
  BY WalletFreeInvHolds
<1> QED
  BY <1>1, <1>2, PTL
=============================================================================
