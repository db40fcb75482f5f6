---------------------------- MODULE StockProofs ----------------------------
(***************************************************************************)
(* What holds of the shelves, which are everybody's.                       *)
(*                                                                         *)
(* DesksInv joins the invariants of the desks (DesksProofs) and the types  *)
(* of the rows; the desks' documents then add up to numbers (AccountsOK),  *)
(* and Books, the three claims about the rows, is kept by every step       *)
(* because a row moves by exactly what one account moves (OneRowMoves), or *)
(* no row and no account does (NoRowMoves).                                *)
(***************************************************************************)
EXTENDS DesksProofs

(* What the documents of each desk add up to.                              *)
ShippedOut == SumFunction([o \in Orders |-> Shipped(o)])
ClaimedNow == SumFunction([o \in Orders |-> Unreleased(o)])
SentOut == SumFunction([q \in Reqs |-> SentFor(q)])
LandedIn == SumFunction(landed)
DeliveredIn == SumFunction([p \in Purchases |-> DeliveredFor(p)])
DrawnOut == SumFunction(drawn)
MadeNow == Cardinality({b \in Batches : batch[b].made})
ScrappedOut == SumFunction(scrapped)
BatchedIn == BatchQty * MadeNow - ScrappedOut
HeldNow == SumFunction(hold)

Explained(r) ==
    OpeningStock[r] + byHand[r]
        - At0(r, Shelf, ShippedOut) - At0(r, Source, SentOut) + At0(r, Destination, LandedIn)
        + At0(r, Dock, DeliveredIn) - At0(r, Store, DrawnOut) + shelved[r]
        + At0(r, Bay, BatchedIn)
SpokenFor(r) == At0(r, Shelf, ClaimedNow) + At0(r, Bay, HeldNow)

LEMMA SumOneMoved ==
    ASSUME NEW S, IsFiniteSet(S), NEW f, NEW g, f = [s \in S |-> f[s]], g = [s \in S |-> g[s]],
           \A s \in S : f[s] \in Int /\ g[s] \in Int,
           NEW x \in S, \A s \in S \ {x} : g[s] = f[s]
    PROVE  SumFunction(f) \in Int /\ SumFunction(g) = SumFunction(f) - f[x] + g[x]
<1>1. DOMAIN f = S /\ DOMAIN g = S
  OBVIOUS
<1>2. SumFunction(f) = SumFunctionOnSet(f, S) /\ SumFunction(g) = SumFunctionOnSet(g, S)
  BY <1>1 DEF SumFunction
<1> QED
  BY <1>2, SumChange, SumRemove

LEMMA SumTyped ==
    ASSUME NEW S, IsFiniteSet(S), NEW f, f = [s \in S |-> f[s]]
    PROVE  /\ (\A s \in S : f[s] \in Int) => SumFunction(f) \in Int
           /\ (\A s \in S : f[s] \in Nat) => SumFunction(f) \in Nat
<1>1. DOMAIN f = S
  OBVIOUS
<1>2. SumFunction(f) = SumFunctionOnSet(f, S)
  BY <1>1 DEF SumFunction
<1> QED
  BY <1>2, SumNat, SumRemove

LEMMA EntryMoves ==
    ASSUME NEW S, IsFiniteSet(S), NEW f \in [S -> Int], NEW x \in S, NEW v \in Int,
           NEW g, g = [f EXCEPT ![x] = v]
    PROVE  SumFunction(f) \in Int /\ SumFunction(g) = SumFunction(f) - f[x] + v
<1>1. g[x] = v /\ \A s \in S \ {x} : g[s] = f[s]
  OBVIOUS
<1>2. f = [s \in S |-> f[s]] /\ g = [s \in S |-> g[s]]
  OBVIOUS
<1>3. \A s \in S : f[s] \in Int /\ g[s] \in Int
  OBVIOUS
<1>4. SumFunction(f) \in Int /\ SumFunction(g) = SumFunction(f) - f[x] + g[x]
  BY <1>1, <1>2, <1>3, SumOneMoved
<1> QED
  BY <1>1, <1>4

LEMMA OrderAmounts ==
    ASSUME order \in [Orders -> OrderRows], NEW o \in Orders
    PROVE  Shipped(o) \in Nat /\ Unreleased(o) \in Nat
<1>1. OrderQty[o] \in Nat
  BY OrderAssumption
<1> QED
  BY <1>1 DEF Shipped, Unreleased

LEMMA OrderAccounts ==
    ASSUME order \in [Orders -> OrderRows], order' \in [Orders -> OrderRows],
           NEW o \in Orders, \A p \in Orders \ {o} : order'[p] = order[p]
    PROVE  /\ ShippedOut' = ShippedOut - Shipped(o) + Shipped(o)'
           /\ ClaimedNow' = ClaimedNow - Unreleased(o) + Unreleased(o)'
<1>1. \A p \in Orders : Shipped(p) \in Int /\ Unreleased(p) \in Int
  BY OrderAmounts
<1>2. \A p \in Orders : Shipped(p)' \in Int /\ Unreleased(p)' \in Int
  <2>1. \A p \in Orders : OrderQty[p] \in Nat
    BY OrderAssumption
  <2> QED
    BY <2>1 DEF Shipped, Unreleased
<1>3. \A p \in Orders \ {o} : Shipped(p)' = Shipped(p) /\ Unreleased(p)' = Unreleased(p)
  BY DEF Shipped, Unreleased, Exists
<1>4. ShippedOut' = ShippedOut - Shipped(o) + Shipped(o)'
  <2>1. PICK f : f = [p \in Orders |-> Shipped(p)]
    OBVIOUS
  <2>2. PICK g : g = [p \in Orders |-> Shipped(p)']
    OBVIOUS
  <2>3. SumFunction(g) = SumFunction(f) - f[o] + g[o]
    <3>1. f = [p \in Orders |-> f[p]] /\ g = [p \in Orders |-> g[p]]
      BY <2>1, <2>2
    <3>2. \A p \in Orders : f[p] \in Int /\ g[p] \in Int
      BY <1>1, <1>2, <2>1, <2>2
    <3>3. \A p \in Orders \ {o} : g[p] = f[p]
      BY <1>3, <2>1, <2>2
    <3> QED
      BY <3>1, <3>2, <3>3, SumOneMoved, WarehouseIsFinite
  <2>4. ShippedOut = SumFunction(f) /\ f[o] = Shipped(o)
    BY <2>1 DEF ShippedOut
  <2>5. ShippedOut' = SumFunction(g) /\ g[o] = Shipped(o)'
    BY <2>2 DEF ShippedOut
  <2> QED
    BY <2>3, <2>4, <2>5
<1>5. ClaimedNow' = ClaimedNow - Unreleased(o) + Unreleased(o)'
  <2>1. PICK f : f = [p \in Orders |-> Unreleased(p)]
    OBVIOUS
  <2>2. PICK g : g = [p \in Orders |-> Unreleased(p)']
    OBVIOUS
  <2>3. SumFunction(g) = SumFunction(f) - f[o] + g[o]
    <3>1. f = [p \in Orders |-> f[p]] /\ g = [p \in Orders |-> g[p]]
      BY <2>1, <2>2
    <3>2. \A p \in Orders : f[p] \in Int /\ g[p] \in Int
      BY <1>1, <1>2, <2>1, <2>2
    <3>3. \A p \in Orders \ {o} : g[p] = f[p]
      BY <1>3, <2>1, <2>2
    <3> QED
      BY <3>1, <3>2, <3>3, SumOneMoved, WarehouseIsFinite
  <2>4. ClaimedNow = SumFunction(f) /\ f[o] = Unreleased(o)
    BY <2>1 DEF ClaimedNow
  <2>5. ClaimedNow' = SumFunction(g) /\ g[o] = Unreleased(o)'
    BY <2>2 DEF ClaimedNow
  <2> QED
    BY <2>3, <2>4, <2>5
<1> QED
  BY <1>4, <1>5

LEMMA SentTyped ==
    ASSUME loads \subseteq Loads, IsFiniteSet(loads)
    PROVE  \A q \in Reqs : SentFor(q) \in Int
<1> SUFFICES ASSUME NEW q \in Reqs PROVE SentFor(q) \in Int
  OBVIOUS
<1>1. PICK S : S = {x \in loads : x.req = q}
  OBVIOUS
<1>2. IsFiniteSet(S) /\ S \subseteq loads
  BY <1>1, FS_Subset
<1>3. PICK f : f = [x \in S |-> x.qty]
  OBVIOUS
<1>4. f = [x \in S |-> f[x]] /\ \A x \in S : f[x] \in Int
  BY <1>2, <1>3 DEF Loads
<1>5. SumFunction(f) \in Int
  BY <1>2, <1>4, SumTyped
<1> QED
  BY <1>1, <1>3, <1>5 DEF SentFor

LEMMA DeliveredTyped ==
    ASSUME deliveries \subseteq Pallets, IsFiniteSet(deliveries)
    PROVE  \A p \in Purchases : DeliveredFor(p) \in Int
<1> SUFFICES ASSUME NEW p \in Purchases PROVE DeliveredFor(p) \in Int
  OBVIOUS
<1>1. PICK S : S = {x \in deliveries : x.po = p}
  OBVIOUS
<1>2. IsFiniteSet(S) /\ S \subseteq deliveries
  BY <1>1, FS_Subset
<1>3. PICK f : f = [x \in S |-> x.qty]
  OBVIOUS
<1>4. f = [x \in S |-> f[x]] /\ \A x \in S : f[x] \in Int
  BY <1>2, <1>3 DEF Pallets
<1>5. SumFunction(f) \in Int
  BY <1>2, <1>4, SumTyped
<1> QED
  BY <1>1, <1>3, <1>5 DEF DeliveredFor

(* One requisition's loads grew by n, the others' stayed. *)
LEMMA SentMoves ==
    ASSUME \A q \in Reqs : SentFor(q) \in Int, NEW r \in Reqs, NEW n \in Int,
           SentFor(r)' = SentFor(r) + n, \A q \in Reqs : q # r => SentFor(q)' = SentFor(q)
    PROVE  SentOut' = SentOut + n /\ SentOut \in Int
<1>1. PICK f : f = [q \in Reqs |-> SentFor(q)]
  OBVIOUS
<1>2. PICK g : g = [q \in Reqs |-> SentFor(q)']
  OBVIOUS
<1>3. f \in [Reqs -> Int] /\ f[r] = SentFor(r)
  BY <1>1
<1>4. PICK v \in Int : v = f[r] + n
  BY <1>3
<1>5. g = [f EXCEPT ![r] = v]
  <2>1. g[r] = v
    BY <1>2, <1>3, <1>4
  <2>2. \A q \in Reqs : q # r => g[q] = f[q]
    BY <1>1, <1>2
  <2> QED
    BY <1>1, <1>2, <2>1, <2>2
<1>6. SumFunction(f) \in Int /\ SumFunction(g) = SumFunction(f) - f[r] + v
  BY <1>3, <1>5, EntryMoves, WarehouseIsFinite
<1>7. SentOut = SumFunction(f) /\ SentOut' = SumFunction(g)
  BY <1>1, <1>2 DEF SentOut
<1> QED
  BY <1>3, <1>4, <1>6, <1>7

LEMMA DeliveredMoves ==
    ASSUME \A p \in Purchases : DeliveredFor(p) \in Int, NEW r \in Purchases, NEW n \in Int,
           DeliveredFor(r)' = DeliveredFor(r) + n,
           \A p \in Purchases : p # r => DeliveredFor(p)' = DeliveredFor(p)
    PROVE  DeliveredIn' = DeliveredIn + n /\ DeliveredIn \in Int
<1>1. PICK f : f = [p \in Purchases |-> DeliveredFor(p)]
  OBVIOUS
<1>2. PICK g : g = [p \in Purchases |-> DeliveredFor(p)']
  OBVIOUS
<1>3. f \in [Purchases -> Int] /\ f[r] = DeliveredFor(r)
  BY <1>1
<1>4. PICK v \in Int : v = f[r] + n
  BY <1>3
<1>5. g = [f EXCEPT ![r] = v]
  <2>1. g[r] = v
    BY <1>2, <1>3, <1>4
  <2>2. \A p \in Purchases : p # r => g[p] = f[p]
    BY <1>1, <1>2
  <2> QED
    BY <1>1, <1>2, <2>1, <2>2
<1>6. SumFunction(f) \in Int /\ SumFunction(g) = SumFunction(f) - f[r] + v
  BY <1>3, <1>5, EntryMoves, WarehouseIsFinite
<1>7. DeliveredIn = SumFunction(f) /\ DeliveredIn' = SumFunction(g)
  BY <1>1, <1>2 DEF DeliveredIn
<1> QED
  BY <1>3, <1>4, <1>6, <1>7

(* One batch more is made. *)
LEMMA MadeMoves ==
    ASSUME NEW b \in Batches, ~batch[b].made, batch'[b].made,
           \A c \in Batches \ {b} : batch'[c].made = batch[c].made
    PROVE  MadeNow' = MadeNow + 1 /\ MadeNow \in Nat
<1>1. PICK S : S = {c \in Batches : batch[c].made}
  OBVIOUS
<1>2. {c \in Batches : batch'[c].made} = S \cup {b} /\ b \notin S
  BY <1>1
<1>3. IsFiniteSet(S)
  BY <1>1, FS_Subset, WarehouseIsFinite
<1>4. MadeNow = Cardinality(S) /\ MadeNow' = Cardinality(S \cup {b})
  BY <1>1, <1>2 DEF MadeNow
<1> QED
  BY <1>2, <1>3, <1>4, FS_AddElement, FS_CardinalityType

LEMMA AccountsRest ==
    /\ UNCHANGED order => UNCHANGED <<ShippedOut, ClaimedNow>>
    /\ UNCHANGED loads => UNCHANGED SentOut
    /\ UNCHANGED landed => UNCHANGED LandedIn
    /\ UNCHANGED deliveries => UNCHANGED DeliveredIn
    /\ UNCHANGED drawn => UNCHANGED DrawnOut
    /\ UNCHANGED batch => UNCHANGED MadeNow
    /\ UNCHANGED scrapped => UNCHANGED ScrappedOut
    /\ UNCHANGED hold => UNCHANGED HeldNow
<1>1. ASSUME UNCHANGED order PROVE UNCHANGED <<ShippedOut, ClaimedNow>>
  BY <1>1 DEF ShippedOut, ClaimedNow, Shipped, Unreleased, Exists
<1>2. ASSUME UNCHANGED loads PROVE UNCHANGED SentOut
  BY <1>2 DEF SentOut, SentFor
<1>3. ASSUME UNCHANGED deliveries PROVE UNCHANGED DeliveredIn
  BY <1>3 DEF DeliveredIn, DeliveredFor
<1>4. ASSUME UNCHANGED batch PROVE UNCHANGED MadeNow
  BY <1>4 DEF MadeNow
<1>5. UNCHANGED landed => UNCHANGED LandedIn
  BY DEF LandedIn
<1>6. UNCHANGED drawn => UNCHANGED DrawnOut
  BY DEF DrawnOut
<1>7. UNCHANGED scrapped => UNCHANGED ScrappedOut
  BY DEF ScrappedOut
<1>8. UNCHANGED hold => UNCHANGED HeldNow
  BY DEF HeldNow
<1> QED
  BY <1>1, <1>2, <1>3, <1>4, <1>5, <1>6, <1>7, <1>8

Levels == [quantity : Int, reserved : Int]
BatchRows == [made : BOOLEAN, left : Int, flagged : BOOLEAN]
QuarantineRows == [id : Nat, batch : Batches, status : {"HELD", "REWORK", "RELEASED", "REJECTED"}, qty : Nat]

TasksOK == \A k \in tasks : "row" \in DOMAIN k /\ k.row \in Rows

StockTypeOK ==
    /\ level \in [Rows -> Levels] /\ byHand \in [Rows -> Int] /\ shelved \in [Rows -> Int]
    /\ batch \in [Batches -> BatchRows] /\ scrapped \in [Batches -> Int] /\ hold \in [Batches -> Nat]
    /\ IsFiniteSet(records) /\ records \subseteq QuarantineRows /\ \A q \in records : batch[q.batch].made
    /\ \A b \in Batches : ~batch[b].made => hold[b] = 0
    /\ TasksOK

(* What a handler read, and what it found the row to allow. *)
StockJob(t) ==
    /\ t.op = "adjust" => /\ t.row \in Rows /\ t.n \in Int /\ t.saw \in Levels
                          /\ MayAdjust(t.saw, t.n)
    /\ t.op = "transfer" => /\ t.row \in Rows /\ t.to \in Rows /\ t.row # t.to /\ t.n \in Nat /\ t.saw \in Levels
                            /\ Available(t.saw) >= t.n
    /\ t.op = "send" => t.shelf \in Levels /\ t.n <= Available(t.shelf)
    /\ t.op = "stow" => t.shelf \in Levels
    /\ t.op = "output" => t.batch \in Batches /\ ~batch[t.batch].made
    /\ t.op \in {"hold", "release", "holding", "releasing", "decide"} =>
           t.batch \in Batches /\ batch[t.batch].made /\ t.n \in Nat
    /\ t.op \in {"holding", "releasing", "decide"} => t.saw \in Levels
    /\ t.op = "holding" => t.wanted \in Nat
    /\ t.op = "decide" => t.left \in Int /\ t.to \in {"REWORK", "REJECTED"}
    /\ t.op \in {"receiving", "summing"} => t.task.row \in Rows /\ t.n \in Nat

OutputsOnce == \A i, k \in Jobs :
    job[i].op = "output" /\ job[k].op = "output" /\ job[i].batch = job[k].batch => i = k
OutputsAlone(t, j) == t.op = "output" => \A i \in Jobs \ {j} : ~(job[i].op = "output" /\ job[i].batch = t.batch)
OnlyMakes(j) == \A b \in Batches :
    /\ batch[b].made => batch'[b].made
    /\ ~batch[b].made => ~batch'[b].made \/ (job[j].op = "output" /\ job[j].batch = b)

CheckedInv ==
    /\ StockTypeOK /\ JobsOK /\ OutputsOnce
    /\ \A j \in Jobs : StockJob(job[j])

Books == OnHandIsExplained /\ ReservedIsSpokenFor /\ NeverOversold

LEMMA IdleStock == StockJob(Idle)
BY DEF StockJob, Idle

LEMMA StockJobStays ==
    ASSUME NEW t, StockJob(t), NEW j, OnlyMakes(j),
           t.op = "output" => ~(job[j].op = "output" /\ job[j].batch = t.batch)
    PROVE  StockJob(t)'
<1>1. t.op = "output" => t.batch \in Batches /\ ~batch'[t.batch].made
  BY DEF StockJob, OnlyMakes
<1>2. t.op \in {"hold", "release", "holding", "releasing", "decide"} =>
          t.batch \in Batches /\ batch'[t.batch].made /\ t.n \in Nat
  BY DEF StockJob, OnlyMakes
<1>3. /\ t.op = "adjust" => /\ t.row \in Rows /\ t.n \in Int /\ t.saw \in Levels
                            /\ MayAdjust(t.saw, t.n)
      /\ t.op = "transfer" => /\ t.row \in Rows /\ t.to \in Rows /\ t.row # t.to /\ t.n \in Nat /\ t.saw \in Levels
                              /\ Available(t.saw) >= t.n
      /\ t.op = "send" => t.shelf \in Levels /\ t.n <= Available(t.shelf)
      /\ t.op = "stow" => t.shelf \in Levels
      /\ t.op \in {"holding", "releasing", "decide"} => t.saw \in Levels
      /\ t.op = "holding" => t.wanted \in Nat
      /\ t.op = "decide" => t.left \in Int /\ t.to \in {"REWORK", "REJECTED"}
      /\ t.op \in {"receiving", "summing"} => t.task.row \in Rows /\ t.n \in Nat
  BY Zenon DEF StockJob
<1> QED
  BY <1>1, <1>2, <1>3, Zenon DEF StockJob

LEMMA StockJobs ==
    ASSUME CheckedInv, StockTypeOK', NEW j \in Jobs, OnlyMakes(j),
           NEW t, job' = [job EXCEPT ![j] = t], StockJob(t)', OutputsAlone(t, j)
    PROVE  CheckedInv'
<1>1. \A i \in Jobs : job'[i] = IF i = j THEN t ELSE job[i]
  BY DEF CheckedInv, JobsOK
<1>2. ASSUME NEW i \in Jobs PROVE StockJob(job[i])'
  <2>1. CASE i = j
    <3>1. job'[i] = t
      BY <1>1, <2>1
    <3> QED
      BY <3>1 DEF StockJob
  <2>2. CASE i # j
    <3>1. PICK k : k = job[i]
      OBVIOUS
    <3>2. job'[i] = k /\ StockJob(k)
      BY <1>1, <2>2, <3>1 DEF CheckedInv
    <3>3. k.op = "output" => ~(job[j].op = "output" /\ job[j].batch = k.batch)
      BY <2>2, <3>1 DEF CheckedInv, OutputsOnce
    <3>4. StockJob(k)'
      BY <3>2, <3>3, StockJobStays
    <3> QED
      BY <3>2, <3>4 DEF StockJob
  <2> QED
    BY <2>1, <2>2
<1>3. OutputsOnce'
  BY <1>1 DEF CheckedInv, OutputsOnce, OutputsAlone
<1>4. JobsOK'
  BY DEF CheckedInv, JobsOK
<1> QED
  BY <1>2, <1>3, <1>4 DEF CheckedInv

LEMMA StockTyped ==
    ASSUME CheckedInv
    PROVE  /\ level \in [Rows -> Levels] /\ byHand \in [Rows -> Int] /\ shelved \in [Rows -> Int]
           /\ batch \in [Batches -> BatchRows] /\ scrapped \in [Batches -> Int] /\ hold \in [Batches -> Nat]
           /\ IsFiniteSet(records) /\ records \subseteq QuarantineRows
           /\ \A q \in records : batch[q.batch].made
           /\ \A b \in Batches : ~batch[b].made => hold[b] = 0
           /\ TasksOK /\ \A j \in Jobs : StockJob(job[j])
BY DEF CheckedInv, StockTypeOK

(* Steps that touch no batch and no task. *)
LEMMA CheckedMoves ==
    ASSUME CheckedInv, NEW j \in Jobs, NEW t, job' = [job EXCEPT ![j] = t], StockJob(t), OutputsAlone(t, j),
           level' \in [Rows -> Levels], byHand' \in [Rows -> Int],
           UNCHANGED <<shelved, batch, scrapped, hold, records, tasks>>
    PROVE  CheckedInv'
<1>1. StockTypeOK'
  BY StockTyped DEF StockTypeOK, TasksOK
<1>2. OnlyMakes(j)
  BY DEF OnlyMakes
<1>3. StockJob(t)'
  BY Zenon DEF StockJob
<1> QED
  BY <1>1, <1>2, <1>3, StockJobs

LEMMA ShiftedRow ==
    ASSUME NEW f \in [Rows -> Levels], NEW s \in Rows, NEW q \in Int, NEW v \in Int,
           NEW g, g = [f EXCEPT ![s] = Shift(@, q, v)]
    PROVE  /\ g \in [Rows -> Levels]
           /\ g[s].quantity = f[s].quantity + q /\ g[s].reserved = f[s].reserved + v
           /\ \A r \in Rows \ {s} : g[r] = f[r]
<1>1. PICK l \in Levels : l = f[s]
  OBVIOUS
<1>2. PICK e : e = [l EXCEPT !.quantity = @ + q, !.reserved = @ + v]
  OBVIOUS
<1>3. g = [f EXCEPT ![s] = e]
  BY <1>1, <1>2 DEF Shift
<1>4. e.quantity = l.quantity + q /\ e.reserved = l.reserved + v
  BY <1>2 DEF Levels
<1>5. e \in Levels
  <2>1. l.quantity \in Int /\ l.reserved \in Int
    BY DEF Levels
  <2>2. l.quantity + q \in Int /\ l.reserved + v \in Int
    BY <2>1
  <2>3. e = [quantity |-> l.quantity + q, reserved |-> l.reserved + v]
    BY <1>2 DEF Levels
  <2> QED
    BY <2>2, <2>3 DEF Levels
<1> QED
  BY <1>1, <1>3, <1>4, <1>5

LEMMA RowShifts ==
    ASSUME level \in [Rows -> Levels], NEW s \in Rows, NEW q \in Int, NEW v \in Int,
           level' = [level EXCEPT ![s] = Shift(@, q, v)]
    PROVE  /\ level' \in [Rows -> Levels]
           /\ level'[s].quantity = level[s].quantity + q /\ level'[s].reserved = level[s].reserved + v
           /\ \A r \in Rows \ {s} : level'[r] = level[r]
BY ShiftedRow

(* A row is given the quantity somebody read in it and counted on from. *)
LEMMA RowOverwritten ==
    ASSUME level \in [Rows -> Levels], NEW s \in Rows, NEW saw \in Levels, NEW d \in Int, Overwrite(s, saw, d)
    PROVE  /\ level' \in [Rows -> Levels]
           /\ level'[s].quantity = saw.quantity + d /\ level'[s].reserved = level[s].reserved
           /\ \A r \in Rows \ {s} : level'[r] = level[r]
           /\ s \notin lost' => level[s].quantity = saw.quantity
           /\ s \notin raced' => level[s] = saw
<1>1. PICK l \in Levels : l = level[s]
  OBVIOUS
<1>2. PICK n \in Int : n = saw.quantity + d
  BY DEF Levels
<1>3. PICK e : e = [l EXCEPT !.quantity = n]
  OBVIOUS
<1>4. level' = [level EXCEPT ![s] = e]
  BY <1>1, <1>2, <1>3 DEF Overwrite
<1>5. e = [quantity |-> n, reserved |-> l.reserved] /\ l.reserved \in Int
  BY <1>3 DEF Levels
<1>6. e \in Levels /\ e.quantity = n /\ e.reserved = l.reserved
  BY <1>5 DEF Levels
<1>7. s \notin lost' => level[s].quantity = saw.quantity
  BY DEF Overwrite
<1>8. s \notin raced' => level[s] = saw
  BY DEF Overwrite, Stale
<1> QED
  BY <1>1, <1>2, <1>4, <1>6, <1>7, <1>8

----------------------------------------------------------------------------
(* The rows, as every desk writes them. *)
StockOps == {"adjust", "transfer", "send", "stow", "output", "hold", "release", "holding", "releasing", "decide",
             "receiving", "summing"}

DesksInv == OrderInv /\ ReqInv /\ PurchaseInv /\ MaterialInv /\ CheckedInv

(* A handler of a desk that reads no shelf and touches no batch and no task. *)
LEMMA LooksAtNoShelf ==
    ASSUME NEW t, t.op \notin StockOps, NEW j
    PROVE  StockJob(t) /\ OutputsAlone(t, j)
BY DEF StockJob, OutputsAlone, StockOps

LEMMA LevelMoves ==
    ASSUME CheckedInv, NEW j \in Jobs, NEW ops, Works(j, ops), ops \cap StockOps = {},
           level' \in [Rows -> Levels], byHand' \in [Rows -> Int],
           UNCHANGED <<shelved, batch, scrapped, hold, records, tasks>>
    PROVE  CheckedInv'
<1>1. PICK t : t.op \in ops \cup {"idle"} /\ job' = [job EXCEPT ![j] = t]
  BY DEF Works
<1>2. t.op \notin StockOps
  BY <1>1 DEF StockOps
<1>3. StockJob(t) /\ OutputsAlone(t, j)
  BY <1>2, LooksAtNoShelf
<1> QED
  BY <1>1, <1>3, CheckedMoves

LEMMA ByHandTyped == CheckedInv => byHand \in [Rows -> Int] /\ level \in [Rows -> Levels]
BY StockTyped

LEMMA OrderRow ==
    ASSUME NEW o \in Orders
    PROVE  Shelf \in Rows /\ OrderQty[o] \in Nat
BY OrderAssumption

LEMMA PlacesTyped ==
    ASSUME DesksInv, NEW j \in Jobs, PlaceOrder(j)
    PROVE  level' \in [Rows -> Levels]
<1>1. OrderJob(job[j]) /\ job[j].op = "create"
  BY OrderTyped DEF DesksInv, PlaceOrder, Doing
<1>2. job[j].order \in Orders
  BY <1>1 DEF OrderJob
<1>3. PICK n \in Int : n = OrderQty[job[j].order]
  BY <1>2, OrderRow
<1>6. PICK z \in Int : z = 0
  OBVIOUS
<1>4. level' = [level EXCEPT ![Shelf] = Shift(@, z, n)]
  BY <1>3, <1>6 DEF PlaceOrder, ClaimStock
<1>5. Shelf \in Rows /\ level \in [Rows -> Levels]
  BY <1>2, OrderRow, ByHandTyped DEF DesksInv
<1> QED
  BY <1>4, <1>5, RowShifts

LEMMA TransitionTyped ==
    ASSUME DesksInv, NEW j \in Jobs, Transition(j)
    PROVE  level' \in [Rows -> Levels]
<1>1. OrderJob(job[j]) /\ job[j].op = "transition"
  BY OrderTyped DEF DesksInv, Transition, Doing
<1>2. job[j].order \in Orders
  BY <1>1 DEF OrderJob
<1>3. PICK n \in Nat : n = OrderQty[job[j].order]
  BY <1>2, OrderRow
<1>4. StockEffect(job[j].to, n)
  BY <1>3 DEF Transition
<1>9. PICK z \in Int, m \in Int : z = 0 /\ m = -n
  BY <1>3
<1>5. \/ level' = [level EXCEPT ![Shelf] = Shift(@, m, m)]
      \/ level' = [level EXCEPT ![Shelf] = Shift(@, z, m)]
      \/ level' = level
  BY <1>4, <1>9 DEF StockEffect
<1>6. Shelf \in Rows /\ level \in [Rows -> Levels] 
  BY <1>2, <1>3, OrderRow, ByHandTyped DEF DesksInv
<1>7. CASE level' = [level EXCEPT ![Shelf] = Shift(@, m, m)]
  BY <1>6, <1>7, RowShifts
<1>8. CASE level' = [level EXCEPT ![Shelf] = Shift(@, z, m)]
  BY <1>6, <1>8, RowShifts
<1> QED
  BY <1>5, <1>6, <1>7, <1>8

LEMMA OrdersLevel ==
    ASSUME NEW j, OrderStep(j)
    PROVE  PlaceOrder(j) \/ Transition(j) \/ UNCHANGED level
<1>1. ASSUME NEW o, NEW x, ValidateCoupon(j, o, x) \/ ReadForTransition(j, o, x) \/ ReadForRefund(j, o)
                           \/ ReadForPayment(j, o, x)
      PROVE  UNCHANGED level
  BY <1>1 DEF ValidateCoupon, ReadForTransition, ReadForRefund, ReadForPayment, stockVars
<1>2. Refund(j) \/ RecordPayment(j) => UNCHANGED level
  BY DEF Refund, RecordPayment
<1> QED
  BY <1>1, <1>2, Zenon DEF OrderStep

LEMMA OrdersByHand ==
    ASSUME NEW j, OrderStep(j)
    PROVE  UNCHANGED byHand
<1>1. ASSUME NEW o, NEW x, ValidateCoupon(j, o, x) \/ ReadForTransition(j, o, x) \/ ReadForRefund(j, o)
                           \/ ReadForPayment(j, o, x)
      PROVE  UNCHANGED byHand
  BY <1>1 DEF ValidateCoupon, ReadForTransition, ReadForRefund, ReadForPayment, stockVars
<1>2. Refund(j) \/ RecordPayment(j) \/ PlaceOrder(j) \/ Transition(j) => UNCHANGED byHand
  BY DEF Refund, RecordPayment, PlaceOrder, Transition
<1> QED
  BY <1>1, <1>2, Zenon DEF OrderStep

LEMMA CouriersLevel ==
    ASSUME NEW j, CourierStep(j)
    PROVE  UNCHANGED <<level, byHand>>
<1>1. ASSUME NEW o, NEW s, NEW e, \/ ReadForBooking(j, o) \/ BookShipment(j, o, s)
                                  \/ SetShipmentStatus(j, o, s) \/ Callback(j, o, s, e)
      PROVE  UNCHANGED <<level, byHand>>
  BY <1>1 DEF ReadForBooking, BookShipment, SetShipmentStatus, Callback, stockVars
<1>2. RecordEvent(j) \/ FollowEvent(j) \/ ReadForProjection(j) \/ PushOrder(j) => UNCHANGED <<level, byHand>>
  BY DEF RecordEvent, FollowEvent, ReadForProjection, PushOrder, stockVars
<1> QED
  BY <1>1, <1>2, Zenon DEF CourierStep

LEMMA OrdersChecked ==
    ASSUME DesksInv, NEW j \in Jobs, AtOrders(j) \/ AtCouriers(j)
    PROVE  CheckedInv'
<1>1. UNCHANGED <<shelved, batch, scrapped, hold, records, tasks>>
  BY DEF AtOrders, AtCouriers, StoresRest, batchVars, goodsVars
<1>2. CheckedInv /\ level \in [Rows -> Levels] /\ byHand \in [Rows -> Int]
  BY ByHandTyped DEF DesksInv
<1>3. CASE AtOrders(j)
  <2>1. OrderStep(j)
    BY <1>3 DEF AtOrders
  <2>2. level' \in [Rows -> Levels] /\ byHand' \in [Rows -> Int]
    BY <1>2, <2>1, PlacesTyped, TransitionTyped, OrdersLevel, OrdersByHand
  <2>3. OrderOps \cap StockOps = {}
    BY DEF OrderOps, StockOps
  <2> QED
    BY <1>1, <1>2, <2>1, <2>2, <2>3, OrdersWork, LevelMoves
<1>4. CASE AtCouriers(j)
  <2>1. CourierStep(j)
    BY <1>4 DEF AtCouriers
  <2>2. level' \in [Rows -> Levels] /\ byHand' \in [Rows -> Int]
    BY <1>2, <2>1, CouriersLevel
  <2>3. CourierOps \cap StockOps = {}
    BY DEF CourierOps, StockOps
  <2> QED
    BY <1>1, <1>2, <2>1, <2>2, <2>3, CouriersWork, LevelMoves
<1> QED
  BY <1>3, <1>4

(* Requisitions *)
LEMMA RequisitionsOffShelf ==
    ASSUME NEW j, ReqStep(j), ~RecheckShelf(j)
    PROVE  Works(j, {"review", "dispatch", "land"})
<1> DEFINE W == Works(j, {"review", "dispatch", "land"})
<1> USE DEF Works, Start, Finish, Idle, HistoryGrows, stockVars
<1>1. ASSUME NEW r, NEW to, NEW n, ReadForReview(j, r, to, n) PROVE W
  BY <1>1 DEF ReadForReview
<1>2. Review(j) => W
  BY DEF Review, Overtook
<1>3. ASSUME NEW r, NEW n, NEW k, ReadForDispatch(j, r, n, k) PROVE W
  BY <1>3 DEF ReadForDispatch
<1>4. Dispatch(j) => W
  BY DEF Dispatch, Overtook
<1>5. ASSUME NEW r, NEW n, NEW k, ReadForReceipt(j, r, n, k) PROVE W
  BY <1>5 DEF ReadForReceipt
<1>6. Receive(j) => W
  BY DEF Receive, Overtook
<1> HIDE DEF W
<1>7. W
  BY <1>1, <1>2, <1>3, <1>4, <1>5, <1>6, Zenon DEF ReqStep
<1> QED
  BY <1>7 DEF W

LEMMA RequisitionsLevel ==
    ASSUME NEW j, ReqStep(j)
    PROVE  UNCHANGED byHand /\ (Dispatch(j) \/ Receive(j) \/ UNCHANGED level)
<1> DEFINE W == UNCHANGED <<level, byHand>>
<1>1. ASSUME NEW r, NEW n, NEW k, \/ ReadForReview(j, r, k, n) \/ ReadForDispatch(j, r, n, k)
                                  \/ ReadForReceipt(j, r, n, k)
      PROVE  W
  BY <1>1 DEF ReadForReview, ReadForDispatch, ReadForReceipt, stockVars
<1>2. Review(j) \/ RecheckShelf(j) => W
  BY DEF Review, RecheckShelf, stockVars
<1>3. Dispatch(j) \/ Receive(j) => UNCHANGED byHand
  BY DEF Dispatch, Receive
<1> HIDE DEF W
<1>4. W \/ Dispatch(j) \/ Receive(j)
  BY <1>1, <1>2, Zenon DEF ReqStep
<1> QED
  BY <1>3, <1>4 DEF W

LEMMA DispatchShifts ==
    ASSUME DesksInv, NEW j \in Jobs, Dispatch(j)
    PROVE  /\ job[j].req \in Reqs /\ Source \in Rows /\ Source # Destination
           /\ \E n, m, z \in Int : /\ n = job[j].n /\ n > 0 /\ m = -n /\ z = 0
                                   /\ level' = [level EXCEPT ![Source] = Shift(@, m, z)]
<1>1. ReqJob(job[j]) /\ job[j].op = "send"
  BY ReqTyped DEF DesksInv, Dispatch, Doing
<1>2. job[j].req \in Reqs /\ job[j].n \in Nat \ {0}
  BY <1>1 DEF ReqJob, ReqOps
<1>3. Source \in Rows /\ Source # Destination
  BY <1>2, RequisitionAssumption
<1>4. PICK n \in Int, m \in Int, z \in Int : n = job[j].n /\ n > 0 /\ m = -n /\ z = 0
  BY <1>2
<1>5. level' = [level EXCEPT ![Source] = Shift(@, m, z)]
  BY <1>4 DEF Dispatch
<1> QED
  BY <1>2, <1>3, <1>4, <1>5

LEMMA ReceiveShifts ==
    ASSUME DesksInv, NEW j \in Jobs, Receive(j)
    PROVE  /\ job[j].req \in Reqs /\ Destination \in Rows /\ Source # Destination
           /\ \E n \in Int, z \in Int : /\ n = job[j].n /\ n > 0 /\ z = 0
                                        /\ level' = [level EXCEPT ![Destination] = Shift(@, n, z)]
<1>1. ReqJob(job[j]) /\ job[j].op = "land"
  BY ReqTyped DEF DesksInv, Receive, Doing
<1>2. job[j].req \in Reqs /\ job[j].n \in Nat \ {0}
  BY <1>1 DEF ReqJob, ReqOps
<1>3. Destination \in Rows /\ Source # Destination
  BY <1>2, RequisitionAssumption
<1>4. PICK n \in Int, z \in Int : n = job[j].n /\ n > 0 /\ z = 0
  BY <1>2
<1>5. level' = [level EXCEPT ![Destination] = Shift(@, n, z)]
  BY <1>4 DEF Receive
<1> QED
  BY <1>2, <1>3, <1>4, <1>5

LEMMA RequisitionsChecked ==
    ASSUME DesksInv, NEW j \in Jobs, AtRequisitions(j)
    PROVE  CheckedInv'
<1>1. ReqStep(j) /\ UNCHANGED <<shelved, batch, scrapped, hold, records, tasks>>
  BY DEF AtRequisitions, batchVars, goodsVars
<1>2. CheckedInv /\ level \in [Rows -> Levels] /\ byHand \in [Rows -> Int]
  BY ByHandTyped DEF DesksInv
<1>3. level' \in [Rows -> Levels]
  <2>1. CASE Dispatch(j)
    <3>1. PICK m \in Int, z \in Int : level' = [level EXCEPT ![Source] = Shift(@, m, z)] /\ Source \in Rows
      BY <2>1, DispatchShifts
    <3> QED
      BY <3>1, <1>2, RowShifts
  <2>2. CASE Receive(j)
    <3>1. PICK n \in Int, z \in Int : level' = [level EXCEPT ![Destination] = Shift(@, n, z)] /\ Destination \in Rows
      BY <2>2, ReceiveShifts
    <3> QED
      BY <3>1, <1>2, RowShifts
  <2> QED
    BY <1>1, <1>2, <2>1, <2>2, RequisitionsLevel
<1>4. byHand' \in [Rows -> Int]
  BY <1>1, <1>2, RequisitionsLevel
<1>5. CASE RecheckShelf(j)
  <2>1. PICK t : t = [op |-> "send", req |-> job[j].req, n |-> job[j].n, key |-> job[j].key, saw |-> job[j].saw,
                      shelf |-> level[Source]]
    OBVIOUS
  <2>2. job' = [job EXCEPT ![j] = t] /\ job[j].n <= Available(level[Source]) /\ job[j].op = "dispatch"
    BY <1>5, <2>1 DEF RecheckShelf, Goes, Doing
  <2>3. job[j].req \in Reqs
    BY <2>2, ReqTyped DEF DesksInv, ReqJob, ReqOps
  <2>4. level[Source] \in Levels
    BY <1>2, <2>3, RequisitionAssumption
  <2>5. t.op = "send" /\ t.shelf = level[Source] /\ t.n = job[j].n
    BY <2>1
  <2>6. StockJob(t) /\ OutputsAlone(t, j)
    BY <2>2, <2>4, <2>5 DEF StockJob, OutputsAlone
  <2> QED
    BY <1>1, <1>2, <1>3, <1>4, <2>2, <2>6, CheckedMoves
<1>6. CASE ~RecheckShelf(j)
  <2>1. {"review", "dispatch", "land"} \cap StockOps = {}
    BY DEF StockOps
  <2> QED
    BY <1>1, <1>2, <1>3, <1>4, <1>6, <2>1, RequisitionsOffShelf, LevelMoves
<1> QED
  BY <1>5, <1>6

(* Purchasing *)
LEMMA PurchasingOffShelf ==
    ASSUME NEW j, PurchaseStep(j), ~CountShelf(j)
    PROVE  Works(j, {"move", "deliver"})
<1> DEFINE W == Works(j, {"move", "deliver"})
<1> USE DEF Works, Start, Finish, Idle, HistoryGrows, stockVars
<1>1. ASSUME NEW p, NEW to, ReadForMove(j, p, to) PROVE W
  BY <1>1 DEF ReadForMove
<1>2. MovePurchase(j) => W
  BY DEF MovePurchase, OvertookPurchase
<1>3. ASSUME NEW p, NEW n, NEW k, ReadForDelivery(j, p, n, k) PROVE W
  BY <1>3 DEF ReadForDelivery
<1>4. BookDelivery(j) => W
  BY DEF BookDelivery, OvertookPurchase, Overwrite
<1> HIDE DEF W
<1>5. W
  BY <1>1, <1>2, <1>3, <1>4, Zenon DEF PurchaseStep
<1> QED
  BY <1>5 DEF W

LEMMA PurchasingLevel ==
    ASSUME NEW j, PurchaseStep(j)
    PROVE  UNCHANGED byHand /\ (BookDelivery(j) \/ UNCHANGED level)
<1> DEFINE W == UNCHANGED <<level, byHand>>
<1>1. ASSUME NEW p, NEW n, NEW k, ReadForMove(j, p, n) \/ ReadForDelivery(j, p, n, k)
      PROVE  W
  BY <1>1 DEF ReadForMove, ReadForDelivery, stockVars
<1>2. MovePurchase(j) \/ CountShelf(j) => W
  BY DEF MovePurchase, CountShelf, stockVars
<1>3. BookDelivery(j) => UNCHANGED byHand
  BY DEF BookDelivery
<1> HIDE DEF W
<1>4. W \/ BookDelivery(j)
  BY <1>1, <1>2, Zenon DEF PurchaseStep
<1> QED
  BY <1>3, <1>4 DEF W

LEMMA DeliveryShelves ==
    ASSUME DesksInv, NEW j \in Jobs, BookDelivery(j)
    PROVE  /\ job[j].po \in Purchases /\ Dock \in Rows /\ job[j].n \in Nat /\ job[j].shelf \in Levels
           /\ Overwrite(Dock, job[j].shelf, job[j].n)
<1>1. PurchaseJob(job[j]) /\ StockJob(job[j]) /\ job[j].op = "stow"
  BY PurchaseTyped, StockTyped DEF DesksInv, BookDelivery, Doing
<1>2. job[j].po \in Purchases /\ job[j].n \in Nat
  BY <1>1 DEF PurchaseJob, PurchaseOps
<1>3. job[j].shelf \in Levels
  BY <1>1 DEF StockJob
<1> QED
  BY <1>2, <1>3, PurchaseAssumption DEF BookDelivery

LEMMA PurchasingChecked ==
    ASSUME DesksInv, NEW j \in Jobs, AtPurchasing(j)
    PROVE  CheckedInv'
<1>1. PurchaseStep(j) /\ UNCHANGED <<shelved, batch, scrapped, hold, records, tasks>>
  BY DEF AtPurchasing, batchVars, goodsVars
<1>2. CheckedInv /\ level \in [Rows -> Levels] /\ byHand \in [Rows -> Int]
  BY ByHandTyped DEF DesksInv
<1>3. level' \in [Rows -> Levels]
  <2>1. CASE BookDelivery(j)
    <3>1. PICK n \in Int : n = job[j].n
      BY <2>1, DeliveryShelves
    <3> QED
      BY <3>1, <1>2, <2>1, DeliveryShelves, RowOverwritten
  <2> QED
    BY <1>1, <1>2, <2>1, PurchasingLevel
<1>4. byHand' \in [Rows -> Int]
  BY <1>1, <1>2, PurchasingLevel
<1>5. CASE CountShelf(j)
  <2>1. PICK t : t = [op |-> "stow", po |-> job[j].po, n |-> job[j].n, key |-> job[j].key, saw |-> job[j].saw,
                      shelf |-> level[Dock]]
    OBVIOUS
  <2>2. job' = [job EXCEPT ![j] = t] /\ job[j].op = "deliver"
    BY <1>5, <2>1 DEF CountShelf, Goes, Doing
  <2>3. job[j].po \in Purchases
    BY <2>2, PurchaseTyped DEF DesksInv, PurchaseJob, PurchaseOps
  <2>4. level[Dock] \in Levels
    BY <1>2, <2>3, PurchaseAssumption
  <2>5. t.op = "stow" /\ t.shelf = level[Dock]
    BY <2>1
  <2>6. StockJob(t) /\ OutputsAlone(t, j)
    BY <2>4, <2>5 DEF StockJob, OutputsAlone
  <2> QED
    BY <1>1, <1>2, <1>3, <1>4, <2>2, <2>6, CheckedMoves
<1>6. CASE ~CountShelf(j)
  <2>1. {"move", "deliver"} \cap StockOps = {}
    BY DEF StockOps
  <2> QED
    BY <1>1, <1>2, <1>3, <1>4, <1>6, <2>1, PurchasingOffShelf, LevelMoves
<1> QED
  BY <1>5, <1>6

(* The shelf itself *)
LEMMA AdjustmentShelves ==
    ASSUME DesksInv, NEW j \in Jobs, AdjustStock(j)
    PROVE  \E s \in Rows, saw \in Levels, d \in Int :
               /\ Overwrite(s, saw, d) /\ MayAdjust(saw, d)
               /\ byHand' = [byHand EXCEPT ![s] = @ + d]
<1>1. StockJob(job[j]) /\ job[j].op = "adjust"
  BY StockTyped DEF DesksInv, AdjustStock, Doing
<1>2. job[j].row \in Rows /\ job[j].n \in Int /\ job[j].saw \in Levels /\ MayAdjust(job[j].saw, job[j].n)
  BY <1>1 DEF StockJob
<1>3. /\ Overwrite(job[j].row, job[j].saw, job[j].n)
      /\ byHand' = [byHand EXCEPT ![job[j].row] = @ + job[j].n]
  BY DEF AdjustStock
<1> QED
  BY <1>2, <1>3

(* A transfer takes n units from row a and puts them into row b.           *)
TakesAndPuts(a, b, n, saw) ==
    /\ a # b /\ Available(saw) >= n
    /\ level'[a].quantity = level[a].quantity - n /\ level'[a].reserved = level[a].reserved
    /\ level'[b].quantity = level[b].quantity + n /\ level'[b].reserved = level[b].reserved
    /\ \A r \in Rows \ {a, b} : level'[r] = level[r]
    /\ byHand'[a] = byHand[a] - n /\ byHand'[b] = byHand[b] + n
    /\ \A r \in Rows \ {a, b} : byHand'[r] = byHand[r]
    /\ raced' = raced \cup Stale(a, saw)

LEMMA TransferShelves ==
    ASSUME DesksInv, NEW j \in Jobs, CreateTransfer(j)
    PROVE  /\ level' \in [Rows -> Levels] /\ byHand' \in [Rows -> Int]
           /\ \E a \in Rows, b \in Rows, n \in Nat, saw \in Levels : TakesAndPuts(a, b, n, saw)
<1>1. StockJob(job[j]) /\ job[j].op = "transfer"
  BY StockTyped DEF DesksInv, CreateTransfer, Doing
<1>2. /\ job[j].row \in Rows /\ job[j].to \in Rows /\ job[j].row # job[j].to /\ job[j].n \in Nat
      /\ job[j].saw \in Levels /\ Available(job[j].saw) >= job[j].n
  BY <1>1 DEF StockJob
<1>3. PICK a \in Rows, b \in Rows, n \in Nat, saw \in Levels :
          a = job[j].row /\ b = job[j].to /\ n = job[j].n /\ saw = job[j].saw
  BY <1>2
<1>4. PICK m \in Int, k \in Int, z \in Int : m = -n /\ k = n /\ z = 0
  OBVIOUS
<1>5. /\ level' = [level EXCEPT ![a] = Shift(@, -n, 0), ![b] = Shift(@, n, 0)]
      /\ byHand' = [byHand EXCEPT ![a] = @ - n, ![b] = @ + n]
      /\ raced' = raced \cup Stale(a, saw)
  BY <1>3 DEF CreateTransfer
<1>6. level \in [Rows -> Levels] /\ byHand \in [Rows -> Int]
  BY ByHandTyped DEF DesksInv
<1>7. PICK f : f = [level EXCEPT ![a] = Shift(@, m, z)]
  OBVIOUS
<1>8. level' = [f EXCEPT ![b] = Shift(@, k, z)]
  <2>1. PICK x, y : x = Shift(level[a], -n, 0) /\ y = Shift(level[b], n, 0)
    OBVIOUS
  <2>2. level' = [level EXCEPT ![a] = x, ![b] = y]
    <3>1. a # b
      BY <1>2, <1>3
    <3> QED
      BY <2>1, <1>5, <1>6, <3>1
  <2>3. f = [level EXCEPT ![a] = x]
    BY <1>4, <1>7, <2>1
  <2>4. f[b] = level[b]
    BY <2>3, <1>2, <1>3, <1>6
  <2>5. y = Shift(f[b], k, z)
    BY <2>1, <2>4, <1>4
  <2> QED
    BY <2>2, <2>3, <2>5
<1>9. f \in [Rows -> Levels] /\ f[a].quantity = level[a].quantity + m /\ f[a].reserved = level[a].reserved + z
      /\ \A r \in Rows \ {a} : f[r] = level[r]
  BY <1>6, <1>7, ShiftedRow
<1>17. f \in [Rows -> Levels]
  BY <1>9
<1>10. level' \in [Rows -> Levels] /\ level'[b].quantity = f[b].quantity + k /\ level'[b].reserved = f[b].reserved + z
       /\ \A r \in Rows \ {b} : level'[r] = f[r]
  <2>1. PICK g : g = level'
    OBVIOUS
  <2>2. g = [f EXCEPT ![b] = Shift(@, k, z)]
    BY <1>8, <2>1
  <2>3. g \in [Rows -> Levels] /\ g[b].quantity = f[b].quantity + k /\ g[b].reserved = f[b].reserved + z
        /\ \A r \in Rows \ {b} : g[r] = f[r]
    BY <1>17, <2>2, ShiftedRow
  <2> QED
    BY <2>1, <2>3
<1>11. a # b /\ Available(saw) >= n
  BY <1>2, <1>3
<1>12. /\ byHand' \in [Rows -> Int]
       /\ byHand'[a] = byHand[a] - n /\ byHand'[b] = byHand[b] + n
       /\ \A r \in Rows \ {a, b} : byHand'[r] = byHand[r]
  BY <1>5, <1>6, <1>11
<1>13. /\ level'[a] = f[a] /\ f[b] = level[b] /\ \A r \in Rows \ {a, b} : level'[r] = level[r]
  BY <1>9, <1>10, <1>11
<1>14. /\ level[a].quantity \in Int /\ level[a].reserved \in Int
       /\ level[b].quantity \in Int /\ level[b].reserved \in Int
  BY <1>6 DEF Levels
<1>15. /\ level'[a].quantity = level[a].quantity - n /\ level'[a].reserved = level[a].reserved
       /\ level'[b].quantity = level[b].quantity + n /\ level'[b].reserved = level[b].reserved
  BY <1>4, <1>9, <1>10, <1>13, <1>14
<1>16. TakesAndPuts(a, b, n, saw)
  BY <1>5, <1>11, <1>12, <1>13, <1>15 DEF TakesAndPuts
<1> QED
  BY <1>10, <1>12, <1>16

LEMMA ShelfChecked ==
    ASSUME DesksInv, NEW j \in Jobs, AtShelf(j)
    PROVE  CheckedInv'
<1>1. StockStep(j) /\ UNCHANGED <<shelved, batch, scrapped, hold, records, tasks>>
  BY DEF AtShelf, StoresRest, batchVars, goodsVars
<1>2. CheckedInv /\ level \in [Rows -> Levels] /\ byHand \in [Rows -> Int]
  BY ByHandTyped DEF DesksInv
<1>3. ASSUME NEW r \in Rows, NEW d \in {-1, 1}, ReadForAdjust(j, r, d) PROVE CheckedInv'
  <2>1. PICK t : t = [op |-> "adjust", row |-> r, n |-> d, saw |-> level[r]]
    OBVIOUS
  <2>2. job' = [job EXCEPT ![j] = t] /\ UNCHANGED <<level, byHand>> /\ MayAdjust(level[r], d)
    BY <1>3, <2>1 DEF ReadForAdjust, Start
  <2>3. t.op = "adjust" /\ t.row = r /\ t.n = d /\ t.saw = level[r]
    BY <2>1
  <2>4. StockJob(t) /\ OutputsAlone(t, j)
    BY <1>2, <2>2, <2>3 DEF StockJob, OutputsAlone
  <2> QED
    BY <1>1, <1>2, <2>2, <2>4, CheckedMoves
<1>4. ASSUME NEW a \in Rows, NEW b \in Rows, ReadForTransfer(j, a, b, 1) PROVE CheckedInv'
  <2>1. PICK t : t = [op |-> "transfer", row |-> a, to |-> b, n |-> 1, saw |-> level[a]]
    OBVIOUS
  <2>2. job' = [job EXCEPT ![j] = t] /\ UNCHANGED <<level, byHand>> /\ a # b /\ Available(level[a]) >= 1
    BY <1>4, <2>1 DEF ReadForTransfer, Start
  <2>3. t.op = "transfer" /\ t.row = a /\ t.to = b /\ t.n = 1 /\ t.saw = level[a]
    BY <2>1
  <2>4. StockJob(t) /\ OutputsAlone(t, j)
    BY <1>2, <2>2, <2>3 DEF StockJob, OutputsAlone
  <2> QED
    BY <1>1, <1>2, <2>2, <2>4, CheckedMoves
<1>5. ASSUME AdjustStock(j) \/ CreateTransfer(j) PROVE CheckedInv'
  <2>1. Works(j, {})
    BY <1>5 DEF AdjustStock, CreateTransfer, Overwrite, Finish, Idle, Works, HistoryGrows
  <2>2. level' \in [Rows -> Levels] /\ byHand' \in [Rows -> Int]
    <3>1. CASE AdjustStock(j)
      <4>1. PICK s \in Rows, saw \in Levels, d \in Int :
                Overwrite(s, saw, d) /\ byHand' = [byHand EXCEPT ![s] = @ + d]
        BY <3>1, AdjustmentShelves
      <4>2. level' \in [Rows -> Levels]
        BY <1>2, <4>1, RowOverwritten
      <4>3. byHand[s] + d \in Int
        BY <1>2
      <4>4. byHand' \in [Rows -> Int]
        BY <1>2, <4>1, <4>3
      <4> QED
        BY <4>2, <4>4
    <3> QED
      BY <1>5, <3>1, TransferShelves
  <2> QED
    BY <1>1, <1>2, <2>1, <2>2, LevelMoves
<1> QED
  BY <1>1, <1>3, <1>4, <1>5 DEF StockStep

(* Production material *)
Draws(p, n) ==
    /\ MovementFits(level[Store], -n)
    /\ level' = [level EXCEPT ![Store] = Shift(@, -n, 0)]
    /\ drawn' = [drawn EXCEPT ![p] = @ + n]

LEMMA MaterialsDraw ==
    ASSUME DesksInv, NEW j \in Jobs, MaterialStep(j)
    PROVE  /\ UNCHANGED <<byHand, lost, raced, batchVars>>
           /\ UNCHANGED <<level, drawn>> \/ \E p \in Runs, n \in Int : Draws(p, n)
<1> DEFINE Quiet == UNCHANGED <<byHand, lost, raced, batchVars>>
           Moves == UNCHANGED <<level, drawn>> \/ \E p \in Runs, n \in Int : Draws(p, n)
<1> USE DEF stockVars, lineVars
<1>1. ASSUME NEW p, NEW to, NEW n, NEW k,
             \/ ReadForRun(j, p, to) \/ ReadForRequest(j, p) \/ ReadForApproval(j, p)
             \/ ReadForIssue(j, p, n, k) \/ ReadForConsume(j, p, n) \/ ReadForReturn(j, p, n)
             \/ ReadForReturnNote(j, p, n) \/ ReadForConfirm(j, p, k)
      PROVE  Quiet /\ Moves
  BY <1>1 DEF ReadForRun, ReadForRequest, ReadForApproval, ReadForIssue, ReadForConsume, ReadForReturn,
              ReadForReturnNote, ReadForConfirm
<1>2. ASSUME NEW s, NEW n, NEW k, NEW m,
             ReadForPick(j, s, m) \/ ReadForHandover(j, s, n, k) \/ ReadForLine(j, s, n, k)
      PROVE  Quiet /\ Moves
  BY <1>2 DEF ReadForPick, ReadForHandover, ReadForLine, ReadSlip
<1>3. MoveRun(j) \/ Consume(j) \/ Request(j) \/ Pick(j) \/ ReceiveOnLine(j) \/ DeclareReturn(j) => Quiet /\ Moves
  BY DEF MoveRun, Consume, Request, Pick, ReceiveOnLine, DeclareReturn
<1>4. MaterialJob(job[j]) /\ NoteJob(job[j])
  BY MaterialTyped DEF DesksInv
<1>5. Issue(j) => Quiet /\ Moves
  <2> SUFFICES ASSUME Issue(j) PROVE Quiet /\ Moves
    OBVIOUS
  <2>1. job[j].run \in Runs /\ job[j].n \in Nat
    BY <1>4 DEF Issue, Doing, MaterialJob
  <2>2. Draws(job[j].run, job[j].n)
    BY DEF Issue, Draw, Draws
  <2> QED
    BY <2>1, <2>2 DEF Issue
<1>6. ReturnToStore(j) => Quiet /\ Moves
  <2> SUFFICES ASSUME ReturnToStore(j) PROVE Quiet /\ Moves
    OBVIOUS
  <2>1. job[j].run \in Runs /\ job[j].n \in Nat
    BY <1>4 DEF ReturnToStore, Doing, MaterialJob
  <2>2. Draws(job[j].run, -job[j].n)
    BY DEF ReturnToStore, Draw, Draws
  <2> QED
    BY <2>1, <2>2 DEF ReturnToStore
<1>7. HandOver(j) => Quiet /\ Moves
  <2> SUFFICES ASSUME HandOver(j) PROVE Quiet /\ Moves
    OBVIOUS
  <2>1. job[j].slip.run \in Runs /\ job[j].n \in Nat
    BY <1>4 DEF HandOver, Doing, MaterialJob, NoteJob
  <2>2. Draws(job[j].slip.run, job[j].n)
    BY DEF HandOver, Draw, Draws
  <2>4. job[j].n \in Int
    BY <2>1
  <2>5. \E p \in Runs, n \in Int : Draws(p, n)
    BY <2>1, <2>2, <2>4
  <2>6. Quiet
    BY DEF HandOver
  <2> QED
    BY <2>5, <2>6
<1>8. ConfirmReturn(j) => Quiet /\ Moves
  <2> SUFFICES ASSUME ConfirmReturn(j) PROVE Quiet /\ Moves
    OBVIOUS
  <2>1. job[j].note \in ReturnNotes
    BY <1>4 DEF ConfirmReturn, Doing, MaterialJob
  <2>2. job[j].note.run \in Runs /\ job[j].note.n \in Nat
    BY <2>1 DEF ReturnNotes
  <2>3. Draws(job[j].note.run, -job[j].note.n)
    BY DEF ConfirmReturn, Draw, Draws
  <2>4. -job[j].note.n \in Int
    BY <2>2
  <2>5. \E p \in Runs, n \in Int : Draws(p, n)
    BY <2>2, <2>3, <2>4
  <2> QED
    BY <2>5 DEF ConfirmReturn
<1> HIDE DEF Quiet, Moves
<1>9. Quiet /\ Moves
  BY <1>1, <1>2, <1>3, <1>5, <1>6, <1>7, <1>8, Zenon DEF MaterialStep
<1> QED
  BY <1>9 DEF Quiet, Moves

LEMMA DrawShifts ==
    ASSUME NEW p \in Runs, NEW n \in Int, Draws(p, n)
    PROVE  Store \in Rows /\ \E m, z \in Int : m = -n /\ z = 0 /\ level' = [level EXCEPT ![Store] = Shift(@, m, z)]
<1>1. PICK m \in Int, z \in Int : m = -n /\ z = 0
  OBVIOUS
<1> QED
  BY <1>1, MaterialAssumption DEF Draws

LEMMA MaterialsChecked ==
    ASSUME DesksInv, NEW j \in Jobs, AtMaterials(j)
    PROVE  CheckedInv'
<1>1. MaterialStep(j) /\ UNCHANGED <<shelved, tasks>>
  BY DEF AtMaterials, goodsVars
<1>2. CheckedInv /\ level \in [Rows -> Levels] /\ byHand \in [Rows -> Int]
  BY ByHandTyped DEF DesksInv
<1>3. UNCHANGED <<byHand, batch, scrapped, hold, records>>
  BY <1>1, MaterialsDraw DEF batchVars
<1>4. level' \in [Rows -> Levels]
  <2>1. ASSUME NEW p \in Runs, NEW n \in Int, Draws(p, n) PROVE level' \in [Rows -> Levels]
    <3>1. PICK m \in Int, z \in Int : level' = [level EXCEPT ![Store] = Shift(@, m, z)] /\ Store \in Rows
      BY <2>1, DrawShifts
    <3> QED
      BY <1>2, <3>1, RowShifts
  <2> QED
    BY <1>1, <1>2, <2>1, MaterialsDraw
<1>5. MaterialOps \cap StockOps = {}
  BY DEF MaterialOps, StockOps
<1>6. byHand' \in [Rows -> Int]
  BY <1>2, <1>3
<1>7. UNCHANGED <<shelved, batch, scrapped, hold, records, tasks>>
  BY <1>1, <1>3
<1>8. Works(j, MaterialOps)
  BY <1>1, MaterialsWork
<1> QED
  BY <1>2, <1>4, <1>5, <1>6, <1>7, <1>8, LevelMoves

(* The handler dies, or nothing happens *)
LEMMA DeathChecked ==
    ASSUME DesksInv, NEW j \in Jobs, HandlerDies(j)
    PROVE  CheckedInv'
<1>1. UNCHANGED <<level, byHand, shelved, batch, scrapped, hold, records, tasks>> /\ Works(j, {})
  BY DEF HandlerDies, Abandon, Finish, Idle, Works, HistoryGrows, StoresRest, stockVars, batchVars, goodsVars
<1>2. CheckedInv /\ level' \in [Rows -> Levels] /\ byHand' \in [Rows -> Int]
  BY <1>1, ByHandTyped DEF DesksInv
<1> QED
  BY <1>1, <1>2, LevelMoves

LEMMA RestChecked ==
    ASSUME DesksInv, UNCHANGED warehouseVars
    PROVE  CheckedInv'
<1>1. UNCHANGED <<level, byHand, job, shelved, batch, scrapped, hold, records, tasks>>
  BY DEF warehouseVars
<1>2. StockTypeOK' /\ JobsOK' /\ OutputsOnce'
  BY <1>1 DEF DesksInv, CheckedInv, StockTypeOK, JobsOK, OutputsOnce, TasksOK
<1>3. (\A j \in Jobs : StockJob(job[j]))'
  BY <1>1 DEF DesksInv, CheckedInv, StockJob
<1> QED
  BY <1>2, <1>3 DEF CheckedInv

(* Quality control *)
LEMMA DecidedOK ==
    ASSUME IsFiniteSet(records), records \subseteq QuarantineRows, NEW S, S \subseteq records,
           NEW status \in {"HELD", "REWORK", "RELEASED", "REJECTED"}
    PROVE  /\ IsFiniteSet(Decided(S, status)) /\ Decided(S, status) \subseteq QuarantineRows
           /\ \A q \in Decided(S, status) : \E p \in records : q.batch = p.batch
<1>1. \A q \in S : [q EXCEPT !.status = status] \in QuarantineRows /\ [q EXCEPT !.status = status].batch = q.batch
  BY DEF QuarantineRows
<1>4. PICK h : h = [q \in S |-> [q EXCEPT !.status = status]]
  OBVIOUS
<1>5. PICK U : U = {[q EXCEPT !.status = status] : q \in S}
  OBVIOUS
<1>6. h = [q \in S |-> h[q]] /\ (\A q \in S : h[q] \in U) /\ (\A y \in U : \E q \in S : h[q] = y)
  BY <1>4, <1>5
<1>7. IsFiniteSet(S) /\ IsFiniteSet(records \ S)
  BY FS_Subset
<1>8. IsFiniteSet(U)
  BY <1>6, <1>7, ImageFinite
<1>2. IsFiniteSet({[q EXCEPT !.status = status] : q \in S}) /\ IsFiniteSet(records \ S)
  BY <1>5, <1>7, <1>8
<1>3. IsFiniteSet(Decided(S, status))
  BY <1>2, FS_Union DEF Decided
<1> QED
  BY <1>1, <1>3 DEF Decided

LEMMA RewrittenOK ==
    ASSUME IsFiniteSet(records), records \subseteq QuarantineRows, NEW S, S \subseteq records, NEW n \in Nat,
           NEW T, T = (records \ S) \cup {[q EXCEPT !.qty = n] : q \in S}
    PROVE  /\ IsFiniteSet(T) /\ T \subseteq QuarantineRows
           /\ \A q \in T : \E p \in records : q.batch = p.batch
<1>1. \A q \in S : [q EXCEPT !.qty = n] \in QuarantineRows /\ [q EXCEPT !.qty = n].batch = q.batch
  BY DEF QuarantineRows
<1>4. PICK h : h = [q \in S |-> [q EXCEPT !.qty = n]]
  OBVIOUS
<1>5. PICK U : U = {[q EXCEPT !.qty = n] : q \in S}
  OBVIOUS
<1>6. h = [q \in S |-> h[q]] /\ (\A q \in S : h[q] \in U) /\ (\A y \in U : \E q \in S : h[q] = y)
  BY <1>4, <1>5
<1>7. IsFiniteSet(S) /\ IsFiniteSet(records \ S)
  BY FS_Subset
<1>8. IsFiniteSet(U)
  BY <1>6, <1>7, ImageFinite
<1>2. IsFiniteSet({[q EXCEPT !.qty = n] : q \in S}) /\ IsFiniteSet(records \ S)
  BY <1>5, <1>7, <1>8
<1>3. IsFiniteSet(T)
  BY <1>2, FS_Union
<1> QED
  BY <1>1, <1>3

LEMMA NewRecordOK ==
    ASSUME IsFiniteSet(records), records \subseteq QuarantineRows, NEW b \in Batches, NEW n \in Nat,
           NEW T, T = records \cup {NewRecord(b, n)}
    PROVE  /\ IsFiniteSet(T) /\ T \subseteq QuarantineRows
           /\ \A q \in T : q.batch = b \/ q \in records
<1>1. NewRecord(b, n) \in QuarantineRows /\ NewRecord(b, n).batch = b
  BY FS_CardinalityType DEF NewRecord, QuarantineRows
<1>2. IsFiniteSet(T)
  BY FS_AddElement
<1> QED
  BY <1>1, <1>2

LEMMA HeldIsNumber ==
    ASSUME CheckedInv, NEW b
    PROVE  AlreadyHeld(b) \in Nat
<1>1. PICK S : S = Open(b)
  OBVIOUS
<1>2. IsFiniteSet(S) /\ S \subseteq QuarantineRows
  BY <1>1, StockTyped, FS_Subset DEF Open
<1>3. PICK f : f = [q \in S |-> q.qty]
  OBVIOUS
<1>4. f = [q \in S |-> f[q]] /\ \A q \in S : f[q] \in Nat
  BY <1>2, <1>3 DEF QuarantineRows
<1>5. SumFunction(f) \in Nat
  BY <1>2, <1>4, SumTyped
<1> QED
  BY <1>1, <1>3, <1>5 DEF AlreadyHeld

LEMMA SmallerTyped ==
    ASSUME NEW m \in Int, NEW n \in Int
    PROVE  /\ Smaller(m, n) \in Int /\ Smaller(m, n) <= m /\ Smaller(m, n) <= n
           /\ Smaller(m, n) \in {m, n}
           /\ Atleast0(n) \in Nat /\ n <= Atleast0(n) /\ (n >= 0 => Atleast0(n) = n)
BY DEF Smaller, Atleast0

LEMMA AvailableTyped ==
    ASSUME NEW l \in Levels
    PROVE  Available(l) = l.quantity - l.reserved /\ Available(l) \in Int /\ l.quantity \in Int /\ l.reserved \in Int
BY DEF Available, Levels

LEMMA ToReserveTyped ==
    ASSUME NEW t, t.saw \in Levels, t.wanted \in Nat
    PROVE  ToReserve(t) \in Nat /\ ToReserve(t) <= Atleast0(Available(t.saw))
<1>1. PICK a \in Int : a = Available(t.saw)
  BY AvailableTyped
<1>2. PICK w \in Nat : w = t.wanted
  OBVIOUS
<1>3. PICK x \in Nat : x = Atleast0(a)
  BY SmallerTyped
<1>4. Smaller(x, w) \in Nat /\ Smaller(x, w) <= x
  BY DEF Smaller
<1> QED
  BY <1>1, <1>2, <1>3, <1>4 DEF ToReserve

LEMMA ToReleaseTyped ==
    ASSUME NEW saw \in Levels, NEW n \in Nat, NEW b
    PROVE  /\ ToRelease(b, saw, n) \in Int
           /\ saw.reserved >= 0 => ToRelease(b, saw, n) \in Nat
           /\ ToRelease(b, saw, n) <= saw.reserved
<1>1. PICK r \in Int : r = saw.reserved
  BY DEF Levels
<1> QED
  BY <1>1 DEF ToRelease, Smaller

(* A step of quality control that leaves shelves and batches alone. *)
LEMMA QualityLooks ==
    ASSUME DesksInv, NEW j \in Jobs, AtQuality(j),
           \/ \E b \in Batches : ReadForOutput(j, b)
           \/ LockBatch(j)
           \/ \E b \in Batches, n \in 1 .. BatchQty : ReadForHold(j, b, n) \/ ReadForRelease(j, b, n)
           \/ \E q \in records, to \in {"REWORK", "REJECTED"}, n \in 1 .. BatchQty : ReadForDecision(j, q, to, n)
    PROVE  CheckedInv' /\ UNCHANGED <<stockVars, batchVars>>
<1>1. UNCHANGED <<shelved, tasks>>
  BY DEF AtQuality, goodsVars
<1>2. CheckedInv /\ level \in [Rows -> Levels] /\ byHand \in [Rows -> Int]
  BY ByHandTyped DEF DesksInv
<1>3. ASSUME NEW t, job' = [job EXCEPT ![j] = t], StockJob(t), OutputsAlone(t, j), UNCHANGED <<stockVars, batchVars>>
      PROVE  CheckedInv'
  BY <1>1, <1>2, <1>3, CheckedMoves DEF stockVars, batchVars
<1>4. \A b \in Batches : level[Bay] \in Levels /\ batch[b].left \in Int
  BY <1>2, StockTyped, QuarantineAssumption DEF BatchRows
<1>5. ASSUME NEW b \in Batches, ReadForOutput(j, b) PROVE CheckedInv' /\ UNCHANGED <<stockVars, batchVars>>
  <2>1. PICK t : t = [op |-> "output", batch |-> b, saw |-> level[Bay]]
    OBVIOUS
  <2>2. job' = [job EXCEPT ![j] = t] /\ UNCHANGED <<stockVars, batchVars>> /\ ~batch[b].made
        /\ \A i \in Jobs : ~(job[i].op = "output" /\ job[i].batch = b)
    BY <1>5, <2>1 DEF ReadForOutput, Start, Doing
  <2>3. t.op = "output" /\ t.batch = b
    BY <2>1
  <2>4. StockJob(t) /\ OutputsAlone(t, j)
    BY <2>2, <2>3 DEF StockJob, OutputsAlone
  <2> QED
    BY <1>3, <2>2, <2>4
<1>6. ASSUME NEW b \in Batches, NEW op \in {"hold", "release"}, NEW n \in Nat, LoadBatch(j, b, op, n)
      PROVE  CheckedInv' /\ UNCHANGED <<stockVars, batchVars>>
  <2>1. PICK t : t = [op |-> op, batch |-> b, n |-> n]
    OBVIOUS
  <2>2. job' = [job EXCEPT ![j] = t] /\ UNCHANGED <<stockVars, batchVars>> /\ batch[b].made
    BY <1>6, <2>1 DEF LoadBatch, Start
  <2>3. t.op = op /\ t.batch = b /\ t.n = n
    BY <2>1
  <2>4. StockJob(t) /\ OutputsAlone(t, j)
    BY <2>2, <2>3 DEF StockJob, OutputsAlone
  <2> QED
    BY <1>3, <2>2, <2>4
<1>7. ASSUME NEW b \in Batches, NEW n \in 1 .. BatchQty, ReadForHold(j, b, n)
      PROVE  CheckedInv' /\ UNCHANGED <<stockVars, batchVars>>
  <2>1. n \in Nat /\ LoadBatch(j, b, "hold", n)
    BY <1>7, QuarantineAssumption DEF ReadForHold
  <2> QED
    BY <2>1, <1>6
<1>8. ASSUME NEW b \in Batches, NEW n \in 1 .. BatchQty, ReadForRelease(j, b, n)
      PROVE  CheckedInv' /\ UNCHANGED <<stockVars, batchVars>>
  <2>1. n \in Nat /\ LoadBatch(j, b, "release", n)
    BY <1>8, QuarantineAssumption DEF ReadForRelease
  <2> QED
    BY <2>1, <1>6
<1>9. ASSUME LockBatch(j) PROVE CheckedInv' /\ UNCHANGED <<stockVars, batchVars>>
  <2>1. PICK u : u = job[j]
    OBVIOUS
  <2>2. u.op \in {"hold", "release"} /\ StockJob(u)
    BY <1>2, <1>9, <2>1, StockTyped DEF LockBatch
  <2>3. u.batch \in Batches /\ batch[u.batch].made /\ u.n \in Nat
    BY <2>2 DEF StockJob
  <2>4. PICK w \in Nat : w = Atleast0(u.n - AlreadyHeld(u.batch))
    <3>1. u.n - AlreadyHeld(u.batch) \in Int
      BY <1>2, <2>3, HeldIsNumber
    <3> QED
      BY <3>1, SmallerTyped
  <2>5. PICK op \in {"holding", "releasing"} : op = IF u.op = "hold" THEN "holding" ELSE "releasing"
    OBVIOUS
  <2>6. PICK t : t = [op |-> op, batch |-> u.batch, n |-> u.n, saw |-> level[Bay], wanted |-> w]
    OBVIOUS
  <2>7. job' = [job EXCEPT ![j] = t] /\ UNCHANGED <<stockVars, batchVars>>
    BY <1>9, <2>1, <2>4, <2>5, <2>6 DEF LockBatch, Goes
  <2>8. t.op = op /\ t.batch = u.batch /\ t.n = u.n /\ t.saw = level[Bay] /\ t.wanted = w
    BY <2>6
  <2>9. StockJob(t) /\ OutputsAlone(t, j)
    BY <1>4, <2>3, <2>8 DEF StockJob, OutputsAlone
  <2> QED
    BY <1>3, <2>7, <2>9
<1>10. ASSUME NEW q \in records, NEW to \in {"REWORK", "REJECTED"}, NEW n \in 1 .. BatchQty,
              ReadForDecision(j, q, to, n)
       PROVE  CheckedInv' /\ UNCHANGED <<stockVars, batchVars>>
  <2>1. q.batch \in Batches /\ n \in Nat /\ batch[q.batch].made
    BY <1>2, StockTyped, QuarantineAssumption DEF QuarantineRows
  <2>2. PICK t : t = [op |-> "decide", batch |-> q.batch, record |-> q, to |-> to, n |-> n,
                      left |-> batch[q.batch].left, saw |-> level[Bay]]
    OBVIOUS
  <2>3. job' = [job EXCEPT ![j] = t] /\ UNCHANGED <<stockVars, batchVars>>
    BY <1>10, <2>2 DEF ReadForDecision, Start
  <2>4. t.op = "decide" /\ t.batch = q.batch /\ t.n = n /\ t.saw = level[Bay] /\ t.to = to
        /\ t.left = batch[q.batch].left
    BY <2>2
  <2>5. StockJob(t) /\ OutputsAlone(t, j)
    BY <1>4, <2>1, <2>4 DEF StockJob, OutputsAlone
  <2> QED
    BY <1>3, <2>3, <2>5
<1> QED
  BY <1>5, <1>7, <1>8, <1>9, <1>10

LEMMA QualityWrites ==
    ASSUME CheckedInv, NEW j \in Jobs, job' = [job EXCEPT ![j] = Idle],
           level' \in [Rows -> Levels], UNCHANGED <<byHand, shelved, tasks>>,
           batch' \in [Batches -> BatchRows], scrapped' \in [Batches -> Int], hold' \in [Batches -> Nat],
           IsFiniteSet(records'), records' \subseteq QuarantineRows, \A q \in records' : batch'[q.batch].made,
           \A b \in Batches : ~batch'[b].made => hold'[b] = 0, OnlyMakes(j)
    PROVE  CheckedInv'
<1>1. StockTypeOK'
  BY StockTyped DEF StockTypeOK, TasksOK
<1>2. StockJob(Idle)' /\ OutputsAlone(Idle, j)
  BY DEF StockJob, OutputsAlone, Idle
<1> QED
  BY <1>1, <1>2, StockJobs

(* Batches and their holds, when those already made stay made. *)
LEMMA BatchKept ==
    ASSUME CheckedInv, NEW b \in Batches, batch[b].made,
           NEW flagged \in BOOLEAN, NEW left \in Int, NEW h \in Nat,
           batch' = [batch EXCEPT ![b].flagged = flagged, ![b].left = left],
           hold' = [hold EXCEPT ![b] = h]
    PROVE  /\ batch' \in [Batches -> BatchRows] /\ hold' \in [Batches -> Nat]
           /\ \A c \in Batches : batch'[c].made = batch[c].made
           /\ \A c \in Batches : ~batch'[c].made => hold'[c] = 0
           /\ MadeNow' = MadeNow
<1>1. PICK e \in BatchRows : e = batch[b]
  BY StockTyped
<1>2. PICK f : f = [e EXCEPT !.flagged = flagged, !.left = left]
  OBVIOUS
<1>3. f = [made |-> e.made, left |-> left, flagged |-> flagged] /\ e.made \in BOOLEAN
  BY <1>2 DEF BatchRows
<1>4. batch' = [batch EXCEPT ![b] = f]
  BY <1>1, <1>2, StockTyped
<1>5. f \in BatchRows /\ f.made = e.made
  BY <1>3 DEF BatchRows
<1>6. batch' \in [Batches -> BatchRows] /\ \A c \in Batches : batch'[c].made = batch[c].made
  BY <1>1, <1>4, <1>5, StockTyped
<1>7. hold' \in [Batches -> Nat] /\ \A c \in Batches \ {b} : hold'[c] = hold[c]
  BY StockTyped
<1>8. \A c \in Batches : ~batch'[c].made => hold'[c] = 0
  BY <1>6, <1>7, StockTyped
<1>9. {c \in Batches : batch'[c].made} = {c \in Batches : batch[c].made}
  BY <1>6
<1> QED
  BY <1>6, <1>7, <1>8, <1>9 DEF MadeNow

LEMMA HoldShifts ==
    ASSUME DesksInv, NEW j \in Jobs, AtQuality(j), HoldBatch(j)
    PROVE  /\ CheckedInv' /\ job[j].batch \in Batches /\ Bay \in Rows /\ job[j].saw \in Levels
           /\ UNCHANGED <<byHand, shelved, scrapped, MadeNow, lost, eaten>>
           /\ raced' = raced \cup Stale(Bay, job[j].saw)
           /\ \E n \in Nat, z \in Int : /\ z = 0 /\ n <= Atleast0(Available(job[j].saw))
                                        /\ level' = [level EXCEPT ![Bay] = Shift(@, z, n)]
                                        /\ hold' = [hold EXCEPT ![job[j].batch] = @ + n]
<1>1. StockJob(job[j]) /\ job[j].op = "holding" /\ CheckedInv
  BY StockTyped DEF DesksInv, HoldBatch, Doing
<1>2. PICK t : t = job[j]
  OBVIOUS
<1>3. t.batch \in Batches /\ batch[t.batch].made /\ t.n \in Nat /\ t.saw \in Levels /\ t.wanted \in Nat
  BY <1>1, <1>2 DEF StockJob
<1>4. PICK n \in Nat, z \in Int, b \in Batches : n = ToReserve(t) /\ z = 0 /\ b = t.batch
  BY <1>3, ToReserveTyped
<1>5. n <= Atleast0(Available(t.saw))
  BY <1>3, <1>4, ToReserveTyped
<1>6. Bay \in Rows
  BY <1>3, QuarantineAssumption
<1>7. /\ level' = [level EXCEPT ![Bay] = Shift(@, z, n)]
      /\ batch' = [batch EXCEPT ![b].flagged = TRUE]
      /\ hold' = [hold EXCEPT ![b] = @ + n]
      /\ raced' = raced \cup Stale(Bay, t.saw)
      /\ job' = [job EXCEPT ![j] = Idle]
      /\ UNCHANGED <<byHand, lost, scrapped, eaten>>
  BY <1>2, <1>4 DEF HoldBatch, Finish
<1>8. UNCHANGED <<shelved, tasks>>
  BY DEF AtQuality, goodsVars
<1>9. /\ batch' \in [Batches -> BatchRows] /\ hold' \in [Batches -> Nat] /\ MadeNow' = MadeNow
      /\ \A c \in Batches : batch'[c].made = batch[c].made
      /\ \A c \in Batches : ~batch'[c].made => hold'[c] = 0
  <2>1. PICK l \in Int, h \in Nat : l = batch[b].left /\ h = hold[b] + n
    BY <1>1, StockTyped DEF BatchRows
  <2>2. batch' = [batch EXCEPT ![b].flagged = TRUE, ![b].left = l]
    <3>1. PICK e \in BatchRows : e = batch[b]
      BY <1>1, StockTyped
    <3>2. [e EXCEPT !.flagged = TRUE] = [e EXCEPT !.flagged = TRUE, !.left = l]
      BY <3>1, <2>1 DEF BatchRows
    <3> QED
      BY <1>1, <1>7, <3>1, <3>2, StockTyped
  <2>3. hold' = [hold EXCEPT ![b] = h]
    BY <1>7, <2>1
  <2> QED
    BY <1>1, <1>3, <1>4, <2>1, <2>2, <2>3, BatchKept
<1>10. IsFiniteSet(records') /\ records' \subseteq QuarantineRows
       /\ \A q \in records' : q.batch = b \/ \E p \in records : q.batch = p.batch
  <2>1. PICK S : S = HeldRecords(b)
    OBVIOUS
  <2>2. records' = IF S = {} THEN records \cup {NewRecord(b, t.n)}
                   ELSE (records \ S) \cup {[q EXCEPT !.qty = t.n] : q \in S}
    BY <1>2, <1>4, <2>1 DEF HoldBatch
  <2>3. S \subseteq records
    BY <2>1 DEF HeldRecords, Open
  <2>4. IsFiniteSet(records) /\ records \subseteq QuarantineRows
    BY <1>1, StockTyped
  <2>5. CASE S = {}
    <3>1. records' = records \cup {NewRecord(b, t.n)}
      BY <2>2, <2>5
    <3> QED
      BY <1>3, <2>4, <3>1, NewRecordOK
  <2>6. CASE S # {}
    <3>1. PICK T : T = (records \ S) \cup {[q EXCEPT !.qty = t.n] : q \in S}
      OBVIOUS
    <3>2. records' = T
      BY <2>2, <2>6, <3>1
    <3>3. PICK m \in Nat : m = t.n
      BY <1>3
    <3>4. T = (records \ S) \cup {[q EXCEPT !.qty = m] : q \in S}
      BY <3>1, <3>3
    <3>5. IsFiniteSet(T) /\ T \subseteq QuarantineRows /\ \A q \in T : \E p \in records : q.batch = p.batch
      BY <2>3, <2>4, <3>4, RewrittenOK
    <3> QED
      BY <3>2, <3>5
  <2> QED
    BY <2>5, <2>6
<1>11. \A q \in records' : batch'[q.batch].made
  BY <1>1, <1>3, <1>4, <1>9, <1>10, StockTyped DEF QuarantineRows
<1>12. OnlyMakes(j)
  BY <1>9 DEF OnlyMakes
<1>13. level' \in [Rows -> Levels]
  <2>1. n \in Int
    OBVIOUS
  <2> QED
    BY <1>1, <1>6, <1>7, <2>1, RowShifts, StockTyped
<1>14. scrapped' \in [Batches -> Int]
  BY <1>1, <1>7, StockTyped
<1>15. CheckedInv'
  BY <1>1, <1>7, <1>8, <1>9, <1>10, <1>11, <1>12, <1>13, <1>14, QualityWrites
<1> QED
  BY <1>2, <1>3, <1>4, <1>5, <1>6, <1>7, <1>8, <1>9, <1>15

LEMMA OutputShifts ==
    ASSUME DesksInv, NEW j \in Jobs, AtQuality(j), RecordOutput(j)
    PROVE  /\ CheckedInv' /\ job[j].batch \in Batches /\ Bay \in Rows
           /\ UNCHANGED <<byHand, shelved, scrapped, lost, raced, eaten>>
           /\ MadeNow' = MadeNow + 1 /\ MadeNow \in Nat
           /\ \E k \in Nat : /\ k <= BatchQty /\ hold[job[j].batch] = 0
                             /\ level' = [level EXCEPT ![Bay] = Shift(@, BatchQty, k)]
                             /\ hold' = [hold EXCEPT ![job[j].batch] = k]
<1>1. StockJob(job[j]) /\ job[j].op = "output" /\ CheckedInv
  BY StockTyped DEF DesksInv, RecordOutput, Doing
<1>2. PICK b \in Batches : b = job[j].batch
  BY <1>1 DEF StockJob
<1>3. ~batch[b].made /\ hold[b] = 0
  BY <1>1, <1>2, StockTyped DEF StockJob
<1>4. BatchQty \in Nat /\ Bay \in Rows
  BY <1>2, QuarantineAssumption
<1>5. PICK k \in Nat : k = IF NeedsQc THEN BatchQty ELSE 0
  BY <1>4
<1>6. k <= BatchQty
  BY <1>4, <1>5
<1>7. /\ level' = [level EXCEPT ![Bay] = Shift(@, BatchQty, k)]
      /\ batch' = [batch EXCEPT ![b] = [made |-> TRUE, left |-> BatchQty, flagged |-> FALSE]]
      /\ records' = IF NeedsQc THEN records \cup {NewRecord(b, BatchQty)} ELSE records
      /\ hold' = [hold EXCEPT ![b] = k]
      /\ job' = [job EXCEPT ![j] = Idle]
      /\ UNCHANGED <<byHand, lost, raced, scrapped, eaten>>
  BY <1>2, <1>5 DEF RecordOutput, Finish
<1>8. UNCHANGED <<shelved, tasks>>
  BY DEF AtQuality, goodsVars
<1>20. PICK e : e = [made |-> TRUE, left |-> BatchQty, flagged |-> FALSE]
  OBVIOUS
<1>21. BatchQty \in Int
  BY <1>4
<1>9. e \in BatchRows
  BY <1>20, <1>21 DEF BatchRows
<1>10. batch' = [batch EXCEPT ![b] = e] /\ e.made
  BY <1>7, <1>20
<1>11. batch' \in [Batches -> BatchRows] /\ batch'[b].made /\ \A c \in Batches \ {b} : batch'[c] = batch[c]
  BY <1>1, <1>9, <1>10, StockTyped
<1>12. hold' \in [Batches -> Nat] /\ \A c \in Batches : ~batch'[c].made => hold'[c] = 0
  BY <1>1, <1>7, <1>11, StockTyped
<1>13. MadeNow' = MadeNow + 1 /\ MadeNow \in Nat
  BY <1>3, <1>11, MadeMoves
<1>14. IsFiniteSet(records') /\ records' \subseteq QuarantineRows /\ \A q \in records' : q.batch = b \/ q \in records
  <2>1. PICK T : T = records \cup {NewRecord(b, BatchQty)}
    OBVIOUS
  <2>2. IsFiniteSet(records) /\ records \subseteq QuarantineRows
    BY <1>1, StockTyped
  <2>3. IsFiniteSet(T) /\ T \subseteq QuarantineRows /\ \A q \in T : q.batch = b \/ q \in records
    BY <1>4, <2>1, <2>2, NewRecordOK
  <2>4. records' = T \/ records' = records
    BY <1>7, <2>1
  <2> QED
    BY <2>2, <2>3, <2>4
<1>15. \A q \in records' : batch'[q.batch].made
  BY <1>1, <1>11, <1>14, StockTyped DEF QuarantineRows
<1>16. OnlyMakes(j)
  BY <1>1, <1>2, <1>11 DEF OnlyMakes
<1>17. level' \in [Rows -> Levels]
  <2>1. BatchQty \in Int /\ k \in Int
    BY <1>4
  <2> QED
    BY <1>1, <1>4, <1>7, <2>1, RowShifts, StockTyped
<1>18. scrapped' \in [Batches -> Int]
  BY <1>1, <1>7, StockTyped
<1>19. CheckedInv'
  BY <1>1, <1>7, <1>8, <1>11, <1>12, <1>14, <1>15, <1>16, <1>17, <1>18, QualityWrites
<1> QED
  BY <1>2, <1>3, <1>4, <1>6, <1>7, <1>8, <1>13, <1>19

(* A batch gives back r of what it has reserved. *)
GivesBack(b, r, t) ==
    /\ hold' = [hold EXCEPT ![b] = Atleast0(@ - r)]
    /\ eaten' = (eaten \/ r > hold[b])
    /\ raced' = raced \cup Stale(Bay, t.saw)
    /\ t.saw.reserved >= 0 => r >= 0

LEMMA ReleaseShifts ==
    ASSUME DesksInv, NEW j \in Jobs, AtQuality(j), ReleaseBatch(j)
    PROVE  /\ CheckedInv' /\ job[j].batch \in Batches /\ Bay \in Rows /\ job[j].saw \in Levels
           /\ UNCHANGED <<byHand, shelved, scrapped, MadeNow, lost>>
           /\ \E r, m, z \in Int : /\ m = -r /\ z = 0
                                   /\ level' = [level EXCEPT ![Bay] = Shift(@, z, m)]
                                   /\ GivesBack(job[j].batch, r, job[j])
<1>1. StockJob(job[j]) /\ job[j].op = "releasing" /\ CheckedInv
  BY StockTyped DEF DesksInv, ReleaseBatch, Doing
<1>2. PICK t : t = job[j]
  OBVIOUS
<1>3. t.batch \in Batches /\ batch[t.batch].made /\ t.n \in Nat /\ t.saw \in Levels
  BY <1>1, <1>2 DEF StockJob
<1>4. PICK b \in Batches, r \in Int, m \in Int, z \in Int :
          b = t.batch /\ r = ToRelease(t.batch, t.saw, t.n) /\ m = -r /\ z = 0
  BY <1>3, ToReleaseTyped
<1>5. t.saw.reserved >= 0 => r >= 0
  BY <1>3, <1>4, ToReleaseTyped
<1>6. Bay \in Rows
  BY <1>3, QuarantineAssumption
<1>7. /\ level' = [level EXCEPT ![Bay] = Shift(@, z, m)]
      /\ batch' = [batch EXCEPT ![b].flagged = FALSE]
      /\ hold' = [hold EXCEPT ![b] = Atleast0(@ - r)]
      /\ eaten' = (eaten \/ r > hold[b])
      /\ raced' = raced \cup Stale(Bay, t.saw)
      /\ records' = Decided(HeldRecords(b), "RELEASED")
      /\ job' = [job EXCEPT ![j] = Idle]
      /\ UNCHANGED <<byHand, lost, scrapped>>
  BY <1>2, <1>4 DEF ReleaseBatch, GiveBack, Finish
<1>8. UNCHANGED <<shelved, tasks>>
  BY DEF AtQuality, goodsVars
<1>9. /\ batch' \in [Batches -> BatchRows] /\ hold' \in [Batches -> Nat] /\ MadeNow' = MadeNow
      /\ \A c \in Batches : batch'[c].made = batch[c].made
      /\ \A c \in Batches : ~batch'[c].made => hold'[c] = 0
  <2>1. PICK l \in Int : l = batch[b].left
    BY <1>1, StockTyped DEF BatchRows
  <2>4. PICK h \in Nat : h = Atleast0(hold[b] - r)
    <3>1. hold[b] - r \in Int
      BY <1>1, StockTyped
    <3> QED
      BY <3>1, SmallerTyped
  <2>2. batch' = [batch EXCEPT ![b].flagged = FALSE, ![b].left = l]
    <3>1. PICK e \in BatchRows : e = batch[b]
      BY <1>1, StockTyped
    <3>2. [e EXCEPT !.flagged = FALSE] = [e EXCEPT !.flagged = FALSE, !.left = l]
      BY <3>1, <2>1 DEF BatchRows
    <3> QED
      BY <1>1, <1>7, <3>1, <3>2, StockTyped
  <2>3. hold' = [hold EXCEPT ![b] = h]
    BY <1>7, <2>4
  <2> QED
    BY <1>1, <1>3, <1>4, <2>1, <2>2, <2>3, <2>4, BatchKept
<1>10. IsFiniteSet(records') /\ records' \subseteq QuarantineRows
       /\ \A q \in records' : \E p \in records : q.batch = p.batch
  <2>1. PICK S : S = HeldRecords(b)
    OBVIOUS
  <2>2. S \subseteq records
    BY <2>1 DEF HeldRecords, Open
  <2>3. IsFiniteSet(records) /\ records \subseteq QuarantineRows
    BY <1>1, StockTyped
  <2> QED
    BY <1>7, <2>1, <2>2, <2>3, DecidedOK
<1>11. \A q \in records' : batch'[q.batch].made
  BY <1>1, <1>9, <1>10, StockTyped DEF QuarantineRows
<1>12. OnlyMakes(j)
  BY <1>9 DEF OnlyMakes
<1>13. level' \in [Rows -> Levels]
  BY <1>1, <1>6, <1>7, RowShifts, StockTyped
<1>14. scrapped' \in [Batches -> Int]
  BY <1>1, <1>7, StockTyped
<1>15. CheckedInv'
  BY <1>1, <1>7, <1>8, <1>9, <1>10, <1>11, <1>12, <1>13, <1>14, QualityWrites
<1>16. GivesBack(job[j].batch, r, job[j])
  BY <1>2, <1>4, <1>5, <1>7 DEF GivesBack
<1> QED
  BY <1>2, <1>3, <1>4, <1>6, <1>7, <1>8, <1>9, <1>15, <1>16

LEMMA ReworkChecked ==
    ASSUME DesksInv, NEW j \in Jobs, AtQuality(j), Rework(j)
    PROVE  CheckedInv' /\ UNCHANGED <<level, byHand, lost, raced, batch, scrapped, hold, eaten, shelved>>
<1>1. CheckedInv
  BY DEF DesksInv
<1>2. /\ records' = Decided(Same(job[j].record), "REWORK") /\ job' = [job EXCEPT ![j] = Idle]
      /\ UNCHANGED <<level, byHand, lost, raced, batch, scrapped, hold, eaten>>
  BY DEF Rework, Finish
<1>3. UNCHANGED <<shelved, tasks>>
  BY DEF AtQuality, goodsVars
<1>4. IsFiniteSet(records') /\ records' \subseteq QuarantineRows
      /\ \A q \in records' : \E p \in records : q.batch = p.batch
  <2>1. PICK S : S = Same(job[j].record)
    OBVIOUS
  <2>2. S \subseteq records
    BY <2>1 DEF Same
  <2>3. IsFiniteSet(records) /\ records \subseteq QuarantineRows
    BY <1>1, StockTyped
  <2> QED
    BY <1>2, <2>1, <2>2, <2>3, DecidedOK
<1>5. \A q \in records' : batch'[q.batch].made
  BY <1>1, <1>2, <1>4, StockTyped
<1>6. OnlyMakes(j)
  BY <1>2 DEF OnlyMakes
<1>7. /\ level' \in [Rows -> Levels] /\ batch' \in [Batches -> BatchRows]
      /\ scrapped' \in [Batches -> Int] /\ hold' \in [Batches -> Nat]
      /\ \A b \in Batches : ~batch'[b].made => hold'[b] = 0
  BY <1>1, <1>2, StockTyped
<1>8. CheckedInv'
  BY <1>1, <1>2, <1>3, <1>4, <1>5, <1>6, <1>7, QualityWrites
<1> QED
  BY <1>2, <1>3, <1>8

LEMMA ShiftIs ==
    ASSUME NEW l \in Levels, NEW q \in Int, NEW v \in Int
    PROVE  Shift(l, q, v) = [quantity |-> l.quantity + q, reserved |-> l.reserved + v]
<1>1. PICK e : e = [l EXCEPT !.quantity = l.quantity + q, !.reserved = l.reserved + v]
  OBVIOUS
<1>2. e = [quantity |-> l.quantity + q, reserved |-> l.reserved + v]
  BY <1>1 DEF Levels
<1>3. Shift(l, q, v) = e
  BY <1>1 DEF Shift
<1> QED
  BY <1>2, <1>3

LEMMA WriteOffShifts ==
    ASSUME DesksInv, NEW j \in Jobs, AtQuality(j), WriteOff(j)
    PROVE  /\ CheckedInv' /\ job[j].batch \in Batches /\ Bay \in Rows /\ job[j].saw \in Levels
           /\ UNCHANGED <<byHand, shelved, MadeNow, lost>>
           /\ \E r, m, n, k \in Int :
                  /\ m = -r /\ k = -n
                  /\ level' = [level EXCEPT ![Bay] = Shift(@, k, m)]
                  /\ level[Bay].quantity - n >= level[Bay].reserved - r
                  /\ scrapped' = [scrapped EXCEPT ![job[j].batch] = @ + n]
                  /\ GivesBack(job[j].batch, r, job[j])
<1>1. StockJob(job[j]) /\ job[j].op = "decide" /\ CheckedInv
  BY StockTyped DEF DesksInv, WriteOff, Doing
<1>2. PICK t : t = job[j]
  OBVIOUS
<1>3. /\ t.batch \in Batches /\ batch[t.batch].made /\ t.n \in Nat /\ t.saw \in Levels
      /\ t.left \in Int /\ t.to \in {"REWORK", "REJECTED"}
  BY <1>1, <1>2 DEF StockJob
<1>4. PICK b \in Batches, r \in Int, m \in Int, n \in Int, k \in Int :
          b = t.batch /\ r = ToRelease(t.batch, t.saw, t.n) /\ m = -r /\ n = t.n /\ k = -n
  BY <1>3, ToReleaseTyped
<1>5. t.saw.reserved >= 0 => r >= 0
  BY <1>3, <1>4, ToReleaseTyped
<1>6. Bay \in Rows
  BY <1>3, QuarantineAssumption
<1>7. /\ level' = [level EXCEPT ![Bay] = Shift(Shift(level[Bay], 0, -r), -n, 0)]
      /\ MovementFits(Shift(level[Bay], 0, -r), -n)
      /\ batch' = [batch EXCEPT ![b].flagged = FALSE, ![b].left = @ - Smaller(n, t.left)]
      /\ scrapped' = [scrapped EXCEPT ![b] = @ + n]
      /\ hold' = [hold EXCEPT ![b] = Atleast0(@ - r)]
      /\ eaten' = (eaten \/ r > hold[b])
      /\ raced' = raced \cup Stale(Bay, t.saw)
      /\ records' = Decided(Same(t.record), t.to)
      /\ job' = [job EXCEPT ![j] = Idle]
      /\ UNCHANGED <<byHand, lost>>
  BY <1>2, <1>4 DEF WriteOff, GiveBack, Finish
<1>8. UNCHANGED <<shelved, tasks>>
  BY DEF AtQuality, goodsVars
<1>9. /\ batch' \in [Batches -> BatchRows] /\ hold' \in [Batches -> Nat] /\ MadeNow' = MadeNow
      /\ \A c \in Batches : batch'[c].made = batch[c].made
      /\ \A c \in Batches : ~batch'[c].made => hold'[c] = 0
  <2>1. PICK l \in Int : l = batch[b].left - Smaller(n, t.left)
    <3>1. batch[b].left \in Int
      BY <1>1, StockTyped DEF BatchRows
    <3>2. Smaller(n, t.left) \in Int
      BY <1>3, SmallerTyped
    <3> QED
      BY <3>1, <3>2
  <2>4. PICK h \in Nat : h = Atleast0(hold[b] - r)
    <3>1. hold[b] - r \in Int
      BY <1>1, StockTyped
    <3> QED
      BY <3>1, SmallerTyped
  <2>2. batch' = [batch EXCEPT ![b].flagged = FALSE, ![b].left = l]
    <3>1. PICK e \in BatchRows : e = batch[b]
      BY <1>1, StockTyped
    <3>2. [e EXCEPT !.flagged = FALSE].left = e.left
      BY DEF BatchRows
    <3> QED
      BY <1>1, <1>7, <2>1, <3>1, <3>2, StockTyped
  <2>3. hold' = [hold EXCEPT ![b] = h]
    BY <1>7, <2>4
  <2> QED
    BY <1>1, <1>3, <1>4, <2>1, <2>2, <2>3, <2>4, BatchKept
<1>10. IsFiniteSet(records') /\ records' \subseteq QuarantineRows
       /\ \A q \in records' : \E p \in records : q.batch = p.batch
  <2>1. PICK S : S = Same(t.record)
    OBVIOUS
  <2>2. S \subseteq records
    BY <2>1 DEF Same
  <2>3. IsFiniteSet(records) /\ records \subseteq QuarantineRows
    BY <1>1, StockTyped
  <2> QED
    BY <1>3, <1>7, <2>1, <2>2, <2>3, DecidedOK
<1>11. \A q \in records' : batch'[q.batch].made
  BY <1>1, <1>9, <1>10, StockTyped DEF QuarantineRows
<1>12. OnlyMakes(j)
  BY <1>9 DEF OnlyMakes
<1>17. PICK l \in Levels : l = level[Bay]
  BY <1>1, <1>6, StockTyped
<1>22. PICK x \in Int, y \in Int : x = l.quantity /\ y = l.reserved
  BY DEF Levels
<1>23. l = [quantity |-> x, reserved |-> y]
  BY <1>22 DEF Levels
<1>24. PICK f : f = [quantity |-> x, reserved |-> y - r]
  OBVIOUS
<1>25. PICK g : g = [quantity |-> x - n, reserved |-> y - r]
  OBVIOUS
<1>28. PICK z \in Int, d \in Int, c \in Int : z = 0 /\ d = -r /\ c = -n
  OBVIOUS
<1>29. f \in Levels /\ f.quantity = x /\ f.reserved = y - r
  <2>1. y - r \in Int
    OBVIOUS
  <2> QED
    BY <1>24, <2>1 DEF Levels
<1>26. Shift(l, 0, -r) = f
  <2>1. x + z = x /\ y + d = y - r
    BY <1>28
  <2>2. Shift(l, z, d) = [quantity |-> x + z, reserved |-> y + d]
    BY <1>17, <1>22, <1>28, ShiftIs
  <2> QED
    BY <1>24, <1>28, <2>1, <2>2
<1>27. Shift(l, k, m) = g
  <2>1. x + k = x - n /\ y + m = y - r
    BY <1>4
  <2>2. Shift(l, k, m) = [quantity |-> x + k, reserved |-> y + m]
    BY <1>17, <1>22, <1>4, ShiftIs
  <2> QED
    BY <1>25, <2>1, <2>2
<1>19. Shift(f, -n, 0) = g
  <2>1. x + c = x - n /\ (y - r) + z = y - r
    BY <1>28
  <2>2. Shift(f, c, z) = [quantity |-> x + c, reserved |-> (y - r) + z]
    BY <1>29, <1>28, ShiftIs
  <2> QED
    BY <1>25, <1>28, <2>1, <2>2
<1>20. level' = [level EXCEPT ![Bay] = Shift(@, k, m)]
  BY <1>7, <1>17, <1>26, <1>27, <1>19
<1>21. level[Bay].quantity - n >= level[Bay].reserved - r
  BY <1>7, <1>17, <1>22, <1>24, <1>26 DEF MovementFits
<1>13. level' \in [Rows -> Levels]
  BY <1>1, <1>6, <1>20, RowShifts, StockTyped
<1>14. scrapped' \in [Batches -> Int]
  BY <1>1, <1>7, StockTyped
<1>15. CheckedInv'
  BY <1>1, <1>7, <1>8, <1>9, <1>10, <1>11, <1>12, <1>13, <1>14, QualityWrites
<1>16. GivesBack(job[j].batch, r, job[j])
  BY <1>2, <1>4, <1>5, <1>7 DEF GivesBack
<1> QED
  BY <1>2, <1>3, <1>4, <1>6, <1>7, <1>8, <1>9, <1>15, <1>16, <1>20, <1>21

LEMMA QualityChecked ==
    ASSUME DesksInv, NEW j \in Jobs, AtQuality(j)
    PROVE  CheckedInv'
<1>1. BatchStep(j)
  BY DEF AtQuality
<1>2. CASE RecordOutput(j)
  BY <1>2, OutputShifts
<1>3. CASE HoldBatch(j)
  BY <1>3, HoldShifts
<1>4. CASE ReleaseBatch(j)
  BY <1>4, ReleaseShifts
<1>5. CASE Rework(j)
  BY <1>5, ReworkChecked
<1>6. CASE WriteOff(j)
  BY <1>6, WriteOffShifts
<1>7. CASE ~RecordOutput(j) /\ ~HoldBatch(j) /\ ~ReleaseBatch(j) /\ ~Rework(j) /\ ~WriteOff(j)
  <2>1. \/ \E b \in Batches : ReadForOutput(j, b)
        \/ LockBatch(j)
        \/ \E b \in Batches, n \in 1 .. BatchQty : ReadForHold(j, b, n) \/ ReadForRelease(j, b, n)
        \/ \E q \in records, to \in {"REWORK", "REJECTED"}, n \in 1 .. BatchQty : ReadForDecision(j, q, to, n)
    BY <1>1, <1>7 DEF BatchStep
  <2> QED
    BY <2>1, QualityLooks
<1> QED
  BY <1>2, <1>3, <1>4, <1>5, <1>6, <1>7

(* Finished goods *)
LEMMA GoodsWrites ==
    ASSUME CheckedInv, NEW j \in Jobs, NEW t, job' = [job EXCEPT ![j] = t], StockJob(t), OutputsAlone(t, j),
           level' \in [Rows -> Levels], shelved' \in [Rows -> Int], TasksOK',
           UNCHANGED <<byHand, batch, scrapped, hold, records>>
    PROVE  CheckedInv'
<1>1. StockTypeOK'
  BY StockTyped DEF StockTypeOK
<1>2. OnlyMakes(j)
  BY DEF OnlyMakes
<1>3. StockJob(t)'
  BY Zenon DEF StockJob
<1> QED
  BY <1>1, <1>2, <1>3, StockJobs

LEMMA TaskRow ==
    ASSUME NEW k, "row" \in DOMAIN k, k.row \in Rows, NEW n
    PROVE  /\ "row" \in DOMAIN [k EXCEPT !.allocated = n] /\ [k EXCEPT !.allocated = n].row \in Rows
           /\ "row" \in DOMAIN [k EXCEPT !.received = n] /\ [k EXCEPT !.received = n].row \in Rows
OBVIOUS

LEMMA AllocateKeepsRows ==
    ASSUME CheckedInv, NEW j \in Jobs, Allocate(j)
    PROVE  TasksOK'
<1>1. PICK t : t = job[j]
  OBVIOUS
<1>2. PICK started : started = Started(t.saw)
  OBVIOUS
<1>3. PICK kept : kept = IF Started(t.saw) THEN {Raised(k, t) : k \in TasksOf(t.receipt)} ELSE {}
  OBVIOUS
<1>4. PICK fresh : fresh = NewTasks(t, IF Started(t.saw) THEN t.saw ELSE {})
  OBVIOUS
<1>5. tasks' = (tasks \ TasksOf(t.receipt)) \cup kept \cup fresh
  BY <1>1, <1>3, <1>4 DEF Allocate
<1>6. \A k \in tasks : "row" \in DOMAIN k /\ k.row \in Rows
  BY StockTyped DEF TasksOK
<1>7. \A k \in kept : "row" \in DOMAIN k /\ k.row \in Rows
  <2>1. \A k \in tasks : "row" \in DOMAIN Raised(k, t) /\ Raised(k, t).row \in Rows
    BY <1>6, TaskRow DEF Raised
  <2> QED
    BY <1>3, <2>1 DEF TasksOf
<1>8. \A k \in fresh : "row" \in DOMAIN k /\ k.row \in Rows
  BY <1>4 DEF NewTasks
<1> QED
  BY <1>5, <1>6, <1>7, <1>8 DEF TasksOK

LEMMA GoodsShift ==
    ASSUME DesksInv, NEW j \in Jobs, ReceiveGoods(j)
    PROVE  \E s \in Rows, n, z \in Int :
               /\ n >= 0 /\ z = 0
               /\ level' = [level EXCEPT ![s] = Shift(@, n, z)]
               /\ MovementFits(level[s], n)
               /\ shelved' = [shelved EXCEPT ![s] = @ + n]
<1>1. StockJob(job[j]) /\ job[j].op = "summing"
  BY StockTyped DEF DesksInv, ReceiveGoods, Doing
<1>2. PICK s \in Rows, n \in Int, z \in Int : s = job[j].task.row /\ n = job[j].n /\ n >= 0 /\ z = 0
  BY <1>1 DEF StockJob
<1>3. /\ level' = [level EXCEPT ![s] = Shift(@, n, z)] /\ MovementFits(level[s], n)
      /\ shelved' = [shelved EXCEPT ![s] = @ + n]
  BY <1>2 DEF ReceiveGoods
<1> QED
  BY <1>2, <1>3

LEMMA GoodsChecked ==
    ASSUME DesksInv, NEW j \in Jobs, AtGoods(j)
    PROVE  CheckedInv' /\ UNCHANGED <<byHand, lost, raced, batchVars>>
           /\ (ReceiveGoods(j) \/ UNCHANGED <<level, shelved>>)
<1>1. CheckedInv /\ level \in [Rows -> Levels] /\ shelved \in [Rows -> Int] /\ TasksOK
  BY StockTyped DEF DesksInv
<1> DEFINE Quiet == UNCHANGED <<byHand, lost, raced, batchVars>>
<1>2. ASSUME NEW c \in Receipts, NEW plan \in Plans, ReadForPlan(j, c, plan)
      PROVE  CheckedInv' /\ Quiet /\ UNCHANGED <<level, shelved>>
  <2>1. PICK t : t = [op |-> "plan", no |-> plans, receipt |-> c, plan |-> plan, saw |-> TasksOf(c)]
    OBVIOUS
  <2>2. job' = [job EXCEPT ![j] = t] /\ UNCHANGED <<stockVars, batchVars, tasks, shelved>>
    BY <1>2, <2>1 DEF ReadForPlan, Start
  <2>3. t.op \notin StockOps
    BY <2>1 DEF StockOps
  <2> QED
    BY <1>1, <2>2, <2>3, LooksAtNoShelf, GoodsWrites DEF stockVars, batchVars, TasksOK
<1>3. ASSUME Allocate(j) PROVE CheckedInv' /\ Quiet /\ UNCHANGED <<level, shelved>>
  <2>1. job' = [job EXCEPT ![j] = Idle] /\ UNCHANGED <<level, byHand, lost, raced, batchVars, shelved>>
    BY <1>3 DEF Allocate, Finish
  <2>2. StockJob(Idle) /\ OutputsAlone(Idle, j)
    BY DEF StockJob, OutputsAlone, Idle
  <2>3. TasksOK'
    BY <1>1, <1>3, AllocateKeepsRows
  <2> QED
    BY <1>1, <2>1, <2>2, <2>3, GoodsWrites DEF batchVars
<1>4. ASSUME NEW k \in tasks, NEW n \in 1 .. Approved, NEW key \in GoodsKeys, LockTask(j, k, n, key)
      PROVE  CheckedInv' /\ Quiet /\ UNCHANGED <<level, shelved>>
  <2>1. PICK t : t = [op |-> "receiving", task |-> k, n |-> n, key |-> key]
    OBVIOUS
  <2>2. job' = [job EXCEPT ![j] = t] /\ UNCHANGED <<stockVars, batchVars, tasks, shelved>>
    BY <1>4, <2>1 DEF LockTask, Start, goodsVars
  <2>3. t.op = "receiving" /\ t.task = k /\ t.n = n
    BY <2>1
  <2>4. k.row \in Rows /\ n \in Nat
    BY <1>1, FinishedGoodsAssumption DEF TasksOK
  <2>5. StockJob(t) /\ OutputsAlone(t, j)
    BY <2>3, <2>4 DEF StockJob, OutputsAlone
  <2> QED
    BY <1>1, <2>2, <2>5, GoodsWrites DEF stockVars, batchVars, TasksOK
<1>5. ASSUME SumUp(j) PROVE CheckedInv' /\ Quiet /\ UNCHANGED <<level, shelved>>
  <2>1. PICK u : u = job[j]
    OBVIOUS
  <2>2. u.op = "receiving" /\ StockJob(u)
    BY <1>1, <1>5, <2>1, StockTyped DEF SumUp, Doing
  <2>3. u.task.row \in Rows /\ u.n \in Nat
    BY <2>2 DEF StockJob
  <2>4. PICK S : S = {k \in TasksOf(u.task.receipt) : k.id # u.task.id} \cup {Mine(u)}
    OBVIOUS
  <2>5. PICK t : t = [op |-> "summing", task |-> u.task, n |-> u.n, key |-> u.key, sum |-> S]
    OBVIOUS
  <2>6. job' = [job EXCEPT ![j] = t] /\ UNCHANGED <<stockVars, batchVars, tasks, shelved>>
    BY <1>5, <2>1, <2>4, <2>5 DEF SumUp, Goes, goodsVars
  <2>7. t.op = "summing" /\ t.task = u.task /\ t.n = u.n
    BY <2>5
  <2>8. StockJob(t) /\ OutputsAlone(t, j)
    BY <2>3, <2>7 DEF StockJob, OutputsAlone
  <2> QED
    BY <1>1, <2>6, <2>8, GoodsWrites DEF stockVars, batchVars, TasksOK
<1>6. ASSUME ReceiveGoods(j) PROVE CheckedInv' /\ Quiet
  <2>1. job' = [job EXCEPT ![j] = Idle] /\ UNCHANGED <<byHand, lost, raced, batchVars>>
    BY <1>6 DEF ReceiveGoods, Finish
  <2>2. StockJob(Idle) /\ OutputsAlone(Idle, j)
    BY DEF StockJob, OutputsAlone, Idle
  <2>3. PICK s \in Rows, n \in Int, z \in Int :
            level' = [level EXCEPT ![s] = Shift(@, n, z)] /\ shelved' = [shelved EXCEPT ![s] = @ + n]
    BY <1>6, GoodsShift
  <2>4. level' \in [Rows -> Levels]
    BY <1>1, <2>3, RowShifts
  <2>5. shelved' \in [Rows -> Int]
    <3>1. shelved[s] + n \in Int
      BY <1>1
    <3> QED
      BY <1>1, <2>3, <3>1
  <2>6. PICK m : m = job[j].task.received + job[j].n
    OBVIOUS
  <2>7. tasks' = {IF k.id = job[j].task.id THEN [k EXCEPT !.received = m] ELSE k : k \in tasks}
    BY <1>6, <2>6 DEF ReceiveGoods
  <2>8. TasksOK'
    BY <1>1, <2>7, TaskRow DEF TasksOK
  <2> QED
    BY <1>1, <2>1, <2>2, <2>4, <2>5, <2>8, GoodsWrites DEF batchVars
<1>7. GoodsStep(j)
  BY DEF AtGoods
<1> HIDE DEF Quiet
<1>8. CheckedInv' /\ Quiet /\ (ReceiveGoods(j) \/ UNCHANGED <<level, shelved>>)
  BY <1>2, <1>3, <1>4, <1>5, <1>6, <1>7, Zenon DEF GoodsStep
<1> QED
  BY <1>8 DEF Quiet

LEMMA CheckedStays == DesksInv /\ [WarehouseNext]_warehouseVars => CheckedInv'
<1> SUFFICES ASSUME DesksInv, [WarehouseNext]_warehouseVars PROVE CheckedInv'
  OBVIOUS
<1>1. CASE WarehouseNext
  <2>1. PICK j \in Jobs : \/ HandlerDies(j)
                          \/ AtShelf(j) \/ AtOrders(j) \/ AtCouriers(j) \/ AtRequisitions(j)
                          \/ AtPurchasing(j) \/ AtQuality(j) \/ AtMaterials(j) \/ AtGoods(j)
    BY <1>1 DEF WarehouseNext
  <2> QED
    BY <2>1, DeathChecked, ShelfChecked, OrdersChecked, RequisitionsChecked, PurchasingChecked,
       QualityChecked, MaterialsChecked, GoodsChecked
<1>2. CASE UNCHANGED warehouseVars
  BY <1>2, RestChecked
<1> QED
  BY <1>1, <1>2

LEMMA DesksStay == DesksInv /\ [WarehouseNext]_warehouseVars => DesksInv'
BY OrderStays, ReqStays, PurchaseStays, MaterialStays, CheckedStays DEF DesksInv

LEMMA DesksStart == WarehouseInit => DesksInv
<1> SUFFICES ASSUME WarehouseInit PROVE CheckedInv
  BY OrderStarts, ReqStarts, PurchaseStarts, MaterialStarts DEF DesksInv
<1>1. /\ level = [r \in Rows |-> [quantity |-> OpeningStock[r], reserved |-> 0]]
      /\ byHand = [r \in Rows |-> 0] /\ shelved = [r \in Rows |-> 0]
      /\ batch = [b \in Batches |-> [made |-> FALSE, left |-> 0, flagged |-> FALSE]]
      /\ records = {} /\ scrapped = [b \in Batches |-> 0] /\ hold = [b \in Batches |-> 0]
      /\ tasks = {} /\ job = [j \in Jobs |-> Idle]
  BY DEF WarehouseInit, StockInit, QuarantineInit, GoodsInit
<1>2. level \in [Rows -> Levels]
  BY <1>1, StockAssumption DEF Levels
<1>3. batch \in [Batches -> BatchRows] /\ \A b \in Batches : ~batch[b].made => hold[b] = 0
  BY <1>1 DEF BatchRows
<1>4. StockTypeOK
  BY <1>1, <1>2, <1>3, FS_EmptySet DEF StockTypeOK, TasksOK
<1>5. \A j \in Jobs : job[j] = Idle /\ job[j].op = "idle"
  BY <1>1 DEF Idle
<1> QED
  BY <1>1, <1>4, <1>5, IdleStock DEF CheckedInv, JobsOK, OutputsOnce

----------------------------------------------------------------------------
(* What the documents of each desk add up to is a number. *)
AccountsOK ==
    /\ ShippedOut \in Int /\ ClaimedNow \in Nat /\ SentOut \in Int /\ LandedIn \in Int /\ DeliveredIn \in Int
    /\ DrawnOut \in Int /\ MadeNow \in Nat /\ ScrappedOut \in Int /\ HeldNow \in Nat /\ BatchedIn \in Int
    /\ level \in [Rows -> Levels] /\ byHand \in [Rows -> Int] /\ shelved \in [Rows -> Int]

LEMMA AccountsTyped == DesksInv => AccountsOK
<1> SUFFICES ASSUME DesksInv PROVE AccountsOK
  OBVIOUS
<1>1. ShippedOut \in Int /\ ClaimedNow \in Nat
  <2>1. \A o \in Orders : Shipped(o) \in Int /\ Unreleased(o) \in Nat
    BY OrderTyped, OrderAmounts DEF DesksInv
  <2>2. PICK f : f = [o \in Orders |-> Shipped(o)]
    OBVIOUS
  <2>3. PICK g : g = [o \in Orders |-> Unreleased(o)]
    OBVIOUS
  <2>4. SumFunction(f) \in Int
    <3>1. f = [o \in Orders |-> f[o]] /\ \A o \in Orders : f[o] \in Int
      BY <2>1, <2>2
    <3> QED
      BY <3>1, SumTyped, WarehouseIsFinite
  <2>5. SumFunction(g) \in Nat
    <3>1. g = [o \in Orders |-> g[o]] /\ \A o \in Orders : g[o] \in Nat
      BY <2>1, <2>3
    <3> QED
      BY <3>1, SumTyped, WarehouseIsFinite
  <2> QED
    BY <2>2, <2>3, <2>4, <2>5 DEF ShippedOut, ClaimedNow
<1>2. SentOut \in Int
  <2>1. \A q \in Reqs : SentFor(q) \in Int
    BY ReqTyped, SentTyped DEF DesksInv, ReqInv, ReqTypeOK, Numbered
  <2>2. PICK f : f = [q \in Reqs |-> SentFor(q)]
    OBVIOUS
  <2>3. f = [q \in Reqs |-> f[q]] /\ \A q \in Reqs : f[q] \in Int
    BY <2>1, <2>2
  <2>4. SumFunction(f) \in Int
    BY <2>3, SumTyped, WarehouseIsFinite
  <2> QED
    BY <2>2, <2>4 DEF SentOut
<1>3. DeliveredIn \in Int
  <2>1. \A p \in Purchases : DeliveredFor(p) \in Int
    BY PurchaseTyped, DeliveredTyped DEF DesksInv
  <2>2. PICK f : f = [p \in Purchases |-> DeliveredFor(p)]
    OBVIOUS
  <2>3. f = [p \in Purchases |-> f[p]] /\ \A p \in Purchases : f[p] \in Int
    BY <2>1, <2>2
  <2>4. SumFunction(f) \in Int
    BY <2>3, SumTyped, WarehouseIsFinite
  <2> QED
    BY <2>2, <2>4 DEF DeliveredIn
<1>4. LandedIn \in Int
  <2>1. landed = [q \in Reqs |-> landed[q]] /\ \A q \in Reqs : landed[q] \in Int
    BY DEF DesksInv, ReqInv, ReqTypeOK
  <2> QED
    BY <2>1, SumTyped, WarehouseIsFinite DEF LandedIn
<1>5. DrawnOut \in Int
  <2>1. drawn = [p \in Runs |-> drawn[p]] /\ \A p \in Runs : drawn[p] \in Int
    BY MaterialTyped DEF DesksInv
  <2> QED
    BY <2>1, SumTyped, WarehouseIsFinite DEF DrawnOut
<1>6. ScrappedOut \in Int /\ HeldNow \in Nat
  <2>1. /\ scrapped = [b \in Batches |-> scrapped[b]] /\ \A b \in Batches : scrapped[b] \in Int
        /\ hold = [b \in Batches |-> hold[b]] /\ \A b \in Batches : hold[b] \in Nat
    BY StockTyped DEF DesksInv
  <2> QED
    BY <2>1, SumTyped, WarehouseIsFinite DEF ScrappedOut, HeldNow
<1>7. MadeNow \in Nat
  BY FS_Subset, FS_CardinalityType, WarehouseIsFinite DEF MadeNow
<1>8. BatchedIn \in Int
  BY <1>6, <1>7, QuarantineAssumption DEF BatchedIn
<1>9. level \in [Rows -> Levels] /\ byHand \in [Rows -> Int] /\ shelved \in [Rows -> Int]
  BY StockTyped DEF DesksInv
<1> QED
  BY <1>1, <1>2, <1>3, <1>4, <1>5, <1>6, <1>7, <1>8, <1>9 DEF AccountsOK

LEMMA RowsTyped ==
    ASSUME AccountsOK, NEW r \in Rows
    PROVE  /\ Explained(r) \in Int /\ SpokenFor(r) \in Nat
           /\ level[r].quantity \in Int /\ level[r].reserved \in Int
<1>1. byHand[r] \in Int /\ shelved[r] \in Int /\ OpeningStock[r] \in Int
  BY StockAssumption DEF AccountsOK
<1>2. SpokenFor(r) \in Nat
  BY DEF SpokenFor, At0, AccountsOK
<1>3. Explained(r) \in Int
  BY <1>1 DEF Explained, At0, AccountsOK
<1>4. level[r].quantity \in Int /\ level[r].reserved \in Int
  BY DEF AccountsOK, Levels
<1> QED
  BY <1>2, <1>3, <1>4

LEMMA BooksAre ==
    /\ OnHandIsExplained <=> (InTurn => \A r \in Rows \ lost : level[r].quantity = Explained(r))
    /\ ReservedIsSpokenFor <=> (InTurn /\ ~eaten => \A r \in Rows : level[r].reserved = SpokenFor(r))
<1>1. \A r : Explained(r) =
          OpeningStock[r] + byHand[r]
              - At0(r, Shelf, SumFunction([o \in Orders |-> Shipped(o)]))
              - At0(r, Source, SumFunction([q \in Reqs |-> SentFor(q)]))
              + At0(r, Destination, SumFunction(landed))
              + At0(r, Dock, SumFunction([p \in Purchases |-> DeliveredFor(p)]))
              - At0(r, Store, SumFunction(drawn))
              + shelved[r]
              + At0(r, Bay, BatchQty * Cardinality({b \in Batches : batch[b].made}) - SumFunction(scrapped))
  BY Zenon DEF Explained, ShippedOut, SentOut, LandedIn, DeliveredIn, DrawnOut, BatchedIn, MadeNow, ScrappedOut
<1>2. \A r : SpokenFor(r) = At0(r, Shelf, SumFunction([o \in Orders |-> Claim(o) + Stranded(o)]))
                            + At0(r, Bay, SumFunction(hold))
  <2>1. \A o \in Orders : Claim(o) + Stranded(o) = Unreleased(o)
    <3>1. \A o \in Orders : OrderQty[o] \in Nat
      BY OrderAssumption
    <3>2. \A o \in Orders : Unreleased(o) \in Nat
      BY <3>1 DEF Unreleased
    <3> QED
      BY <3>2 DEF Claim, Stranded
  <2>2. [o \in Orders |-> Claim(o) + Stranded(o)] = [o \in Orders |-> Unreleased(o)]
    BY <2>1
  <2> QED
    BY <2>2, Zenon DEF SpokenFor, ClaimedNow, HeldNow
<1>3. OnHandIsExplained <=> (InTurn => \A r \in Rows \ lost : level[r].quantity = Explained(r))
  BY <1>1, Zenon DEF OnHandIsExplained
<1>4. ReservedIsSpokenFor <=> (InTurn /\ ~eaten => \A r \in Rows : level[r].reserved = SpokenFor(r))
  BY <1>2, Zenon DEF ReservedIsSpokenFor
<1> QED
  BY <1>3, <1>4

TurnsEnd == (InTurn' => InTurn) /\ (eaten => eaten') /\ lost \subseteq lost' /\ raced \subseteq raced'

QuantityFollows ==
    \A r \in Rows : InTurn' /\ r \notin lost' /\ level[r].quantity = Explained(r)
                         => level'[r].quantity = Explained(r)'

ReservedFollows ==
    \A r \in Rows : InTurn' /\ ~eaten' /\ level[r].reserved = SpokenFor(r)
                         => level'[r].reserved = SpokenFor(r)'

StaysCovered ==
    \A r \in Rows : (/\ InTurn' /\ ~eaten' /\ r \notin raced'
                     /\ 0 <= level[r].reserved /\ level[r].reserved <= level[r].quantity)
                         => level'[r].reserved <= level'[r].quantity

SpokenIsNumber == \A r \in Rows : SpokenFor(r)' \in Nat

(* The books stay right when every row moves as its documents do. *)
LEMMA BooksMove ==
    ASSUME Books, TurnsEnd, QuantityFollows, ReservedFollows, StaysCovered, SpokenIsNumber
    PROVE  Books'
<1>1. OnHandIsExplained'
  <2>1. ASSUME InTurn', NEW r \in Rows \ lost' PROVE level'[r].quantity = Explained(r)'
    <3>1. InTurn /\ r \in Rows \ lost
      BY <2>1 DEF TurnsEnd
    <3>2. level[r].quantity = Explained(r)
      BY <3>1, BooksAre DEF Books
    <3> QED
      BY <2>1, <3>2 DEF QuantityFollows
  <2>2. (InTurn => \A r \in Rows \ lost : level[r].quantity = Explained(r))'
    BY <2>1
  <2>3. (InTurn => \A r \in Rows \ lost : level[r].quantity = Explained(r))' => OnHandIsExplained'
    BY BooksAre, PTL
  <2> QED
    BY <2>2, <2>3
<1>2. ASSUME InTurn', ~eaten', NEW r \in Rows PROVE level'[r].reserved = SpokenFor(r)'
  <2>1. InTurn /\ ~eaten
    BY <1>2 DEF TurnsEnd
  <2>2. level[r].reserved = SpokenFor(r)
    BY <2>1, BooksAre DEF Books
  <2> QED
    BY <1>2, <2>2 DEF ReservedFollows
<1>3. ReservedIsSpokenFor'
  <2>1. (InTurn /\ ~eaten => \A r \in Rows : level[r].reserved = SpokenFor(r))'
    BY <1>2
  <2>2. (InTurn /\ ~eaten => \A r \in Rows : level[r].reserved = SpokenFor(r))' => ReservedIsSpokenFor'
    BY BooksAre, PTL
  <2> QED
    BY <2>1, <2>2
<1>4. NeverOversold'
  <2>1. ASSUME InTurn', ~eaten', NEW r \in Rows \ raced'
        PROVE  0 <= level'[r].reserved /\ level'[r].reserved <= level'[r].quantity
    <3>1. InTurn /\ ~eaten /\ r \in Rows \ raced
      BY <2>1 DEF TurnsEnd
    <3>2. 0 <= level[r].reserved /\ level[r].reserved <= level[r].quantity
      BY <3>1 DEF Books, NeverOversold
    <3>3. level'[r].reserved <= level'[r].quantity
      BY <2>1, <3>2 DEF StaysCovered
    <3>4. level'[r].reserved \in Nat
      BY <1>2, <2>1 DEF SpokenIsNumber
    <3> QED
      BY <3>3, <3>4
  <2> QED
    BY <2>1 DEF NeverOversold
<1> QED
  BY <1>1, <1>3, <1>4 DEF Books

LEMMA RowNumbers == AccountsOK => \A r \in Rows : /\ Explained(r) \in Int /\ SpokenFor(r) \in Nat
                                                  /\ level[r].quantity \in Int /\ level[r].reserved \in Int
BY RowsTyped

LEMMA SpokenNumbers == AccountsOK => \A r \in Rows : SpokenFor(r) \in Nat
BY RowsTyped

LEMMA SpokenStays == AccountsOK' => SpokenIsNumber
<1>1. (AccountsOK => \A r \in Rows : SpokenFor(r) \in Nat)'
  BY SpokenNumbers, PTL
<1> QED
  BY <1>1 DEF SpokenIsNumber

LEMMA TurnsGoOn ==
    ASSUME HistoryGrows, eaten => eaten'
    PROVE  TurnsEnd
BY DEF HistoryGrows, TurnsEnd, InTurn

(* One row moves by q units on hand and v reserved, and so does what the   *)
(* documents say of it.                                                    *)
LEMMA OneRowMoves ==
    ASSUME AccountsOK, AccountsOK', Books, TurnsEnd, NEW s \in Rows, NEW q \in Int, NEW v \in Int,
           s \notin lost' => level'[s].quantity = level[s].quantity + q,
           level'[s].reserved = level[s].reserved + v,
           \A r \in Rows \ {s} : level'[r] = level[r],
           InTurn' => \A r \in Rows : Explained(r)' = Explained(r) + At0(r, s, q),
           InTurn' /\ ~eaten' => \A r \in Rows : SpokenFor(r)' = SpokenFor(r) + At0(r, s, v),
           (/\ InTurn' /\ ~eaten' /\ s \notin raced'
            /\ 0 <= level[s].reserved /\ level[s].reserved <= level[s].quantity)
               => level'[s].reserved <= level'[s].quantity
    PROVE  Books'
<1>1. \A r \in Rows : /\ Explained(r) \in Int /\ SpokenFor(r) \in Nat
                      /\ level[r].quantity \in Int /\ level[r].reserved \in Int
  BY RowNumbers
<1>2. SpokenIsNumber
  BY SpokenStays
<1>3. ASSUME NEW r \in Rows, InTurn', r \notin lost', level[r].quantity = Explained(r)
      PROVE  level'[r].quantity = Explained(r)'
  <2>1. Explained(r)' = Explained(r) + At0(r, s, q)
    BY <1>3
  <2>2. CASE r = s
    <3>1. At0(r, s, q) = q
      BY <2>2 DEF At0
    <3> QED
      BY <1>3, <2>1, <2>2, <3>1
  <2>3. CASE r # s
    <3>1. At0(r, s, q) = 0 /\ level'[r] = level[r]
      BY <2>3 DEF At0
    <3> QED
      BY <1>1, <1>3, <2>1, <3>1
  <2> QED
    BY <2>2, <2>3
<1>4. ASSUME NEW r \in Rows, InTurn', ~eaten', level[r].reserved = SpokenFor(r)
      PROVE  level'[r].reserved = SpokenFor(r)'
  <2>1. SpokenFor(r)' = SpokenFor(r) + At0(r, s, v)
    BY <1>4
  <2>2. CASE r = s
    <3>1. At0(r, s, v) = v
      BY <2>2 DEF At0
    <3> QED
      BY <1>4, <2>1, <2>2, <3>1
  <2>3. CASE r # s
    <3>1. At0(r, s, v) = 0 /\ level'[r] = level[r]
      BY <2>3 DEF At0
    <3> QED
      BY <1>1, <1>4, <2>1, <3>1
  <2> QED
    BY <2>2, <2>3
<1>5. ASSUME NEW r \in Rows, InTurn', ~eaten', r \notin raced',
             0 <= level[r].reserved, level[r].reserved <= level[r].quantity
      PROVE  level'[r].reserved <= level'[r].quantity
  <2>1. CASE r = s
    BY <1>5, <2>1
  <2>2. CASE r # s
    <3>1. level'[r] = level[r]
      BY <2>2
    <3> QED
      BY <1>5, <3>1
  <2> QED
    BY <2>1, <2>2
<1>6. QuantityFollows
  BY <1>3 DEF QuantityFollows
<1>7. ReservedFollows
  BY <1>4 DEF ReservedFollows
<1>8. StaysCovered
  BY <1>5, Zenon DEF StaysCovered
<1> QED
  BY <1>2, <1>6, <1>7, <1>8, BooksMove, Zenon

(* No row moves, and the documents say the same of each. *)
LEMMA NoRowMoves ==
    ASSUME AccountsOK, AccountsOK', Books, TurnsEnd, UNCHANGED level,
           InTurn' => \A r \in Rows : Explained(r)' = Explained(r) /\ SpokenFor(r)' = SpokenFor(r)
    PROVE  Books'
<1>1. SpokenIsNumber
  BY SpokenStays
<1>2. \A r \in Rows : level'[r] = level[r]
  OBVIOUS
<1>6. QuantityFollows
  BY <1>2 DEF QuantityFollows
<1>7. ReservedFollows
  BY <1>2 DEF ReservedFollows
<1>8. StaysCovered
  BY <1>2, Zenon DEF StaysCovered
<1> QED
  BY <1>1, <1>6, <1>7, <1>8, BooksMove, Zenon

StoresSame == UNCHANGED <<byHand, shelved, SentOut, LandedIn, DeliveredIn, DrawnOut, BatchedIn>>

LEMMA OrdersMove ==
    ASSUME AccountsOK, AccountsOK', StoresSame, UNCHANGED HeldNow, NEW q \in Int, NEW v \in Int,
           ShippedOut' = ShippedOut - q, ClaimedNow' = ClaimedNow + v
    PROVE  \A r \in Rows : Explained(r)' = Explained(r) + At0(r, Shelf, q) /\ SpokenFor(r)' = SpokenFor(r) + At0(r, Shelf, v)
<1> SUFFICES ASSUME NEW r \in Rows
             PROVE  /\ Explained(r)' = Explained(r) + At0(r, Shelf, q)
                    /\ SpokenFor(r)' = SpokenFor(r) + At0(r, Shelf, v)
  OBVIOUS
<1>1. byHand[r] \in Int /\ shelved[r] \in Int /\ OpeningStock[r] \in Int
  BY StockAssumption DEF AccountsOK
<1>2. Explained(r)' = Explained(r) + At0(r, Shelf, q)
  BY <1>1 DEF Explained, At0, AccountsOK, StoresSame
<1>3. SpokenFor(r)' = SpokenFor(r) + At0(r, Shelf, v)
  BY DEF SpokenFor, At0, AccountsOK
<1> QED
  BY <1>2, <1>3

(* One account moves, and the others rest. *)
LEMMA DocumentsRest ==
    ASSUME StoresSame, UNCHANGED <<ShippedOut, ClaimedNow, HeldNow>>
    PROVE  \A r \in Rows : Explained(r)' = Explained(r) /\ SpokenFor(r)' = SpokenFor(r)
<1>1. \A r : At0(r, Shelf, ClaimedNow)' = At0(r, Shelf, ClaimedNow) /\ At0(r, Bay, HeldNow)' = At0(r, Bay, HeldNow)
  BY DEF At0
<1>2. \A r : /\ At0(r, Shelf, ShippedOut)' = At0(r, Shelf, ShippedOut)
             /\ At0(r, Source, SentOut)' = At0(r, Source, SentOut)
             /\ At0(r, Destination, LandedIn)' = At0(r, Destination, LandedIn)
             /\ At0(r, Dock, DeliveredIn)' = At0(r, Dock, DeliveredIn)
             /\ At0(r, Store, DrawnOut)' = At0(r, Store, DrawnOut)
             /\ At0(r, Bay, BatchedIn)' = At0(r, Bay, BatchedIn)
  BY DEF At0, StoresSame
<1>3. \A r : byHand'[r] = byHand[r] /\ shelved'[r] = shelved[r]
  BY DEF StoresSame
<1> QED
  BY <1>1, <1>2, <1>3 DEF Explained, SpokenFor

RowNumbersAre(r) == byHand[r] \in Int /\ shelved[r] \in Int /\ OpeningStock[r] \in Int

LEMMA RowsNumbered == AccountsOK => \A r \in Rows : RowNumbersAre(r)
BY StockAssumption DEF AccountsOK, RowNumbersAre

LEMMA ByHandMoves ==
    ASSUME AccountsOK, UNCHANGED <<shelved, ShippedOut, ClaimedNow, SentOut, LandedIn, DeliveredIn, DrawnOut, BatchedIn, HeldNow>>,
           NEW s \in Rows, NEW d \in Int, NEW z \in Int, z = 0, byHand' = [byHand EXCEPT ![s] = @ + d]
    PROVE  \A r \in Rows : Explained(r)' = Explained(r) + At0(r, s, d) /\ SpokenFor(r)' = SpokenFor(r) + At0(r, s, z)
<1> SUFFICES ASSUME NEW r \in Rows
             PROVE  Explained(r)' = Explained(r) + At0(r, s, d) /\ SpokenFor(r)' = SpokenFor(r) + At0(r, s, z)
  OBVIOUS
<1>1. byHand[r] \in Int /\ shelved[r] \in Int /\ OpeningStock[r] \in Int
  BY RowsNumbered DEF RowNumbersAre
<1>2. byHand'[r] = byHand[r] + At0(r, s, d)
  BY <1>1 DEF At0, AccountsOK
<1>3. At0(r, s, d) \in Int
  BY DEF At0
<1>4. Explained(r)' = Explained(r) + At0(r, s, d)
  BY <1>1, <1>2, <1>3 DEF Explained, AccountsOK, At0
<1>5. SpokenFor(r)' = SpokenFor(r) + At0(r, s, z)
  BY DEF SpokenFor, At0, AccountsOK
<1> QED
  BY <1>4, <1>5

LEMMA ShelvedMoves ==
    ASSUME AccountsOK, UNCHANGED <<byHand, ShippedOut, ClaimedNow, SentOut, LandedIn, DeliveredIn, DrawnOut, BatchedIn, HeldNow>>,
           NEW s \in Rows, NEW d \in Int, NEW z \in Int, z = 0, shelved' = [shelved EXCEPT ![s] = @ + d]
    PROVE  \A r \in Rows : Explained(r)' = Explained(r) + At0(r, s, d) /\ SpokenFor(r)' = SpokenFor(r) + At0(r, s, z)
<1> SUFFICES ASSUME NEW r \in Rows
             PROVE  Explained(r)' = Explained(r) + At0(r, s, d) /\ SpokenFor(r)' = SpokenFor(r) + At0(r, s, z)
  OBVIOUS
<1>1. byHand[r] \in Int /\ shelved[r] \in Int /\ OpeningStock[r] \in Int
  BY RowsNumbered DEF RowNumbersAre
<1>2. shelved'[r] = shelved[r] + At0(r, s, d)
  BY <1>1 DEF At0, AccountsOK
<1>3. At0(r, s, d) \in Int
  BY DEF At0
<1>4. Explained(r)' = Explained(r) + At0(r, s, d)
  BY <1>1, <1>2, <1>3 DEF Explained, AccountsOK, At0
<1>5. SpokenFor(r)' = SpokenFor(r) + At0(r, s, z)
  BY DEF SpokenFor, At0, AccountsOK
<1> QED
  BY <1>4, <1>5

LEMMA SentAccount ==
    ASSUME AccountsOK, UNCHANGED <<byHand, shelved, ShippedOut, ClaimedNow, LandedIn, DeliveredIn, DrawnOut, BatchedIn, HeldNow>>,
           NEW n \in Int, NEW m \in Int, NEW z \in Int, z = 0, m = -n, SentOut' = SentOut + n
    PROVE  \A r \in Rows : Explained(r)' = Explained(r) + At0(r, Source, m) /\ SpokenFor(r)' = SpokenFor(r) + At0(r, Source, z)
<1> SUFFICES ASSUME NEW r \in Rows
             PROVE  Explained(r)' = Explained(r) + At0(r, Source, m) /\ SpokenFor(r)' = SpokenFor(r) + At0(r, Source, z)
  OBVIOUS
<1>1. byHand[r] \in Int /\ shelved[r] \in Int /\ OpeningStock[r] \in Int
  BY RowsNumbered DEF RowNumbersAre
<1> QED
  BY <1>1 DEF Explained, SpokenFor, AccountsOK, At0

LEMMA LandedAccount ==
    ASSUME AccountsOK, UNCHANGED <<byHand, shelved, ShippedOut, ClaimedNow, SentOut, DeliveredIn, DrawnOut, BatchedIn, HeldNow>>,
           NEW n \in Int, NEW z \in Int, z = 0, LandedIn' = LandedIn + n
    PROVE  \A r \in Rows : /\ Explained(r)' = Explained(r) + At0(r, Destination, n)
                           /\ SpokenFor(r)' = SpokenFor(r) + At0(r, Destination, z)
<1> SUFFICES ASSUME NEW r \in Rows
             PROVE  /\ Explained(r)' = Explained(r) + At0(r, Destination, n)
                    /\ SpokenFor(r)' = SpokenFor(r) + At0(r, Destination, z)
  OBVIOUS
<1>1. byHand[r] \in Int /\ shelved[r] \in Int /\ OpeningStock[r] \in Int
  BY RowsNumbered DEF RowNumbersAre
<1> QED
  BY <1>1 DEF Explained, SpokenFor, AccountsOK, At0

LEMMA DeliveredAccount ==
    ASSUME AccountsOK, UNCHANGED <<byHand, shelved, ShippedOut, ClaimedNow, SentOut, LandedIn, DrawnOut, BatchedIn, HeldNow>>,
           NEW n \in Int, NEW z \in Int, z = 0, DeliveredIn' = DeliveredIn + n
    PROVE  \A r \in Rows : Explained(r)' = Explained(r) + At0(r, Dock, n) /\ SpokenFor(r)' = SpokenFor(r) + At0(r, Dock, z)
<1> SUFFICES ASSUME NEW r \in Rows
             PROVE  Explained(r)' = Explained(r) + At0(r, Dock, n) /\ SpokenFor(r)' = SpokenFor(r) + At0(r, Dock, z)
  OBVIOUS
<1>1. byHand[r] \in Int /\ shelved[r] \in Int /\ OpeningStock[r] \in Int
  BY RowsNumbered DEF RowNumbersAre
<1> QED
  BY <1>1 DEF Explained, SpokenFor, AccountsOK, At0

LEMMA DrawnAccount ==
    ASSUME AccountsOK, UNCHANGED <<byHand, shelved, ShippedOut, ClaimedNow, SentOut, LandedIn, DeliveredIn, BatchedIn, HeldNow>>,
           NEW n \in Int, NEW m \in Int, NEW z \in Int, z = 0, m = -n, DrawnOut' = DrawnOut + n
    PROVE  \A r \in Rows : Explained(r)' = Explained(r) + At0(r, Store, m) /\ SpokenFor(r)' = SpokenFor(r) + At0(r, Store, z)
<1> SUFFICES ASSUME NEW r \in Rows
             PROVE  Explained(r)' = Explained(r) + At0(r, Store, m) /\ SpokenFor(r)' = SpokenFor(r) + At0(r, Store, z)
  OBVIOUS
<1>1. byHand[r] \in Int /\ shelved[r] \in Int /\ OpeningStock[r] \in Int
  BY RowsNumbered DEF RowNumbersAre
<1> QED
  BY <1>1 DEF Explained, SpokenFor, AccountsOK, At0

LEMMA BatchAccounts ==
    ASSUME AccountsOK, UNCHANGED <<byHand, shelved, ShippedOut, ClaimedNow, SentOut, LandedIn, DeliveredIn, DrawnOut>>,
           NEW q \in Int, BatchedIn' = BatchedIn + q
    PROVE  /\ \A r \in Rows : Explained(r)' = Explained(r) + At0(r, Bay, q)
           /\ \A v \in Int : HeldNow' = HeldNow + v => \A r \in Rows : SpokenFor(r)' = SpokenFor(r) + At0(r, Bay, v)
<1>1. ASSUME NEW r \in Rows PROVE Explained(r)' = Explained(r) + At0(r, Bay, q)
  <2>1. byHand[r] \in Int /\ shelved[r] \in Int /\ OpeningStock[r] \in Int
    BY RowsNumbered DEF RowNumbersAre
  <2> QED
    BY <2>1 DEF Explained, AccountsOK, At0
<1>2. ASSUME NEW r \in Rows, NEW v \in Int, HeldNow' = HeldNow + v PROVE SpokenFor(r)' = SpokenFor(r) + At0(r, Bay, v)
  BY <1>2 DEF SpokenFor, AccountsOK, At0
<1> QED
  BY <1>1, <1>2

----------------------------------------------------------------------------
(* Every step of every desk keeps the books. *)
LEMMA DesksRest ==
    /\ UNCHANGED orderVars => UNCHANGED <<ShippedOut, ClaimedNow>>
    /\ UNCHANGED reqVars => UNCHANGED <<SentOut, LandedIn>>
    /\ UNCHANGED purchaseVars => UNCHANGED DeliveredIn
    /\ UNCHANGED batchVars => UNCHANGED <<BatchedIn, HeldNow, eaten>>
    /\ UNCHANGED lineVars => UNCHANGED DrawnOut
    /\ UNCHANGED goodsVars => UNCHANGED shelved
<1>1. UNCHANGED orderVars => UNCHANGED <<ShippedOut, ClaimedNow>>
  BY AccountsRest DEF orderVars
<1>2. UNCHANGED reqVars => UNCHANGED <<SentOut, LandedIn>>
  BY AccountsRest DEF reqVars
<1>3. UNCHANGED purchaseVars => UNCHANGED DeliveredIn
  BY AccountsRest DEF purchaseVars
<1>4. UNCHANGED batchVars => UNCHANGED <<BatchedIn, HeldNow, eaten>>
  BY AccountsRest DEF batchVars, BatchedIn
<1>5. UNCHANGED lineVars => UNCHANGED DrawnOut
  BY AccountsRest DEF lineVars
<1>6. UNCHANGED goodsVars => UNCHANGED shelved
  BY DEF goodsVars
<1> QED
  BY <1>1, <1>2, <1>3, <1>4, <1>5, <1>6

LEMMA NothingBooked ==
    ASSUME AccountsOK, AccountsOK', Books, TurnsEnd, UNCHANGED level,
           StoresSame, UNCHANGED <<ShippedOut, ClaimedNow, HeldNow>>
    PROVE  Books'
<1>1. \A r \in Rows : Explained(r)' = Explained(r) /\ SpokenFor(r)' = SpokenFor(r)
  BY DocumentsRest
<1> QED
  BY <1>1, NoRowMoves

LEMMA AccountsThen == DesksInv' => AccountsOK'
BY AccountsTyped, PTL

(* The shelf itself *)
LEMMA AdjustmentBooks ==
    ASSUME DesksInv, DesksInv', Books, NEW j \in Jobs, AtShelf(j), AdjustStock(j)
    PROVE  Books'
<1>1. PICK s \in Rows, saw \in Levels, d \in Int :
          /\ Overwrite(s, saw, d) /\ MayAdjust(saw, d)
          /\ byHand' = [byHand EXCEPT ![s] = @ + d]
  BY AdjustmentShelves
<1>2. PICK z \in Int : z = 0
  OBVIOUS
<1>3. AccountsOK /\ AccountsOK'
  BY AccountsTyped, AccountsThen
<1>4. /\ UNCHANGED <<shelved, ShippedOut, ClaimedNow, SentOut, LandedIn, DeliveredIn, DrawnOut, BatchedIn, HeldNow>>
      /\ UNCHANGED eaten
  BY DesksRest DEF AtShelf, StoresRest, OrdersRest
<1>5. TurnsEnd
  BY <1>4, ShelfWorks, TurnsGoOn DEF AtShelf, Works
<1>6. /\ level'[s].quantity = saw.quantity + d /\ level'[s].reserved = level[s].reserved
      /\ \A r \in Rows \ {s} : level'[r] = level[r]
      /\ s \notin lost' => level[s].quantity = saw.quantity
      /\ s \notin raced' => level[s] = saw
  BY <1>1, <1>3, RowOverwritten DEF AccountsOK
<1>7. \A r \in Rows : Explained(r)' = Explained(r) + At0(r, s, d) /\ SpokenFor(r)' = SpokenFor(r) + At0(r, s, z)
  BY <1>1, <1>2, <1>3, <1>4, ByHandMoves
<1>8. level[s].reserved \in Int /\ level[s].quantity \in Int
  BY <1>3, RowNumbers
<1>9. level'[s].reserved = level[s].reserved + z
  BY <1>2, <1>6, <1>8
<1>10. s \notin lost' => level'[s].quantity = level[s].quantity + d
  BY <1>6
<1>11. s \notin raced' => level'[s].reserved <= level'[s].quantity
  BY <1>1, <1>6, <1>8 DEF MayAdjust
<1> QED
  BY <1>3, <1>5, <1>6, <1>7, <1>9, <1>10, <1>11, OneRowMoves

LEMMA TransferBooks ==
    ASSUME DesksInv, DesksInv', Books, NEW j \in Jobs, AtShelf(j), CreateTransfer(j)
    PROVE  Books'
<1>1. PICK a \in Rows, b \in Rows, n \in Nat, saw \in Levels : TakesAndPuts(a, b, n, saw)
  BY TransferShelves
<1>3. AccountsOK /\ AccountsOK'
  BY AccountsTyped, AccountsThen
<1>4. /\ UNCHANGED <<shelved, ShippedOut, ClaimedNow, SentOut, LandedIn, DeliveredIn, DrawnOut, BatchedIn, HeldNow>>
      /\ UNCHANGED eaten
  BY DesksRest DEF AtShelf, StoresRest, OrdersRest
<1>5. TurnsEnd
  BY <1>4, ShelfWorks, TurnsGoOn DEF AtShelf, Works
<1>6. \A r \in Rows : RowNumbersAre(r) /\ SpokenFor(r)' = SpokenFor(r)
  BY <1>3, <1>4, RowsNumbered DEF SpokenFor, At0
<1>7. ASSUME NEW r \in Rows, NEW d \in Int, byHand'[r] = byHand[r] + d PROVE Explained(r)' = Explained(r) + d
  BY <1>3, <1>4, <1>6, <1>7 DEF Explained, AccountsOK, At0, RowNumbersAre
<1>8. \A r \in Rows : level[r].quantity \in Int /\ level[r].reserved \in Int /\ Explained(r) \in Int
  BY <1>3, RowNumbers
<1>9. \A r \in Rows : Explained(r)' = Explained(r) + (level'[r].quantity - level[r].quantity)
  <2> SUFFICES ASSUME NEW r \in Rows
               PROVE  Explained(r)' = Explained(r) + (level'[r].quantity - level[r].quantity)
    OBVIOUS
  <2>1. CASE r = a
    <3>1. PICK d \in Int : d = -n
      OBVIOUS
    <3>2. byHand'[r] = byHand[r] + d /\ level'[r].quantity = level[r].quantity + d
      BY <1>1, <1>6, <1>8, <2>1, <3>1 DEF TakesAndPuts, RowNumbersAre
    <3> QED
      BY <1>7, <1>8, <3>2
  <2>2. CASE r = b
    <3>1. byHand'[r] = byHand[r] + n /\ level'[r].quantity = level[r].quantity + n
      BY <1>1, <2>2 DEF TakesAndPuts
    <3> QED
      BY <1>7, <1>8, <3>1
  <2>3. CASE r \notin {a, b}
    <3>1. PICK d \in Int : d = 0
      OBVIOUS
    <3>2. byHand'[r] = byHand[r] /\ level'[r] = level[r]
      BY <1>1, <2>3 DEF TakesAndPuts
    <3>3. byHand'[r] = byHand[r] + d /\ level'[r].quantity = level[r].quantity + d
      BY <1>6, <1>8, <3>1, <3>2 DEF RowNumbersAre
    <3> QED
      BY <1>7, <1>8, <3>3
  <2> QED
    BY <2>1, <2>2, <2>3
<1>10. \A r \in Rows : level'[r].quantity \in Int
  BY <1>3 DEF AccountsOK, Levels
<1>11. QuantityFollows
  BY <1>8, <1>9, <1>10 DEF QuantityFollows
<1>12. \A r \in Rows : level'[r].reserved = level[r].reserved
  BY <1>1 DEF TakesAndPuts
<1>13. ReservedFollows
  BY <1>6, <1>12 DEF ReservedFollows
<1>14. ASSUME NEW r \in Rows, r \notin raced', level[r].reserved <= level[r].quantity
       PROVE  level'[r].reserved <= level'[r].quantity
  <2>1. CASE r = a
    <3>1. level[r] = saw
      BY <1>1, <1>14, <2>1 DEF TakesAndPuts, Stale
    <3>2. n <= level[r].quantity - level[r].reserved
      BY <1>1, <3>1 DEF TakesAndPuts, Available
    <3> QED
      BY <1>1, <1>8, <1>12, <2>1, <3>2 DEF TakesAndPuts
  <2>2. CASE r = b
    BY <1>1, <1>8, <1>12, <1>14, <2>2 DEF TakesAndPuts
  <2>3. CASE r \notin {a, b}
    BY <1>1, <1>14, <2>3 DEF TakesAndPuts
  <2> QED
    BY <2>1, <2>2, <2>3
<1>15. StaysCovered
  BY <1>14 DEF StaysCovered
<1>16. SpokenIsNumber
  BY <1>3, SpokenStays
<1> QED
  BY <1>5, <1>11, <1>13, <1>15, <1>16, BooksMove

LEMMA ShelfBooks ==
    ASSUME DesksInv, DesksInv', Books, NEW j \in Jobs, AtShelf(j)
    PROVE  Books'
<1>1. CASE AdjustStock(j)
  BY <1>1, AdjustmentBooks
<1>2. CASE CreateTransfer(j)
  BY <1>2, TransferBooks
<1>3. CASE ~AdjustStock(j) /\ ~CreateTransfer(j)
  <2>1. UNCHANGED <<level, byHand>>
    BY <1>3 DEF AtShelf, StockStep, ReadForAdjust, ReadForTransfer
  <2>2. /\ UNCHANGED <<shelved, ShippedOut, ClaimedNow, SentOut, LandedIn, DeliveredIn, DrawnOut, BatchedIn, HeldNow>>
        /\ UNCHANGED eaten
    BY DesksRest DEF AtShelf, StoresRest, OrdersRest
  <2>3. TurnsEnd
    BY <2>2, ShelfWorks, TurnsGoOn DEF AtShelf, Works
  <2>4. StoresSame
    BY <2>1, <2>2 DEF StoresSame
  <2>5. AccountsOK /\ AccountsOK'
    BY AccountsTyped, AccountsThen
  <2> QED
    BY <2>1, <2>2, <2>3, <2>4, <2>5, NothingBooked
<1> QED
  BY <1>1, <1>2, <1>3

(* Orders and couriers *)
LEMMA OrdersThen == DesksInv' => order' \in [Orders -> OrderRows]
<1>1. DesksInv => order \in [Orders -> OrderRows]
  BY OrderTyped DEF DesksInv
<1>2. DesksInv' => (order \in [Orders -> OrderRows])'
  BY <1>1, PTL
<1> QED
  BY <1>2

LEMMA OrderDeskRests ==
    ASSUME DesksInv, NEW j \in Jobs, AtOrders(j) \/ AtCouriers(j)
    PROVE  StoresSame /\ UNCHANGED HeldNow /\ TurnsEnd
<1>1. UNCHANGED <<shelved, SentOut, LandedIn, DeliveredIn, DrawnOut, BatchedIn, HeldNow, eaten>>
  BY DesksRest DEF AtOrders, AtCouriers, StoresRest
<1>2. UNCHANGED byHand
  BY OrdersByHand, CouriersLevel DEF AtOrders, AtCouriers
<1>3. HistoryGrows
  BY OrdersWork, CouriersWork DEF AtOrders, AtCouriers, Works
<1> QED
  BY <1>1, <1>2, <1>3, TurnsGoOn DEF StoresSame

(* The order desk's shelf moves as what its orders shipped and claim. *)
LEMMA ShelfMoves ==
    ASSUME DesksInv, DesksInv', Books, NEW j \in Jobs, AtOrders(j), NEW o \in Orders,
           \A p \in Orders \ {o} : order'[p] = order[p],
           NEW q \in Int, NEW v \in Int, level' = [level EXCEPT ![Shelf] = Shift(@, q, v)],
           InTurn' => Shipped(o)' = Shipped(o) - q /\ Unreleased(o)' = Unreleased(o) + v,
           (InTurn' /\ Shelf \notin raced' /\ level[Shelf].reserved <= level[Shelf].quantity)
               => level[Shelf].reserved + v <= level[Shelf].quantity + q
    PROVE  Books'
<1>1. AccountsOK /\ AccountsOK' /\ Shelf \in Rows
  BY AccountsTyped, AccountsThen, OrderRow
<1>2. StoresSame /\ UNCHANGED HeldNow /\ TurnsEnd
  BY OrderDeskRests
<1>3. /\ level'[Shelf].quantity = level[Shelf].quantity + q /\ level'[Shelf].reserved = level[Shelf].reserved + v
      /\ \A r \in Rows \ {Shelf} : level'[r] = level[r]
  BY <1>1, RowShifts DEF AccountsOK
<1>4. order \in [Orders -> OrderRows] /\ order' \in [Orders -> OrderRows]
  BY OrderTyped, OrdersThen DEF DesksInv
<1>5. /\ ShippedOut' = ShippedOut - Shipped(o) + Shipped(o)'
      /\ ClaimedNow' = ClaimedNow - Unreleased(o) + Unreleased(o)'
  BY <1>4, OrderAccounts
<1>6. Shipped(o) \in Nat /\ Unreleased(o) \in Nat
  BY <1>4, OrderAmounts
<1>7. ASSUME InTurn' PROVE ShippedOut' = ShippedOut - q /\ ClaimedNow' = ClaimedNow + v
  BY <1>1, <1>5, <1>6, <1>7 DEF AccountsOK
<1>8. InTurn' => \A r \in Rows : /\ Explained(r)' = Explained(r) + At0(r, Shelf, q)
                                 /\ SpokenFor(r)' = SpokenFor(r) + At0(r, Shelf, v)
  BY <1>1, <1>2, <1>7, OrdersMove
<1> QED
  BY <1>1, <1>2, <1>3, <1>8, OneRowMoves

LEMMA PlacementBooks ==
    ASSUME DesksInv, DesksInv', Books, NEW j \in Jobs, AtOrders(j), PlaceOrder(j)
    PROVE  Books'
<1>1. PICK o : o = job[j].order
  OBVIOUS
<1>2. o \in Orders /\ ~Exists(o) /\ ~order[o].shipped /\ ~order[o].cancelled
  BY <1>1, OrderTyped DEF DesksInv, OrderJob, PlaceOrder, Doing, StandsFor
<1>3. PICK n \in Nat : n = OrderQty[o]
  BY <1>2, OrderRow
<1>4. PICK z \in Int : z = 0
  OBVIOUS
<1>5. level' = [level EXCEPT ![Shelf] = Shift(@, z, n)] /\ Available(level[Shelf]) >= n
  BY <1>1, <1>3, <1>4 DEF PlaceOrder, ClaimStock
<1>6. PICK e : e = [order[o] EXCEPT !.status = "PENDING"]
  OBVIOUS
<1>7. order' = [order EXCEPT ![o] = e]
  BY <1>1, <1>6 DEF PlaceOrder
<1>8. order \in [Orders -> OrderRows]
  BY OrderTyped DEF DesksInv
<1>9. order'[o] = e /\ e.status = "PENDING" /\ e.shipped = order[o].shipped /\ e.cancelled = order[o].cancelled
  BY <1>2, <1>6, <1>7, <1>8 DEF OrderRows
<1>10. \A p \in Orders \ {o} : order'[p] = order[p]
  BY <1>2, <1>7, <1>8
<1>11. Shipped(o) = 0 /\ Unreleased(o) = 0 /\ Shipped(o)' = 0 /\ Unreleased(o)' = n
  BY <1>2, <1>3, <1>9 DEF Shipped, Unreleased, Exists
<1>12. level[Shelf].quantity \in Int /\ level[Shelf].reserved \in Int
  BY <1>2, OrderRow, AccountsTyped, RowNumbers
<1>13. InTurn' => Shipped(o)' = Shipped(o) - z /\ Unreleased(o)' = Unreleased(o) + n
  BY <1>3, <1>4, <1>11
<1>14. (InTurn' /\ Shelf \notin raced' /\ level[Shelf].reserved <= level[Shelf].quantity)
           => level[Shelf].reserved + n <= level[Shelf].quantity + z
  BY <1>3, <1>4, <1>5, <1>12 DEF Available
<1> QED
  <2>1. AtOrders(j) /\ o \in Orders /\ n \in Int /\ z \in Int
    BY <1>2, <1>3, <1>4
  <2>2. level' = [level EXCEPT ![Shelf] = Shift(@, z, n)]
    BY <1>5
  <2> QED
    BY <1>10, <1>13, <1>14, <2>1, <2>2, ShelfMoves

(* A step of either desk that moves no stock, ships nothing and drops no   *)
(* claim.                                                                  *)
LEMMA OrderRowBooks ==
    ASSUME DesksInv, DesksInv', Books, NEW j \in Jobs, AtOrders(j) \/ AtCouriers(j), UNCHANGED level,
           NEW o \in Orders, \A p \in Orders \ {o} : order'[p] = order[p],
           Shipped(o)' = Shipped(o), Unreleased(o)' = Unreleased(o)
    PROVE  Books'
<1>1. AccountsOK /\ AccountsOK'
  BY AccountsTyped, AccountsThen
<1>2. StoresSame /\ UNCHANGED HeldNow /\ TurnsEnd
  BY OrderDeskRests
<1>3. order \in [Orders -> OrderRows] /\ order' \in [Orders -> OrderRows]
  BY OrderTyped, OrdersThen DEF DesksInv
<1>4. /\ ShippedOut' = ShippedOut - Shipped(o) + Shipped(o)'
      /\ ClaimedNow' = ClaimedNow - Unreleased(o) + Unreleased(o)'
  BY <1>3, OrderAccounts
<1>5. Shipped(o) \in Nat /\ Unreleased(o) \in Nat
  BY <1>3, OrderAmounts
<1>6. UNCHANGED <<ShippedOut, ClaimedNow>>
  BY <1>1, <1>4, <1>5 DEF AccountsOK
<1> QED
  BY <1>1, <1>2, <1>6, NothingBooked

(* A row rewritten with its claims and shipments as they were. *)
LEMMA OrderRewrites ==
    ASSUME DesksInv, DesksInv', Books, NEW j \in Jobs, AtOrders(j) \/ AtCouriers(j), UNCHANGED level,
           NEW o \in Orders, Exists(o), NEW e, order' = [order EXCEPT ![o] = e],
           e.status # "ABSENT", e.shipped = order[o].shipped, e.cancelled = order[o].cancelled
    PROVE  Books'
<1>1. order \in [Orders -> OrderRows]
  BY OrderTyped DEF DesksInv
<1>2. order'[o] = e /\ \A p \in Orders \ {o} : order'[p] = order[p]
  BY <1>1
<1>3. Shipped(o)' = Shipped(o) /\ Unreleased(o)' = Unreleased(o)
  BY <1>2 DEF Shipped, Unreleased, Exists
<1> QED
  BY <1>2, <1>3, OrderRowBooks

LEMMA TransitionBooks ==
    ASSUME DesksInv, DesksInv', Books, NEW j \in Jobs, AtOrders(j), Transition(j)
    PROVE  Books'
<1>1. PICK o, from, to : o = job[j].order /\ from = job[j].from /\ to = job[j].to
  OBVIOUS
<1>2. o \in Orders /\ Exists(o) /\ <<from, to>> \in TRANSITIONS
  BY <1>1, OrderTyped DEF DesksInv, OrderJob, Transition, Doing
<1>3. PICK e : e = [order[o] EXCEPT !.status = to, !.shipped = @ \/ to = "DISPATCHED",
                                    !.cancelled = @ \/ to = "CANCELLED"]
  OBVIOUS
<1>4. order' = [order EXCEPT ![o] = e]
  <2>1. order' = [order EXCEPT ![o].status = to, ![o].shipped = @ \/ to = "DISPATCHED",
                               ![o].cancelled = @ \/ to = "CANCELLED"]
    BY <1>1 DEF Transition
  <2> QED
    BY <1>3, <2>1
<1>5. overtaken' = overtaken \cup (IF order[o].status # from THEN {o} ELSE {})
  BY <1>1 DEF Transition, Overtaken
<1>6. order \in [Orders -> OrderRows]
  BY OrderTyped DEF DesksInv
<1>7. /\ to = "CANCELLED" => from \in ToCancel
      /\ to = "DISPATCHED" => from \in ToCancel
      /\ to # "ABSENT"
  BY <1>2, TransitionsAre DEF ToCancel
<1>8. /\ order'[o] = e /\ e.status = to
      /\ e.shipped = (order[o].shipped \/ to = "DISPATCHED")
      /\ e.cancelled = (order[o].cancelled \/ to = "CANCELLED")
  <2>1. order[o] \in OrderRows
    BY <1>2, <1>6
  <2> QED
    BY <1>2, <1>3, <1>4, <1>6, <2>1 DEF OrderRows
<1>9. \A p \in Orders \ {o} : order'[p] = order[p]
  BY <1>2, <1>4, <1>6
<1>10. PICK n \in Nat : n = OrderQty[o]
  BY <1>2, OrderRow
<1>11. PICK m \in Int, z \in Int : m = -n /\ z = 0
  BY <1>10
<1>12. StockEffect(to, n)
  BY <1>1, <1>10 DEF Transition
<1>13. level[Shelf].quantity \in Int /\ level[Shelf].reserved \in Int
  BY <1>2, OrderRow, AccountsTyped, RowNumbers
<1>14. ASSUME InTurn', to \in {"CANCELLED", "DISPATCHED"}
       PROVE  ~order[o].shipped /\ ~order[o].cancelled
  <2>1. o \notin overtaken /\ order[o].status = from
    BY <1>2, <1>5, <1>14 DEF InTurn
  <2> QED
    BY <1>2, <1>7, <1>14, <2>1, OrderTyped DEF DesksInv, StandsFor
<1>15. CASE to = "DISPATCHED"
  <2>1. level' = [level EXCEPT ![Shelf] = Shift(@, m, m)]
    BY <1>11, <1>12, <1>15 DEF StockEffect
  <2>2. ASSUME InTurn' PROVE Shipped(o)' = Shipped(o) - m /\ Unreleased(o)' = Unreleased(o) + m
    <3>1. Shipped(o) = 0 /\ Unreleased(o) = n /\ Shipped(o)' = n /\ Unreleased(o)' = 0
      BY <1>2, <1>8, <1>10, <1>14, <1>15, <2>2 DEF Shipped, Unreleased
    <3> QED
      BY <1>10, <1>11, <3>1
  <2>3. level[Shelf].reserved <= level[Shelf].quantity
            => level[Shelf].reserved + m <= level[Shelf].quantity + m
    BY <1>11, <1>13
  <2> QED
    BY <1>2, <1>9, <2>1, <2>2, <2>3, ShelfMoves
<1>16. CASE to = "CANCELLED"
  <2>1. level' = [level EXCEPT ![Shelf] = Shift(@, z, m)]
    BY <1>11, <1>12, <1>16 DEF StockEffect
  <2>2. ASSUME InTurn' PROVE Shipped(o)' = Shipped(o) - z /\ Unreleased(o)' = Unreleased(o) + m
    <3>1. Shipped(o) = 0 /\ Unreleased(o) = n /\ Shipped(o)' = 0 /\ Unreleased(o)' = 0
      BY <1>2, <1>8, <1>10, <1>14, <1>16, <2>2 DEF Shipped, Unreleased
    <3> QED
      BY <1>10, <1>11, <3>1
  <2>3. level[Shelf].reserved <= level[Shelf].quantity
            => level[Shelf].reserved + m <= level[Shelf].quantity + z
    BY <1>10, <1>11, <1>13
  <2> QED
    BY <1>2, <1>9, <2>1, <2>2, <2>3, ShelfMoves
<1>17. CASE to \notin {"DISPATCHED", "CANCELLED"}
  <2>1. UNCHANGED level
    BY <1>12, <1>17 DEF StockEffect
  <2>2. order[o] \in OrderRows /\ e.shipped = order[o].shipped /\ e.cancelled = order[o].cancelled
    BY <1>2, <1>6, <1>8, <1>17 DEF OrderRows
  <2>3. Shipped(o)' = Shipped(o) /\ Unreleased(o)' = Unreleased(o)
    BY <1>2, <1>7, <1>8, <2>2 DEF Shipped, Unreleased, Exists
  <2> QED
    BY <1>2, <1>9, <2>1, <2>3, OrderRowBooks
<1> QED
  BY <1>15, <1>16, <1>17

LEMMA RefundBooks ==
    ASSUME DesksInv, DesksInv', Books, NEW j \in Jobs, AtOrders(j), Refund(j)
    PROVE  Books'
<1>1. PICK o : o = job[j].order
  OBVIOUS
<1>2. o \in Orders /\ Exists(o) /\ order[o] \in OrderRows
  BY <1>1, OrderTyped DEF DesksInv, OrderJob, Refund, Doing
<1>3. PICK e : e = [order[o] EXCEPT !.status = "REFUNDED", !.payStatus = "REFUNDED"]
  OBVIOUS
<1>4. order' = [order EXCEPT ![o] = e] /\ UNCHANGED level
  <2>1. order' = [order EXCEPT ![o].status = "REFUNDED", ![o].payStatus = "REFUNDED"]
    BY <1>1 DEF Refund
  <2> QED
    BY <1>3, <2>1 DEF Refund
<1>5. e.status # "ABSENT" /\ e.shipped = order[o].shipped /\ e.cancelled = order[o].cancelled
  BY <1>2, <1>3 DEF OrderRows
<1> QED
  BY <1>2, <1>4, <1>5, OrderRewrites

LEMMA PaymentBooks ==
    ASSUME DesksInv, DesksInv', Books, NEW j \in Jobs, AtOrders(j), RecordPayment(j)
    PROVE  Books'
<1>1. PICK o : o = job[j].order
  OBVIOUS
<1>2. o \in Orders /\ Exists(o) /\ order[o] \in OrderRows
  BY <1>1, OrderTyped DEF DesksInv, OrderJob, RecordPayment, Doing
<1>3. PICK said : said = IF FullyPaid(job[j]) THEN "PAID" ELSE "PARTIALLY_PAID"
  OBVIOUS
<1>4. PICK paid : paid = order[o].paid + job[j].n
  OBVIOUS
<1>5. PICK e : e = [order[o] EXCEPT !.paid = paid, !.payStatus = said]
  OBVIOUS
<1>6. order' = [order EXCEPT ![o] = e] /\ UNCHANGED level
  <2>1. order' = [order EXCEPT ![o].paid = @ + job[j].n, ![o].payStatus = said]
    BY <1>1, <1>3 DEF RecordPayment
  <2>2. order' = [order EXCEPT ![o] = e]
    BY <1>4, <1>5, <2>1
  <2> QED
    BY <2>2 DEF RecordPayment
<1>7. e.status = order[o].status /\ e.shipped = order[o].shipped /\ e.cancelled = order[o].cancelled
  BY <1>2, <1>5 DEF OrderRows
<1>8. e.status # "ABSENT"
  BY <1>2, <1>7 DEF Exists
<1> QED
  BY <1>2, <1>6, <1>7, <1>8, OrderRewrites

LEMMA PushBooks ==
    ASSUME DesksInv, DesksInv', Books, NEW j \in Jobs, AtCouriers(j), PushOrder(j)
    PROVE  Books'
<1>1. PICK o, to : o = job[j].order /\ to = job[j].to
  OBVIOUS
<1>2. o \in Orders /\ Exists(o) /\ order[o] \in OrderRows /\ to \in StagesFor
  BY <1>1, OrderTyped DEF DesksInv, OrderJob, PushOrder, Doing
<1>3. PICK e : e = [order[o] EXCEPT !.status = to]
  OBVIOUS
<1>4. order' = [order EXCEPT ![o] = e] /\ UNCHANGED level
  BY <1>1, <1>3 DEF PushOrder
<1>5. e.status # "ABSENT" /\ e.shipped = order[o].shipped /\ e.cancelled = order[o].cancelled
  BY <1>2, <1>3 DEF OrderRows, StagesFor
<1> QED
  BY <1>2, <1>4, <1>5, OrderRewrites

LEMMA OrdersBooks ==
    ASSUME DesksInv, DesksInv', Books, NEW j \in Jobs, AtOrders(j) \/ AtCouriers(j)
    PROVE  Books'
<1>1. CASE AtOrders(j) /\ PlaceOrder(j)
  BY <1>1, PlacementBooks
<1>2. CASE AtOrders(j) /\ Transition(j)
  BY <1>2, TransitionBooks
<1>3. CASE AtOrders(j) /\ Refund(j)
  BY <1>3, RefundBooks
<1>4. CASE AtOrders(j) /\ RecordPayment(j)
  BY <1>4, PaymentBooks
<1>5. CASE AtCouriers(j) /\ PushOrder(j)
  BY <1>5, PushBooks
<1>6. CASE \/ AtOrders(j) /\ ~PlaceOrder(j) /\ ~Transition(j) /\ ~Refund(j) /\ ~RecordPayment(j)
           \/ AtCouriers(j) /\ ~PushOrder(j)
  <2>1. UNCHANGED <<level, orderVars>>
    <3>1. ASSUME OrderStep(j), ~PlaceOrder(j), ~Transition(j), ~Refund(j), ~RecordPayment(j)
          PROVE  UNCHANGED <<level, orderVars>>
      BY <3>1 DEF OrderStep, ValidateCoupon, ReadForTransition, ReadForRefund, ReadForPayment, stockVars
    <3>2. ASSUME CourierStep(j), ~PushOrder(j)
          PROVE  UNCHANGED <<level, orderVars>>
      BY <3>2 DEF CourierStep, ReadForBooking, BookShipment, SetShipmentStatus, Callback, RecordEvent, FollowEvent,
         ReadForProjection, stockVars
    <3> QED
      BY <1>6, <3>1, <3>2 DEF AtOrders, AtCouriers
  <2>2. UNCHANGED <<ShippedOut, ClaimedNow>>
    BY <2>1, DesksRest
  <2>3. StoresSame /\ UNCHANGED HeldNow /\ TurnsEnd
    BY OrderDeskRests
  <2>4. AccountsOK /\ AccountsOK'
    BY AccountsTyped, AccountsThen
  <2> QED
    BY <2>1, <2>2, <2>3, <2>4, NothingBooked
<1> QED
  BY <1>1, <1>2, <1>3, <1>4, <1>5, <1>6

(* Requisitions *)
LEMMA ReqDeskRests ==
    ASSUME DesksInv, NEW j \in Jobs, AtRequisitions(j)
    PROVE  /\ UNCHANGED <<byHand, shelved, ShippedOut, ClaimedNow, DeliveredIn, DrawnOut, BatchedIn, HeldNow>>
           /\ TurnsEnd
<1>1. UNCHANGED <<shelved, ShippedOut, ClaimedNow, DeliveredIn, DrawnOut, BatchedIn, HeldNow, eaten>>
  BY DesksRest DEF AtRequisitions, OrdersRest
<1>2. UNCHANGED byHand
  BY RequisitionsLevel DEF AtRequisitions
<1>3. HistoryGrows
  BY RequisitionsWork DEF AtRequisitions, Works
<1> QED
  BY <1>1, <1>2, <1>3, TurnsGoOn

LEMMA DispatchBooks ==
    ASSUME DesksInv, DesksInv', Books, NEW j \in Jobs, AtRequisitions(j), Dispatch(j)
    PROVE  Books'
<1>1. PICK n \in Int, m \in Int, z \in Int :
          /\ n = job[j].n /\ n > 0 /\ m = -n /\ z = 0
          /\ level' = [level EXCEPT ![Source] = Shift(@, m, z)]
  BY DispatchShifts
<1>2. job[j].req \in Reqs /\ Source \in Rows
  BY DispatchShifts
<1>3. AccountsOK /\ AccountsOK'
  BY AccountsTyped, AccountsThen
<1>4. /\ UNCHANGED <<byHand, shelved, ShippedOut, ClaimedNow, DeliveredIn, DrawnOut, BatchedIn, HeldNow>>
      /\ TurnsEnd
  BY ReqDeskRests
<1>5. /\ level'[Source].quantity = level[Source].quantity + m /\ level'[Source].reserved = level[Source].reserved + z
      /\ \A r \in Rows \ {Source} : level'[r] = level[r]
  BY <1>1, <1>2, <1>3, RowShifts DEF AccountsOK
<1>6. PICK l : l = [id |-> Cardinality(loads), req |-> job[j].req, key |-> job[j].key, qty |-> job[j].n,
                    status |-> "IN_TRANSIT"]
  OBVIOUS
<1>7. loads' = loads \cup {l} /\ raced' = raced \cup Stale(Source, job[j].shelf) /\ UNCHANGED landed
  BY <1>6 DEF Dispatch
<1>8. job[j].op = "send"
  BY DEF Dispatch, Doing
<1>9. l \in Loads /\ l.req = job[j].req /\ l.qty = n /\ l.id = Cardinality(loads)
  <2>1. ReqJob(job[j]) /\ Cardinality(loads) \in Nat
    BY ReqTyped DEF DesksInv
  <2>2. job[j].n \in Nat \ {0} /\ job[j].key \in LoadKeys
    BY <1>8, <2>1 DEF ReqJob
  <2> QED
    BY <1>1, <1>2, <1>6, <2>1, <2>2 DEF Loads
<1>10. l \notin loads
  BY <1>9, OneMoreLoad, ReqTyped DEF DesksInv
<1>11. /\ SentFor(l.req)' = SentFor(l.req) + n
       /\ \A q \in Reqs : q # l.req => SentFor(q)' = SentFor(q)
  BY <1>7, <1>9, <1>10, LoadAdds, ReqTyped DEF DesksInv, Numbered
<1>12. \A q \in Reqs : SentFor(q) \in Int
  BY SentTyped, ReqTyped DEF DesksInv, Numbered
<1>13. l.req \in Reqs
  BY <1>2, <1>9
<1>14. SentOut' = SentOut + n
  BY <1>11, <1>12, <1>13, SentMoves
<1>15. UNCHANGED LandedIn
  BY <1>7, AccountsRest
<1>16. \A r \in Rows : Explained(r)' = Explained(r) + At0(r, Source, m) /\ SpokenFor(r)' = SpokenFor(r) + At0(r, Source, z)
  BY <1>1, <1>3, <1>4, <1>14, <1>15, SentAccount
<1>17. Source \notin raced' => level'[Source].reserved <= level'[Source].quantity
  <2>1. StockJob(job[j])
    BY StockTyped DEF DesksInv
  <2>2. job[j].shelf \in Levels /\ n <= Available(job[j].shelf)
    BY <1>1, <1>8, <2>1 DEF StockJob
  <2>3. Source \notin raced' => level[Source] = job[j].shelf
    BY <1>7 DEF Stale
  <2>4. level[Source].quantity \in Int /\ level[Source].reserved \in Int
    BY <1>2, <1>3, RowNumbers
  <2> QED
    BY <1>1, <1>5, <2>2, <2>3, <2>4 DEF Available
<1> QED
  BY <1>1, <1>2, <1>3, <1>4, <1>5, <1>16, <1>17, OneRowMoves

LEMMA ReceiptBooks ==
    ASSUME DesksInv, DesksInv', Books, NEW j \in Jobs, AtRequisitions(j), Receive(j)
    PROVE  Books'
<1>1. PICK n \in Int, z \in Int :
          /\ n = job[j].n /\ n > 0 /\ z = 0 /\ level' = [level EXCEPT ![Destination] = Shift(@, n, z)]
  BY ReceiveShifts
<1>2. PICK q : q = job[j].req
  OBVIOUS
<1>3. AccountsOK /\ AccountsOK' /\ q \in Reqs /\ Destination \in Rows
  BY <1>2, AccountsTyped, AccountsThen, ReceiveShifts
<1>4. /\ UNCHANGED <<byHand, shelved, ShippedOut, ClaimedNow, DeliveredIn, DrawnOut, BatchedIn, HeldNow>>
      /\ TurnsEnd
  BY ReqDeskRests
<1>5. /\ level'[Destination].quantity = level[Destination].quantity + n
      /\ level'[Destination].reserved = level[Destination].reserved + z
      /\ \A r \in Rows \ {Destination} : level'[r] = level[r]
  BY <1>1, <1>3, RowShifts DEF AccountsOK
<1>6. PICK d : d = [req[q] EXCEPT !.received = job[j].saw.received + job[j].n]
  OBVIOUS
<1>7. loads' = IF d.received >= d.dispatched
               THEN {IF l.req = q THEN [l EXCEPT !.status = "RECEIVED"] ELSE l : l \in loads}
               ELSE loads
  BY <1>2, <1>6 DEF Receive
<1>8. UNCHANGED SentOut
  <2>1. CASE d.received >= d.dispatched
    <3>1. loads' = {IF l.req = q THEN [l EXCEPT !.status = "RECEIVED"] ELSE l : l \in loads}
      BY <1>7, <2>1
    <3>2. \A p \in Reqs : SentFor(p)' = SentFor(p)
      BY <3>1, LoadsArrive, ReqTyped DEF DesksInv
    <3>3. [p \in Reqs |-> SentFor(p)'] = [p \in Reqs |-> SentFor(p)]
      BY <3>2
    <3> QED
      BY <3>3 DEF SentOut
  <2>2. CASE ~(d.received >= d.dispatched)
    BY <1>7, <2>2, AccountsRest
  <2> QED
    BY <2>1, <2>2
<1>9. landed \in [Reqs -> Int]
  BY ReqTyped DEF DesksInv
<1>10. PICK v \in Int : v = landed[q] + n
  BY <1>3, <1>9
<1>11. landed' = [landed EXCEPT ![q] = v]
  BY <1>1, <1>2, <1>10 DEF Receive
<1>12. LandedIn \in Int /\ LandedIn' = LandedIn - landed[q] + v
  <2>1. PICK f \in [Reqs -> Int] : f = landed
    BY <1>9
  <2>2. PICK g : g = landed'
    OBVIOUS
  <2>3. g = [f EXCEPT ![q] = v]
    BY <1>11, <2>1, <2>2
  <2>4. SumFunction(f) \in Int /\ SumFunction(g) = SumFunction(f) - f[q] + v
    <3>1. q \in Reqs /\ f \in [Reqs -> Int] /\ v \in Int
      BY <1>3
    <3>2. f = [p \in Reqs |-> f[p]] /\ g = [p \in Reqs |-> g[p]]
      BY <2>3, <3>1
    <3>3. g[q] = v /\ \A p \in Reqs \ {q} : g[p] = f[p]
      BY <2>3, <3>1
    <3>4. \A p \in Reqs : f[p] \in Int /\ g[p] \in Int
      BY <3>1, <3>3
    <3>5. SumFunction(f) \in Int /\ SumFunction(g) = SumFunction(f) - f[q] + g[q]
      BY <3>1, <3>2, <3>3, <3>4, SumOneMoved, WarehouseIsFinite
    <3> QED
      BY <3>3, <3>5
  <2>5. LandedIn = SumFunction(f)
    BY <2>1 DEF LandedIn
  <2>6. LandedIn' = SumFunction(g)
    BY <2>2 DEF LandedIn
  <2> QED
    BY <2>1, <2>4, <2>5, <2>6
<1>13. LandedIn' = LandedIn + n
  BY <1>3, <1>9, <1>10, <1>12
<1>14. \A r \in Rows : /\ Explained(r)' = Explained(r) + At0(r, Destination, n)
                       /\ SpokenFor(r)' = SpokenFor(r) + At0(r, Destination, z)
  BY <1>1, <1>3, <1>4, <1>8, <1>13, LandedAccount
<1>15. level[Destination].reserved <= level[Destination].quantity
           => level'[Destination].reserved <= level'[Destination].quantity
  <2>1. level[Destination].quantity \in Int /\ level[Destination].reserved \in Int
    BY <1>3, RowNumbers
  <2> QED
    BY <1>1, <1>5, <2>1
<1> QED
  BY <1>1, <1>3, <1>4, <1>5, <1>14, <1>15, OneRowMoves

LEMMA RequisitionsBooks ==
    ASSUME DesksInv, DesksInv', Books, NEW j \in Jobs, AtRequisitions(j)
    PROVE  Books'
<1>1. CASE Dispatch(j)
  BY <1>1, DispatchBooks
<1>2. CASE Receive(j)
  BY <1>2, ReceiptBooks
<1>3. CASE ~Dispatch(j) /\ ~Receive(j)
  <2>1. UNCHANGED <<level, loads, landed>>
    BY <1>3 DEF AtRequisitions, ReqStep, ReadForReview, Review, ReadForDispatch, RecheckShelf, ReadForReceipt,
       stockVars, reqVars
  <2>2. UNCHANGED <<SentOut, LandedIn>>
    BY <2>1, AccountsRest
  <2>3. /\ UNCHANGED <<byHand, shelved, ShippedOut, ClaimedNow, DeliveredIn, DrawnOut, BatchedIn, HeldNow>>
        /\ TurnsEnd
    BY ReqDeskRests
  <2>4. StoresSame
    BY <2>2, <2>3 DEF StoresSame
  <2>5. AccountsOK /\ AccountsOK'
    BY AccountsTyped, AccountsThen
  <2> QED
    BY <2>1, <2>3, <2>4, <2>5, NothingBooked
<1> QED
  BY <1>1, <1>2, <1>3

(* Purchasing *)
LEMMA PurchaseDeskRests ==
    ASSUME DesksInv, NEW j \in Jobs, AtPurchasing(j)
    PROVE  /\ UNCHANGED <<byHand, shelved, ShippedOut, ClaimedNow, SentOut, LandedIn, DrawnOut, BatchedIn, HeldNow>>
           /\ TurnsEnd
<1>1. UNCHANGED <<shelved, ShippedOut, ClaimedNow, SentOut, LandedIn, DrawnOut, BatchedIn, HeldNow, eaten>>
  BY DesksRest DEF AtPurchasing, OrdersRest
<1>2. UNCHANGED byHand
  BY PurchasingLevel DEF AtPurchasing
<1>3. HistoryGrows
  BY PurchasingWorks DEF AtPurchasing, Works
<1> QED
  BY <1>1, <1>2, <1>3, TurnsGoOn

LEMMA DeliveryBooks ==
    ASSUME DesksInv, DesksInv', Books, NEW j \in Jobs, AtPurchasing(j), BookDelivery(j)
    PROVE  Books'
<1>1. /\ job[j].po \in Purchases /\ Dock \in Rows /\ job[j].n \in Nat /\ job[j].shelf \in Levels
      /\ Overwrite(Dock, job[j].shelf, job[j].n)
  BY DeliveryShelves
<1>2. PICK n \in Int : n = job[j].n /\ n >= 0
  BY <1>1
<1>3. PICK z \in Int : z = 0
  OBVIOUS
<1>4. PICK saw \in Levels : saw = job[j].shelf
  BY <1>1
<1>5. AccountsOK /\ AccountsOK'
  BY AccountsTyped, AccountsThen
<1>6. /\ UNCHANGED <<byHand, shelved, ShippedOut, ClaimedNow, SentOut, LandedIn, DrawnOut, BatchedIn, HeldNow>>
      /\ TurnsEnd
  BY PurchaseDeskRests
<1>7. /\ level'[Dock].quantity = saw.quantity + n /\ level'[Dock].reserved = level[Dock].reserved
      /\ \A r \in Rows \ {Dock} : level'[r] = level[r]
      /\ Dock \notin lost' => level[Dock].quantity = saw.quantity
      /\ Dock \notin raced' => level[Dock] = saw
  <2>1. Overwrite(Dock, saw, n)
    BY <1>1, <1>2, <1>4
  <2> QED
    BY <1>1, <1>5, <2>1, RowOverwritten DEF AccountsOK
<1>8. level[Dock].quantity \in Int /\ level[Dock].reserved \in Int
  BY <1>1, <1>5, RowNumbers
<1>9. PICK d : d = [id |-> Cardinality(deliveries), po |-> job[j].po, key |-> job[j].key, qty |-> job[j].n]
  OBVIOUS
<1>10. deliveries' = deliveries \cup {d}
  BY <1>9 DEF BookDelivery
<1>11. /\ deliveries \subseteq Pallets /\ IsFiniteSet(deliveries)
       /\ d \in Pallets /\ d.po = job[j].po /\ d.qty = n /\ d \notin deliveries
  <2>1. /\ PurchaseJob(job[j]) /\ deliveries \subseteq Pallets /\ IsFiniteSet(deliveries)
        /\ Cardinality(deliveries) \in Nat /\ \A x \in deliveries : x.id < Cardinality(deliveries)
    BY PurchaseTyped DEF DesksInv
  <2>2. job[j].key \in DeliveryKeys
    BY <2>1 DEF PurchaseJob, BookDelivery, Doing
  <2>3. d \in Pallets /\ d.po = job[j].po /\ d.qty = n /\ d.id = Cardinality(deliveries)
    BY <1>1, <1>2, <1>9, <2>1, <2>2 DEF Pallets
  <2> QED
    BY <2>1, <2>3
<1>12. /\ DeliveredFor(d.po)' = DeliveredFor(d.po) + n
       /\ \A p \in Purchases : p # d.po => DeliveredFor(p)' = DeliveredFor(p)
  BY <1>10, <1>11, DeliveryAdds
<1>13. \A p \in Purchases : DeliveredFor(p) \in Int
  BY <1>11, DeliveredTyped
<1>14. d.po \in Purchases
  BY <1>1, <1>11
<1>15. DeliveredIn' = DeliveredIn + n
  BY <1>12, <1>13, <1>14, DeliveredMoves
<1>16. \A r \in Rows : Explained(r)' = Explained(r) + At0(r, Dock, n) /\ SpokenFor(r)' = SpokenFor(r) + At0(r, Dock, z)
  BY <1>3, <1>5, <1>6, <1>15, DeliveredAccount
<1>17. level'[Dock].reserved = level[Dock].reserved + z
  BY <1>3, <1>7, <1>8
<1>18. Dock \notin lost' => level'[Dock].quantity = level[Dock].quantity + n
  BY <1>7
<1>19. (Dock \notin raced' /\ level[Dock].reserved <= level[Dock].quantity)
           => level'[Dock].reserved <= level'[Dock].quantity
  BY <1>2, <1>7, <1>8
<1> QED
  BY <1>1, <1>5, <1>6, <1>7, <1>16, <1>17, <1>18, <1>19, OneRowMoves

LEMMA PurchasingBooks ==
    ASSUME DesksInv, DesksInv', Books, NEW j \in Jobs, AtPurchasing(j)
    PROVE  Books'
<1>1. CASE BookDelivery(j)
  BY <1>1, DeliveryBooks
<1>2. CASE ~BookDelivery(j)
  <2>1. UNCHANGED <<level, deliveries>>
    BY <1>2 DEF AtPurchasing, PurchaseStep, ReadForMove, MovePurchase, ReadForDelivery, CountShelf,
       stockVars, purchaseVars
  <2>2. UNCHANGED DeliveredIn
    BY <2>1, AccountsRest
  <2>3. /\ UNCHANGED <<byHand, shelved, ShippedOut, ClaimedNow, SentOut, LandedIn, DrawnOut, BatchedIn, HeldNow>>
        /\ TurnsEnd
    BY PurchaseDeskRests
  <2>4. StoresSame
    BY <2>2, <2>3 DEF StoresSame
  <2>5. AccountsOK /\ AccountsOK'
    BY AccountsTyped, AccountsThen
  <2> QED
    BY <2>1, <2>3, <2>4, <2>5, NothingBooked
<1> QED
  BY <1>1, <1>2

LEMMA TotalMoves ==
    ASSUME NEW S, IsFiniteSet(S), NEW f \in [S -> Int], NEW x \in S, NEW n \in Int, NEW g, g = [f EXCEPT ![x] = @ + n]
    PROVE  SumFunction(g) = SumFunction(f) + n
<1>1. PICK v \in Int : v = f[x] + n
  OBVIOUS
<1>2. g = [f EXCEPT ![x] = v]
  BY <1>1
<1>3. SumFunction(g) = SumFunction(f) - f[x] + v
  <2>1. f = [s \in S |-> f[s]] /\ g = [s \in S |-> g[s]]
    BY <1>2
  <2>2. g[x] = v /\ \A s \in S \ {x} : g[s] = f[s]
    BY <1>2
  <2>3. \A s \in S : f[s] \in Int /\ g[s] \in Int
    BY <1>2
  <2>4. SumFunction(g) = SumFunction(f) - f[x] + g[x]
    BY <2>1, <2>2, <2>3, SumOneMoved
  <2> QED
    BY <2>2, <2>4
<1>4. SumFunction(f) \in Int
  <2>1. f = [s \in S |-> f[s]] /\ \A s \in S : f[s] \in Int
    OBVIOUS
  <2> QED
    BY <2>1, SumTyped
<1> QED
  BY <1>1, <1>3, <1>4

(* Production material *)
LEMMA MaterialsBooks ==
    ASSUME DesksInv, DesksInv', Books, NEW j \in Jobs, AtMaterials(j)
    PROVE  Books'
<1>1. /\ UNCHANGED <<byHand, lost, raced, batchVars>>
      /\ UNCHANGED <<level, drawn>> \/ \E p \in Runs, n \in Int : Draws(p, n)
  BY MaterialsDraw DEF AtMaterials
<1>2. UNCHANGED <<byHand, shelved, ShippedOut, ClaimedNow, SentOut, LandedIn, DeliveredIn, BatchedIn, HeldNow, eaten>>
  BY <1>1, DesksRest DEF AtMaterials, OrdersRest
<1>3. HistoryGrows
  BY MaterialsWork DEF AtMaterials, Works
<1>4. TurnsEnd
  BY <1>2, <1>3, TurnsGoOn
<1>5. AccountsOK /\ AccountsOK'
  BY AccountsTyped, AccountsThen
<1>6. CASE UNCHANGED <<level, drawn>>
  <2>1. UNCHANGED DrawnOut
    BY <1>6, AccountsRest
  <2>2. StoresSame
    BY <1>2, <2>1 DEF StoresSame
  <2> QED
    BY <1>2, <1>4, <1>5, <1>6, <2>2, NothingBooked
<1>7. ASSUME NEW p \in Runs, NEW n \in Int, Draws(p, n) PROVE Books'
  <2>1. PICK m \in Int, z \in Int : m = -n /\ z = 0 /\ level' = [level EXCEPT ![Store] = Shift(@, m, z)]
    BY <1>7, DrawShifts
  <2>2. Store \in Rows
    BY <1>7, DrawShifts
  <2>3. /\ level'[Store].quantity = level[Store].quantity + m /\ level'[Store].reserved = level[Store].reserved + z
        /\ \A r \in Rows \ {Store} : level'[r] = level[r]
    BY <1>5, <2>1, <2>2, RowShifts DEF AccountsOK
  <2>4. DrawnOut' = DrawnOut + n
    <3>1. PICK f \in [Runs -> Int] : f = drawn
      BY MaterialTyped DEF DesksInv
    <3>2. PICK g : g = drawn'
      OBVIOUS
    <3>3. g = [f EXCEPT ![p] = @ + n]
      BY <1>7, <3>1, <3>2 DEF Draws
    <3>4. SumFunction(g) = SumFunction(f) + n
      <4>1. IsFiniteSet(Runs) /\ p \in Runs /\ f \in [Runs -> Int] /\ n \in Int
        BY <1>7, <3>1, WarehouseIsFinite
      <4> QED
        BY <3>3, <4>1, TotalMoves
    <3>5. DrawnOut = SumFunction(f)
      BY <3>1 DEF DrawnOut
    <3>6. DrawnOut' = SumFunction(g)
      BY <3>2 DEF DrawnOut
    <3> QED
      BY <3>4, <3>5, <3>6
  <2>5. \A r \in Rows : Explained(r)' = Explained(r) + At0(r, Store, m) /\ SpokenFor(r)' = SpokenFor(r) + At0(r, Store, z)
    BY <1>2, <1>5, <1>7, <2>1, <2>4, DrawnAccount
  <2>6. level'[Store].reserved <= level'[Store].quantity
    <3>1. level[Store].quantity \in Int /\ level[Store].reserved \in Int
      BY <1>5, <2>2, RowNumbers
    <3>2. MovementFits(level[Store], m)
      BY <1>7, <2>1 DEF Draws
    <3> QED
      BY <2>1, <2>3, <3>1, <3>2 DEF MovementFits
  <2> QED
    BY <1>4, <1>5, <2>1, <2>2, <2>3, <2>5, <2>6, OneRowMoves
<1> QED
  BY <1>1, <1>6, <1>7

(* Finished goods *)
LEMMA GoodsBooks ==
    ASSUME DesksInv, DesksInv', Books, NEW j \in Jobs, AtGoods(j)
    PROVE  Books'
<1>1. UNCHANGED <<byHand, lost, raced, batchVars>> /\ (ReceiveGoods(j) \/ UNCHANGED <<level, shelved>>)
  BY GoodsChecked
<1>2. UNCHANGED <<byHand, ShippedOut, ClaimedNow, SentOut, LandedIn, DeliveredIn, DrawnOut, BatchedIn, HeldNow, eaten>>
  BY <1>1, DesksRest DEF AtGoods, OrdersRest
<1>3. HistoryGrows
  BY GoodsWork DEF AtGoods, Works
<1>4. TurnsEnd
  BY <1>2, <1>3, TurnsGoOn
<1>5. AccountsOK /\ AccountsOK'
  BY AccountsTyped, AccountsThen
<1>6. CASE UNCHANGED <<level, shelved>>
  <2>1. StoresSame
    BY <1>2, <1>6 DEF StoresSame
  <2> QED
    BY <1>2, <1>4, <1>5, <1>6, <2>1, NothingBooked
<1>7. CASE ReceiveGoods(j)
  <2>1. PICK s \in Rows, n \in Int, z \in Int :
            /\ n >= 0 /\ z = 0
            /\ level' = [level EXCEPT ![s] = Shift(@, n, z)]
            /\ MovementFits(level[s], n)
            /\ shelved' = [shelved EXCEPT ![s] = @ + n]
    BY <1>7, GoodsShift
  <2>2. /\ level'[s].quantity = level[s].quantity + n /\ level'[s].reserved = level[s].reserved + z
        /\ \A r \in Rows \ {s} : level'[r] = level[r]
    BY <1>5, <2>1, RowShifts DEF AccountsOK
  <2>3. \A r \in Rows : Explained(r)' = Explained(r) + At0(r, s, n) /\ SpokenFor(r)' = SpokenFor(r) + At0(r, s, z)
    BY <1>2, <1>5, <2>1, ShelvedMoves
  <2>4. level'[s].reserved <= level'[s].quantity
    <3>1. level[s].quantity \in Int /\ level[s].reserved \in Int
      BY <1>5, <2>1, RowNumbers
    <3> QED
      BY <2>1, <2>2, <3>1 DEF MovementFits
  <2> QED
    BY <1>4, <1>5, <2>1, <2>2, <2>3, <2>4, OneRowMoves
<1> QED
  BY <1>1, <1>6, <1>7

(* Quality control *)
LEMMA QualityDeskRests ==
    ASSUME DesksInv, NEW j \in Jobs, AtQuality(j)
    PROVE  /\ UNCHANGED <<ShippedOut, ClaimedNow, SentOut, LandedIn, DeliveredIn, DrawnOut>>
           /\ HistoryGrows
<1>1. UNCHANGED <<ShippedOut, ClaimedNow, SentOut, LandedIn, DeliveredIn, DrawnOut>>
  BY DesksRest DEF AtQuality, OrdersRest
<1>2. HistoryGrows
  BY QualityWorks DEF AtQuality, Works
<1> QED
  BY <1>1, <1>2

LEMMA HoldTyped == ASSUME DesksInv PROVE hold \in [Batches -> Nat] /\ scrapped \in [Batches -> Int]
BY StockTyped DEF DesksInv

LEMMA HoldMoves ==
    ASSUME DesksInv, NEW b \in Batches, NEW n \in Int, NEW h \in Int, h = hold[b] + n,
           hold' = [hold EXCEPT ![b] = h]
    PROVE  HeldNow' = HeldNow + n
<1>1. PICK f \in [Batches -> Int] : f = hold
  BY HoldTyped
<1>2. PICK g : g = hold'
  OBVIOUS
<1>3. g = [f EXCEPT ![b] = @ + n]
  BY <1>1, <1>2
<1>4. SumFunction(g) = SumFunction(f) + n
  <2>1. IsFiniteSet(Batches) /\ b \in Batches /\ f \in [Batches -> Int] /\ n \in Int
    BY WarehouseIsFinite
  <2> QED
    BY <1>3, <2>1, TotalMoves
<1>5. HeldNow = SumFunction(f)
  BY <1>1 DEF HeldNow
<1>6. HeldNow' = SumFunction(g)
  BY <1>2 DEF HeldNow
<1> QED
  BY <1>4, <1>5, <1>6

LEMMA ScrapMoves ==
    ASSUME DesksInv, NEW b \in Batches, NEW n \in Int, scrapped' = [scrapped EXCEPT ![b] = @ + n]
    PROVE  ScrappedOut' = ScrappedOut + n
<1>1. PICK f \in [Batches -> Int] : f = scrapped
  BY HoldTyped
<1>2. PICK g : g = scrapped'
  OBVIOUS
<1>3. g = [f EXCEPT ![b] = @ + n]
  BY <1>1, <1>2
<1>4. SumFunction(g) = SumFunction(f) + n
  <2>1. IsFiniteSet(Batches) /\ b \in Batches /\ f \in [Batches -> Int] /\ n \in Int
    BY WarehouseIsFinite
  <2> QED
    BY <1>3, <2>1, TotalMoves
<1>5. ScrappedOut = SumFunction(f)
  BY <1>1 DEF ScrappedOut
<1>6. ScrappedOut' = SumFunction(g)
  BY <1>2 DEF ScrappedOut
<1> QED
  BY <1>4, <1>5, <1>6

(* The bay moves as what its batches made, scrapped and hold. *)
LEMMA BayMoves ==
    ASSUME DesksInv, DesksInv', Books, NEW j \in Jobs, AtQuality(j), Bay \in Rows,
           UNCHANGED <<byHand, shelved>>, eaten => eaten',
           NEW q \in Int, NEW v \in Int, level' = [level EXCEPT ![Bay] = Shift(@, q, v)],
           BatchedIn' = BatchedIn + q, ~eaten' => HeldNow' = HeldNow + v,
           (/\ Bay \notin raced'
            /\ 0 <= level[Bay].reserved /\ level[Bay].reserved <= level[Bay].quantity)
               => level[Bay].reserved + v <= level[Bay].quantity + q
    PROVE  Books'
<1>1. AccountsOK /\ AccountsOK'
  BY AccountsTyped, AccountsThen
<1>2. UNCHANGED <<ShippedOut, ClaimedNow, SentOut, LandedIn, DeliveredIn, DrawnOut>> /\ TurnsEnd
  BY QualityDeskRests, TurnsGoOn
<1>3. /\ level'[Bay].quantity = level[Bay].quantity + q /\ level'[Bay].reserved = level[Bay].reserved + v
      /\ \A r \in Rows \ {Bay} : level'[r] = level[r]
  BY <1>1, RowShifts DEF AccountsOK
<1>4. \A r \in Rows : Explained(r)' = Explained(r) + At0(r, Bay, q)
  BY <1>1, <1>2, BatchAccounts
<1>5. ASSUME ~eaten' PROVE \A r \in Rows : SpokenFor(r)' = SpokenFor(r) + At0(r, Bay, v)
  BY <1>1, <1>2, <1>5, BatchAccounts
<1> QED
  BY <1>1, <1>2, <1>3, <1>4, <1>5, OneRowMoves

LEMMA OutputBooks ==
    ASSUME DesksInv, DesksInv', Books, NEW j \in Jobs, AtQuality(j), RecordOutput(j)
    PROVE  Books'
<1>1. /\ job[j].batch \in Batches /\ Bay \in Rows
      /\ UNCHANGED <<byHand, shelved, scrapped, lost, raced, eaten>>
      /\ MadeNow' = MadeNow + 1 /\ MadeNow \in Nat
      /\ \E k \in Nat : /\ k <= BatchQty /\ hold[job[j].batch] = 0
                        /\ level' = [level EXCEPT ![Bay] = Shift(@, BatchQty, k)]
                        /\ hold' = [hold EXCEPT ![job[j].batch] = k]
  BY OutputShifts
<1>2. PICK k \in Nat : /\ k <= BatchQty /\ hold[job[j].batch] = 0
                       /\ level' = [level EXCEPT ![Bay] = Shift(@, BatchQty, k)]
                       /\ hold' = [hold EXCEPT ![job[j].batch] = k]
  BY <1>1
<1>10. k \in Int
  OBVIOUS
<1>3. PICK q \in Int : q = BatchQty
  BY QuarantineAssumption
<1>4. UNCHANGED ScrappedOut
  BY <1>1, AccountsRest
<1>5. BatchedIn' = BatchedIn + q
  <2>1. PICK m \in Int : m = MadeNow
    BY <1>1
  <2>2. q * (m + 1) = q * m + q
    OBVIOUS
  <2>3. MadeNow' = m + 1
    BY <1>1, <2>1
  <2>4. ScrappedOut \in Int
    BY AccountsTyped DEF AccountsOK
  <2>5. BatchedIn = q * m - ScrappedOut
    BY <1>3, <2>1 DEF BatchedIn
  <2>6. BatchedIn' = q * (m + 1) - ScrappedOut
    BY <1>3, <1>4, <2>3 DEF BatchedIn
  <2>7. PICK x \in Int : x = q * m
    OBVIOUS
  <2> QED
    BY <2>2, <2>4, <2>5, <2>6, <2>7
<1>6. HeldNow' = HeldNow + k
  <2>1. k = hold[job[j].batch] + k
    BY <1>2, <1>10
  <2> QED
    BY <1>1, <1>2, <1>10, <2>1, HoldMoves
<1>7. level[Bay].quantity \in Int /\ level[Bay].reserved \in Int
  BY <1>1, AccountsTyped, RowNumbers
<1>8. level[Bay].reserved <= level[Bay].quantity => level[Bay].reserved + k <= level[Bay].quantity + q
  BY <1>2, <1>3, <1>7
<1>9. level' = [level EXCEPT ![Bay] = Shift(@, q, k)]
  BY <1>2, <1>3
<1> QED
  BY <1>1, <1>5, <1>6, <1>8, <1>9, <1>10, BayMoves

LEMMA BatchKeeps ==
    ASSUME DesksInv, UNCHANGED MadeNow, NEW n \in Int, ScrappedOut' = ScrappedOut + n, NEW m \in Int, m = -n
    PROVE  BatchedIn' = BatchedIn + m
<1>1. ScrappedOut \in Int /\ MadeNow \in Nat
  BY AccountsTyped DEF AccountsOK
<1>2. PICK x \in Int : x = BatchQty * MadeNow
  BY <1>1, QuarantineAssumption
<1>3. BatchedIn = x - ScrappedOut
  BY <1>2 DEF BatchedIn
<1>4. BatchedIn' = x - ScrappedOut'
  BY <1>2 DEF BatchedIn
<1> QED
  BY <1>1, <1>2, <1>3, <1>4

LEMMA HoldBooks ==
    ASSUME DesksInv, DesksInv', Books, NEW j \in Jobs, AtQuality(j), HoldBatch(j)
    PROVE  Books'
<1>1. /\ job[j].batch \in Batches /\ Bay \in Rows /\ job[j].saw \in Levels
      /\ UNCHANGED <<byHand, shelved, scrapped, MadeNow, lost, eaten>>
      /\ raced' = raced \cup Stale(Bay, job[j].saw)
  BY HoldShifts
<1>3. PICK n \in Nat, z \in Int : /\ z = 0 /\ n <= Atleast0(Available(job[j].saw))
                                  /\ level' = [level EXCEPT ![Bay] = Shift(@, z, n)]
                                  /\ hold' = [hold EXCEPT ![job[j].batch] = @ + n]
  BY HoldShifts
<1>2. n \in Int
  OBVIOUS
<1>4. UNCHANGED ScrappedOut
  BY <1>1, AccountsRest
<1>5. BatchedIn' = BatchedIn + z
  <2>1. BatchedIn \in Int
    BY AccountsTyped DEF AccountsOK
  <2>2. UNCHANGED BatchedIn
    BY <1>1, <1>4 DEF BatchedIn
  <2>3. z = 0
    BY <1>3
  <2> QED
    BY <2>1, <2>2, <2>3
<1>6. HeldNow' = HeldNow + n
  <2>1. PICK h \in Int : h = hold[job[j].batch] + n
    BY <1>1, HoldTyped
  <2>2. hold' = [hold EXCEPT ![job[j].batch] = h]
    BY <1>3, <2>1
  <2> QED
    BY <1>1, <1>2, <2>1, <2>2, HoldMoves
<1>7. (/\ Bay \notin raced'
       /\ 0 <= level[Bay].reserved /\ level[Bay].reserved <= level[Bay].quantity)
          => level[Bay].reserved + n <= level[Bay].quantity + z
  <2> SUFFICES ASSUME Bay \notin raced', 0 <= level[Bay].reserved, level[Bay].reserved <= level[Bay].quantity
               PROVE  level[Bay].reserved + n <= level[Bay].quantity + z
    OBVIOUS
  <2>1. level[Bay] = job[j].saw
    BY <1>1 DEF Stale
  <2>2. PICK a \in Int, b \in Int : a = level[Bay].quantity /\ b = level[Bay].reserved
    BY <1>1, AccountsTyped, RowNumbers
  <2>3. n <= Atleast0(a - b) /\ b <= a
    BY <1>3, <2>1, <2>2 DEF Available
  <2>4. Atleast0(a - b) = a - b
    BY <2>2, <2>3 DEF Atleast0
  <2> QED
    BY <1>3, <2>2, <2>3, <2>4
<1> QED
  BY <1>1, <1>2, <1>3, <1>5, <1>6, <1>7, BayMoves

(* A batch gives back what it holds, or more than that and eaten says so. *)
LEMMA GivenBack ==
    ASSUME DesksInv, NEW b \in Batches, NEW r \in Int, NEW m \in Int, m = -r, NEW t, GivesBack(b, r, t)
    PROVE  ~eaten' => HeldNow' = HeldNow + m
<1> SUFFICES ASSUME ~eaten' PROVE HeldNow' = HeldNow + m
  OBVIOUS
<1>1. PICK h \in Nat : h = hold[b]
  BY HoldTyped
<1>2. ~(r > h)
  BY <1>1 DEF GivesBack
<1>3. PICK k \in Int : k = h + m
  BY <1>1
<1>4. Atleast0(h - r) = k
  BY <1>1, <1>2, <1>3 DEF Atleast0
<1>5. hold' = [hold EXCEPT ![b] = k]
  BY <1>1, <1>4 DEF GivesBack
<1> QED
  BY <1>1, <1>3, <1>5, HoldMoves

LEMMA GivesNoLess ==
    ASSUME DesksInv, Bay \in Rows, NEW b, NEW r \in Int, NEW t, GivesBack(b, r, t),
           Bay \notin raced', 0 <= level[Bay].reserved
    PROVE  r >= 0
<1>1. level[Bay] = t.saw
  BY DEF GivesBack, Stale
<1>2. level[Bay].reserved \in Int
  BY AccountsTyped, RowNumbers
<1>3. level[Bay].reserved >= 0
  BY <1>2
<1> QED
  BY <1>1, <1>3 DEF GivesBack

LEMMA ReleaseBooks ==
    ASSUME DesksInv, DesksInv', Books, NEW j \in Jobs, AtQuality(j), ReleaseBatch(j)
    PROVE  Books'
<1>1. /\ job[j].batch \in Batches /\ Bay \in Rows
      /\ UNCHANGED <<byHand, shelved, scrapped, MadeNow, lost>>
  BY ReleaseShifts
<1>2. PICK r \in Int, m \in Int, z \in Int :
          /\ m = -r /\ z = 0
          /\ level' = [level EXCEPT ![Bay] = Shift(@, z, m)]
          /\ GivesBack(job[j].batch, r, job[j])
  BY ReleaseShifts
<1>3. UNCHANGED ScrappedOut
  BY <1>1, AccountsRest
<1>4. BatchedIn' = BatchedIn + z
  <2>1. BatchedIn \in Int
    BY AccountsTyped DEF AccountsOK
  <2>2. UNCHANGED BatchedIn
    BY <1>1, <1>3 DEF BatchedIn
  <2>3. z = 0
    BY <1>2
  <2> QED
    BY <2>1, <2>2, <2>3
<1>5. ~eaten' => HeldNow' = HeldNow + m
  BY <1>1, <1>2, GivenBack
<1>6. (/\ Bay \notin raced'
       /\ 0 <= level[Bay].reserved /\ level[Bay].reserved <= level[Bay].quantity)
          => level[Bay].reserved + m <= level[Bay].quantity + z
  <2> SUFFICES ASSUME Bay \notin raced', 0 <= level[Bay].reserved, level[Bay].reserved <= level[Bay].quantity
               PROVE  level[Bay].reserved + m <= level[Bay].quantity + z
    OBVIOUS
  <2>1. r >= 0
    BY <1>1, <1>2, GivesNoLess
  <2>2. level[Bay].quantity \in Int /\ level[Bay].reserved \in Int
    BY <1>1, AccountsTyped, RowNumbers
  <2> QED
    BY <1>2, <2>1, <2>2
<1>7. eaten => eaten'
  BY <1>2 DEF GivesBack
<1> QED
  BY <1>1, <1>2, <1>4, <1>5, <1>6, <1>7, BayMoves

LEMMA WriteOffBooks ==
    ASSUME DesksInv, DesksInv', Books, NEW j \in Jobs, AtQuality(j), WriteOff(j)
    PROVE  Books'
<1>1. /\ job[j].batch \in Batches /\ Bay \in Rows
      /\ UNCHANGED <<byHand, shelved, MadeNow, lost>>
  BY WriteOffShifts
<1>2. PICK r \in Int, m \in Int, n \in Int, k \in Int :
          /\ m = -r /\ k = -n
          /\ level' = [level EXCEPT ![Bay] = Shift(@, k, m)]
          /\ level[Bay].quantity - n >= level[Bay].reserved - r
          /\ scrapped' = [scrapped EXCEPT ![job[j].batch] = @ + n]
          /\ GivesBack(job[j].batch, r, job[j])
  BY WriteOffShifts
<1>3. ScrappedOut' = ScrappedOut + n
  BY <1>1, <1>2, ScrapMoves
<1>4. BatchedIn' = BatchedIn + k
  BY <1>1, <1>2, <1>3, BatchKeeps
<1>5. ~eaten' => HeldNow' = HeldNow + m
  BY <1>1, <1>2, GivenBack
<1>6. level[Bay].reserved + m <= level[Bay].quantity + k
  <2>1. level[Bay].quantity \in Int /\ level[Bay].reserved \in Int
    BY <1>1, AccountsTyped, RowNumbers
  <2> QED
    BY <1>2, <2>1
<1>7. eaten => eaten'
  BY <1>2 DEF GivesBack
<1> QED
  BY <1>1, <1>2, <1>4, <1>5, <1>6, <1>7, BayMoves

LEMMA QualityBooks ==
    ASSUME DesksInv, DesksInv', Books, NEW j \in Jobs, AtQuality(j)
    PROVE  Books'
<1>1. CASE RecordOutput(j)
  BY <1>1, OutputBooks
<1>2. CASE HoldBatch(j)
  BY <1>2, HoldBooks
<1>3. CASE ReleaseBatch(j)
  BY <1>3, ReleaseBooks
<1>4. CASE WriteOff(j)
  BY <1>4, WriteOffBooks
<1>5. CASE ~RecordOutput(j) /\ ~HoldBatch(j) /\ ~ReleaseBatch(j) /\ ~WriteOff(j)
  <2>1. UNCHANGED <<level, byHand, batch, scrapped, hold, eaten, shelved>>
    <3>1. CASE Rework(j)
      BY <3>1, ReworkChecked
    <3>2. CASE ~Rework(j)
      <4>1. \/ \E b \in Batches : ReadForOutput(j, b)
            \/ LockBatch(j)
            \/ \E b \in Batches, n \in 1 .. BatchQty : ReadForHold(j, b, n) \/ ReadForRelease(j, b, n)
            \/ \E q \in records, to \in {"REWORK", "REJECTED"}, n \in 1 .. BatchQty : ReadForDecision(j, q, to, n)
        BY <1>5, <3>2 DEF BatchStep, AtQuality
      <4>2. UNCHANGED <<stockVars, batchVars>>
        BY <4>1, QualityLooks
      <4> QED
        BY <4>2 DEF stockVars, batchVars, AtQuality, goodsVars
    <3> QED
      BY <3>1, <3>2
  <2>2. UNCHANGED <<MadeNow, ScrappedOut, HeldNow>>
    BY <2>1, AccountsRest
  <2>3. UNCHANGED <<ShippedOut, ClaimedNow, SentOut, LandedIn, DeliveredIn, DrawnOut>> /\ TurnsEnd
    BY <2>1, QualityDeskRests, TurnsGoOn
  <2>4. UNCHANGED BatchedIn
    BY <2>2 DEF BatchedIn
  <2>5. StoresSame
    BY <2>1, <2>3, <2>4 DEF StoresSame
  <2>6. AccountsOK /\ AccountsOK'
    BY AccountsTyped, AccountsThen
  <2> QED
    BY <2>1, <2>2, <2>3, <2>5, <2>6, NothingBooked
<1> QED
  BY <1>1, <1>2, <1>3, <1>4, <1>5

(* A handler that dies, or is refused, has booked nothing. *)
LEMMA DeathBooks ==
    ASSUME DesksInv, DesksInv', Books, NEW j \in Jobs, HandlerDies(j)
    PROVE  Books'
<1>1. /\ UNCHANGED <<level, byHand>> /\ HistoryGrows
      /\ UNCHANGED <<orderVars, reqVars, purchaseVars, batchVars, lineVars, goodsVars>>
  BY DEF HandlerDies, Abandon, StoresRest, stockVars, HistoryGrows
<1>2. /\ UNCHANGED <<ShippedOut, ClaimedNow, SentOut, LandedIn, DeliveredIn, BatchedIn, HeldNow, DrawnOut>>
      /\ UNCHANGED <<eaten, shelved>>
  BY <1>1, DesksRest
<1>3. StoresSame
  BY <1>1, <1>2 DEF StoresSame
<1>4. TurnsEnd
  BY <1>1, <1>2, TurnsGoOn
<1>5. AccountsOK /\ AccountsOK'
  BY AccountsTyped, AccountsThen
<1> QED
  BY <1>1, <1>2, <1>3, <1>4, <1>5, NothingBooked

LEMMA NoStepBooks ==
    ASSUME DesksInv, DesksInv', Books, UNCHANGED warehouseVars
    PROVE  Books'
<1>1. /\ UNCHANGED <<level, byHand, overtaken, lost, raced>>
      /\ UNCHANGED <<orderVars, reqVars, purchaseVars, batchVars, lineVars, goodsVars>>
  BY DEF warehouseVars, orderVars, reqVars, purchaseVars, batchVars, lineVars, goodsVars
<1>2. HistoryGrows
  BY <1>1 DEF HistoryGrows
<1>3. /\ UNCHANGED <<ShippedOut, ClaimedNow, SentOut, LandedIn, DeliveredIn, BatchedIn, HeldNow, DrawnOut>>
      /\ UNCHANGED <<eaten, shelved>>
  BY <1>1, DesksRest
<1>4. StoresSame
  BY <1>1, <1>3 DEF StoresSame
<1>5. TurnsEnd
  BY <1>2, <1>3, TurnsGoOn
<1>6. AccountsOK /\ AccountsOK'
  BY AccountsTyped, AccountsThen
<1> QED
  BY <1>1, <1>3, <1>4, <1>5, <1>6, NothingBooked

LEMMA BooksStay == DesksInv /\ Books /\ [WarehouseNext]_warehouseVars => Books'
<1> SUFFICES ASSUME DesksInv, Books, [WarehouseNext]_warehouseVars PROVE Books'
  OBVIOUS
<1>1. DesksInv'
  BY DesksStay
<1>2. CASE WarehouseNext
  <2>1. PICK j \in Jobs : \/ HandlerDies(j)
                          \/ AtShelf(j) \/ AtOrders(j) \/ AtCouriers(j) \/ AtRequisitions(j)
                          \/ AtPurchasing(j) \/ AtQuality(j) \/ AtMaterials(j) \/ AtGoods(j)
    BY <1>2 DEF WarehouseNext
  <2> QED
    BY <1>1, <2>1, DeathBooks, ShelfBooks, OrdersBooks, RequisitionsBooks, PurchasingBooks,
       QualityBooks, MaterialsBooks, GoodsBooks
<1>3. CASE UNCHANGED warehouseVars
  BY <1>1, <1>3, NoStepBooks
<1> QED
  BY <1>2, <1>3

LEMMA SumOfNothing ==
    ASSUME NEW S, IsFiniteSet(S), NEW f, f = [s \in S |-> 0]
    PROVE  SumFunction(f) = 0
<1>1. DOMAIN f = S /\ \A s \in S : f[s] = 0
  OBVIOUS
<1>2. SumFunction(f) = SumFunctionOnSet(f, S)
  BY <1>1 DEF SumFunction
<1> QED
  BY <1>1, <1>2, SumZero

LEMMA NoRowsNoSum == \A f : DOMAIN f = {} => SumFunction(f) = 0
BY SumEmpty DEF SumFunction

LEMMA NothingOrdered ==
    ASSUME WarehouseInit
    PROVE  ShippedOut = 0 /\ ClaimedNow = 0
<1>1. \A o \in Orders : order[o].status = "ABSENT" /\ order[o].shipped = FALSE
  BY DEF WarehouseInit, OrderInit
<1>2. \A o \in Orders : Shipped(o) = 0 /\ Unreleased(o) = 0
  BY <1>1 DEF Shipped, Unreleased, Exists
<1>3. PICK f : f = [o \in Orders |-> Shipped(o)]
  OBVIOUS
<1>4. PICK g : g = [o \in Orders |-> Unreleased(o)]
  OBVIOUS
<1>5. f = [o \in Orders |-> 0] /\ g = [o \in Orders |-> 0]
  BY <1>2, <1>3, <1>4
<1>6. SumFunction(f) = 0 /\ SumFunction(g) = 0
  BY <1>5, SumOfNothing, WarehouseIsFinite
<1> QED
  BY <1>3, <1>4, <1>6 DEF ShippedOut, ClaimedNow

LEMMA NothingMoved ==
    ASSUME WarehouseInit
    PROVE  SentOut = 0 /\ LandedIn = 0 /\ DeliveredIn = 0 /\ DrawnOut = 0
<1>1. loads = {} /\ landed = [r \in Reqs |-> 0] /\ deliveries = {} /\ drawn = [p \in Runs |-> 0]
  BY DEF WarehouseInit, ReqInit, PurchaseInit, MaterialInit
<1>2. \A q \in Reqs : SentFor(q) = 0
  <2>1. ASSUME NEW q \in Reqs PROVE SentFor(q) = 0
    <3>1. PICK f : f = [l \in {x \in loads : x.req = q} |-> l.qty]
      OBVIOUS
    <3>2. DOMAIN f = {}
      BY <1>1, <3>1
    <3> QED
      BY <3>1, <3>2, NoRowsNoSum DEF SentFor
  <2> QED
    BY <2>1
<1>3. \A p \in Purchases : DeliveredFor(p) = 0
  <2>1. ASSUME NEW p \in Purchases PROVE DeliveredFor(p) = 0
    <3>1. PICK f : f = [d \in {x \in deliveries : x.po = p} |-> d.qty]
      OBVIOUS
    <3>2. DOMAIN f = {}
      BY <1>1, <3>1
    <3> QED
      BY <3>1, <3>2, NoRowsNoSum DEF DeliveredFor
  <2> QED
    BY <2>1
<1>4. PICK f : f = [q \in Reqs |-> SentFor(q)]
  OBVIOUS
<1>5. PICK g : g = [p \in Purchases |-> DeliveredFor(p)]
  OBVIOUS
<1>6. f = [q \in Reqs |-> 0] /\ g = [p \in Purchases |-> 0]
  BY <1>2, <1>3, <1>4, <1>5
<1>7. SumFunction(f) = 0 /\ SumFunction(g) = 0 /\ SumFunction(landed) = 0 /\ SumFunction(drawn) = 0
  BY <1>1, <1>6, SumOfNothing, WarehouseIsFinite
<1> QED
  BY <1>4, <1>5, <1>7 DEF SentOut, LandedIn, DeliveredIn, DrawnOut

LEMMA NothingMade ==
    ASSUME WarehouseInit
    PROVE  BatchedIn = 0 /\ HeldNow = 0
<1>1. /\ \A b \in Batches : batch[b].made = FALSE
      /\ scrapped = [b \in Batches |-> 0] /\ hold = [b \in Batches |-> 0]
  BY DEF WarehouseInit, QuarantineInit
<1>2. SumFunction(scrapped) = 0 /\ SumFunction(hold) = 0
  BY <1>1, SumOfNothing, WarehouseIsFinite
<1>3. {b \in Batches : batch[b].made} = {}
  BY <1>1
<1>4. MadeNow = 0
  BY <1>3, FS_EmptySet DEF MadeNow
<1>5. PICK z \in Int : z = 0
  OBVIOUS
<1>6. BatchedIn = 0
  BY <1>2, <1>4, QuarantineAssumption DEF BatchedIn, ScrappedOut
<1> QED
  BY <1>2, <1>6 DEF HeldNow

LEMMA BooksStart == WarehouseInit => Books
<1> SUFFICES ASSUME WarehouseInit PROVE Books
  OBVIOUS
<1>1. /\ \A r \in Rows : level[r].quantity = OpeningStock[r] /\ level[r].reserved = 0
      /\ \A r \in Rows : byHand[r] = 0 /\ shelved[r] = 0
  BY DEF WarehouseInit, StockInit, GoodsInit
<1>2. \A r \in Rows : OpeningStock[r] \in Nat
  BY StockAssumption
<1>3. \A r \in Rows : Explained(r) = OpeningStock[r]
  BY <1>1, <1>2, NothingOrdered, NothingMoved, NothingMade DEF Explained, At0
<1>4. \A r \in Rows : SpokenFor(r) = 0
  BY NothingOrdered, NothingMade DEF SpokenFor, At0
<1>5. OnHandIsExplained /\ ReservedIsSpokenFor
  BY <1>1, <1>3, <1>4, BooksAre
<1>6. NeverOversold
  BY <1>1, <1>2 DEF NeverOversold
<1> QED
  BY <1>5, <1>6 DEF Books

(* What is on a shelf is what the documents say went on it and came off    *)
(* it, whichever desks work at once and however their requests interleave, *)
(* unless a row was overwritten from an old reading or a document written  *)
(* from one.                                                               *)
THEOREM StockIsExplained == WarehouseSpec => []OnHandIsExplained
<1>1. DesksInv /\ Books /\ [WarehouseNext]_warehouseVars => (DesksInv /\ Books)'
  BY DesksStay, BooksStay
<1>2. Books => OnHandIsExplained
  BY DEF Books
<1> QED
  BY <1>1, <1>2, DesksStart, BooksStart, PTL DEF WarehouseSpec

(* A reserved unit is the claim of one order that may still be dispatched  *)
(* or cancelled, held for one batch, or stranded by an order that ended    *)
(* otherwise, which nothing releases: cancelling, dispatching, holding and *)
(* releasing each take back what was put there, and no more, for any       *)
(* number of orders and batches.                                           *)
THEOREM ReservationsAreSpokenFor == WarehouseSpec => []ReservedIsSpokenFor
<1>1. DesksInv /\ Books /\ [WarehouseNext]_warehouseVars => (DesksInv /\ Books)'
  BY DesksStay, BooksStay
<1>2. Books => ReservedIsSpokenFor
  BY DEF Books
<1> QED
  BY <1>1, <1>2, DesksStart, BooksStart, PTL DEF WarehouseSpec

(* No row is promised beyond what is on it, unless a check was out of date *)
(* when it was acted on.                                                   *)
THEOREM StockIsNeverOversold == WarehouseSpec => []NeverOversold
<1>1. DesksInv /\ Books /\ [WarehouseNext]_warehouseVars => (DesksInv /\ Books)'
  BY DesksStay, BooksStay
<1>2. Books => NeverOversold
  BY DEF Books
<1> QED
  BY <1>1, <1>2, DesksStart, BooksStart, PTL DEF WarehouseSpec
=============================================================================
