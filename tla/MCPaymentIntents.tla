-------------------------- MODULE MCPaymentIntents --------------------------
(***************************************************************************)
(* One order and the intents raised for it, in one of three scenes.        *)
(* "wallet": one intent that its customer pays in part, by card and from   *)
(* the wallet.  "sessions": one intent paid in two gateway sessions that   *)
(* webhooks, browsers and the sweep report.  "halves": two intents for     *)
(* part of the order each, which expire, and a crash.                      *)
(***************************************************************************)
EXTENDS PaymentIntents

CONSTANTS j1, j2

VARIABLE scene

Ops == {job'[j].op : j \in Jobs}
Opens(n) == \E i \in Intents : charge'[<<i, n>>].state # "none"

OneWholeIntent ==
    /\ crashes' = 0
    /\ \A i \in Intents : ~intent'[i].due
    /\ \A j \in Jobs :
         /\ job'[j].op = "raise" => j = j1 /\ job'[j].sum = Total /\ ~Exists(1)
         /\ job'[j].op = "webhook" => event'[<<1, job'[j].n>>].status # "FAILED"

ByWallet == OneWholeIntent /\ ~Opens(2)

BySessions ==
    /\ OneWholeIntent
    /\ {"wallet", "cancel"} \cap Ops = {}
    /\ job'[j2].op = "checkout" =>
         /\ job[j2] # Idle \/ (job[j1].step = "email" /\ job'[j2].sum = 1)
         /\ job'[j1].op \in {"none", "checkout"}

ByHalves ==
    /\ job'[j2] = Idle
    /\ "wallet" \notin Ops
    /\ ~Opens(2)
    /\ \A j \in Jobs : job'[j].op = "checkout" /\ job[j] = Idle
                         => job'[j].sum = Outstanding(job'[j].i)

MCInit == Init /\ scene \in {"wallet", "sessions", "halves"}
MCNext == /\ Next /\ UNCHANGED scene
          /\ CASE scene = "wallet" -> ByWallet
               [] scene = "sessions" -> BySessions
               [] scene = "halves" -> ByHalves
MCSpec == MCInit /\ [][MCNext]_<<vars, scene>>
FairMCSpec == MCSpec /\ IntentFairness
=============================================================================
