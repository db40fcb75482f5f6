--------------------------- MODULE MCSettlements ---------------------------
(***************************************************************************)
(* Money leaving the platform, in one of three scenes.  "cash-outs": three *)
(* customer withdrawals and no settlement; w1 carries no client key, w2    *)
(* and w3 are the same request sent twice with the key k, and the customer *)
(* can afford one of the two, and the other once the first was given back. *)
(* The other scenes are one business with two members of staff.            *)
(* "overlap": two settlements, the second by the engine or by the pay      *)
(* route, and a crash.  "approval": one settlement under dual approval and *)
(* a cancellation, where the two members of staff approve in any order.    *)
(***************************************************************************)
EXTENDS Settlements

CONSTANTS w1, w2, w3, k, s1, s2, ada, bola, Scenes

VARIABLE scene

MCAmount == [w \in Withdrawals |-> IF w = w1 THEN 2 ELSE 1]
MCClientKey == [w \in Withdrawals |-> IF w = w1 THEN NoKey ELSE k]

CashOuts == \A s \in Settlements : settled'[s] = "ABSENT" /\ \A j \in Jobs : job'[j].p # s

Overlap ==
    /\ asked' = {} /\ cancels' = 0
    /\ \A j \in Jobs : /\ job'[j].op = "calculate" /\ job'[j].p = s1 => ~job'[j].caught
                       /\ job'[j].by = bola => sheet[s1].approvedBy = ada /\ job'[j].p = s1

Approval ==
    /\ asked' = {} /\ crashes' = 0 /\ settled'[s2] = "ABSENT"
    /\ \A j \in Jobs : job'[j].op = "calculate" => job'[j].p = s1 /\ ~job'[j].caught

MCInit == WatchedInit /\ scene \in Scenes
MCNext == /\ WatchedNext /\ UNCHANGED scene
          /\ \/ scene = "cash-outs" /\ CashOuts
             \/ scene = "overlap" /\ Overlap
             \/ scene = "approval" /\ Approval
FairMCSpec == MCInit /\ [][MCNext]_<<vars, clean, scene>> /\ SettlementFairness
=============================================================================
