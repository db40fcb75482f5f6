----------------------------- MODULE MCPayouts -----------------------------
(***************************************************************************)
(* Customer cash-outs only, for two questions about Payouts alone: w1      *)
(* carries no client key; w2 does.                                         *)
(***************************************************************************)
EXTENDS Payouts

CONSTANTS w1, w2, k

MCAmount == [w \in Withdrawals |-> IF w = w1 THEN 2 ELSE 1]
MCClientKey == [w \in Withdrawals |-> IF w = w1 THEN NoKey ELSE k]

=============================================================================
