--------------------------- MODULE MCSettlement ----------------------------
(* A small instance of Settlement for TLC: alice sells 150 A in two rival     *)
(* orders that share a nonce, bob sells nothing for something.               *)
EXTENDS Settlement, TLC

CONSTANTS alice, bob, A, B, o1, o2, o3

OrderMaker == o1 :> alice @@ o2 :> alice @@ o3 :> bob
OrderSellToken == o1 :> A @@ o2 :> A @@ o3 :> B
OrderBuyToken == o1 :> B @@ o2 :> B @@ o3 :> A
OrderSellAmount == o1 :> 150 @@ o2 :> 100 @@ o3 :> 0
OrderBuyAmount == o1 :> 2 @@ o2 :> 1 @@ o3 :> 100
OrderNonce == o1 :> 1 @@ o2 :> 1 @@ o3 :> 1
OrderExpiry == o1 :> 1 @@ o2 :> 2 @@ o3 :> 2
Balances == A :> (alice :> 250 @@ bob :> 0) @@ B :> (alice :> 0 @@ bob :> 3)
Approvals == {<<alice, A>>, <<bob, B>>}
=============================================================================
