------------------------------ MODULE MCPayments ------------------------------
EXTENDS Payments, TLC

CONSTANTS p1, p2, r1

MCOrders == p1 :> [to |-> r1, cur |-> "tok", fee |-> 1, price |-> 2]
            @@ p2 :> [to |-> r1, cur |-> "eth", fee |-> 0, price |-> 1]
MCDeposit == [eth |-> 2, tok |-> 2]
MCBalances == {[A |-> [eth |-> 1, tok |-> 5], I |-> [eth |-> 0, tok |-> 0]]}
==============================================================================
