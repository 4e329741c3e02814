---------------------------- MODULE MCPaymentOrder ----------------------------
EXTENDS PaymentOrder

CONSTANTS w1, w2, pay, pend, fin

MCAt == [e \in {pay, pend, fin} |-> IF e = fin THEN 1 ELSE 0]
=============================================================================
