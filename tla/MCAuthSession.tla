--------------------------- MODULE MCAuthSession ---------------------------
(* Two tabs and two operations, which are interchangeable; the account that is *)
(* logged in, and another one.                                                *)
EXTENDS AuthSession, TLC

Symmetric == Permutations(Tabs) \cup Permutations(Ops)
=============================================================================
