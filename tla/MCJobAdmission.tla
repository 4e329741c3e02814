-------------------------- MODULE MCJobAdmission --------------------------
(* Calls of one translation task (p1 and p2 are the same request) and plain    *)
(* calls, reports and keyword extractions, of two users.                       *)
EXTENDS JobAdmission

CONSTANTS p1, p2, p3, r1, r2, r3, u1, u2, k1, k2, k3
MCUserOf == [c \in Calls |-> IF c = r3 THEN u2 ELSE u1]
MCKeyOf == [c \in Calls |-> IF c \in {p1, p2} THEN k1 ELSE IF c = p3 THEN k2 ELSE k3]
MCUnits == [c \in Calls |-> IF c \in {p1, p2, r1} THEN 2 ELSE 1]
=============================================================================
