---------------------------- MODULE MCFIBBICache ----------------------------
(* Instances of FIBBICache for TLC.                                        *)
EXTENDS FIBBICache

CONSTANTS p1, p2, p3

\* p1 and p2 are translates up to rounding: one key, integrals of their own.
KeyOfPair == [p \in Pairs |-> IF p = p3 THEN "k2" ELSE "k1"]
Integrals == [p \in Pairs |-> <<"integrals", p>>]
IntegralValues == { Integrals[p] : p \in Pairs }
=============================================================================
