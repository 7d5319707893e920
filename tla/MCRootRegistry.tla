--------------------------- MODULE MCRootRegistry ---------------------------
(* Instances of RootRegistry for TLC.  Key k1 has up to three incarnations,*)
(* a1, a2 and a3; key k2 has one, b1.                                      *)
EXTENDS RootRegistry

CONSTANTS k1, k2, a1, a2, a3, b1

MCKeyOf == [a \in Addrs |-> IF a = b1 THEN k2 ELSE k1]
=============================================================================
