---------------------------- MODULE MCLANRegistry ----------------------------
(* Instances of LANRegistry for TLC.                                       *)
EXTENDS LANRegistry

CONSTANTS n1, n2, s1, s2

\* A pattern with a wildcard that matches every name.  With one name it is the
\* exact name.
MCPatterns == {Names}
=============================================================================
