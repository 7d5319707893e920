--------------------------- MODULE MCReverseProxy ---------------------------
(* An instance of ReverseProxy for TLC. *)
EXTENDS ReverseProxy

CONSTANTS c1, c2
=============================================================================
