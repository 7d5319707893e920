------------------------------ MODULE MCServer ------------------------------
(* Instances of Server for TLC: a reverse proxy server with one service.   *)
EXTENDS Server

CONSTANTS c1, c2, c3, h1, h2

MCBuiltins == <<"proxysvc">>
MCPublished == <<"chan", "tcp">>
MCLateParts == [h \in Handlers |-> IF h = h1 THEN <<"rev1", "prx1">> ELSE <<"rev2">>]
MCKind == [c \in Callers |->
             IF c = c1 THEN "CloseWait" ELSE IF c = c2 THEN "signal" ELSE "CloseWait"]
=============================================================================
