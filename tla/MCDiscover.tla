----------------------------- MODULE MCDiscover -----------------------------
(* An instance of Discover for TLC.                                        *)
EXTENDS Discover

CONSTANTS proc, dir, own, lan, wan, other

(* proc, dir and own are one service of the client's own provider, in its  *)
(* process, the socket directory and the LAN; lan and wan are one service  *)
(* of another provider, listed in two networks; other is another service,  *)
(* behind a reverse proxy.                                                 *)
MCTier == [i \in Instances |->
             CASE i = proc -> 1 [] i = dir -> 3 [] i \in {own, lan} -> 4 [] OTHER -> 5]
MCName == [i \in Instances |-> IF i = other THEN <<"a", "b">> ELSE <<"a">>]
MCProvider == [i \in Instances |->
                 CASE i \in {proc, dir, own} -> <<"a">> [] i \in {lan, wan} -> <<"b">>
                   [] OTHER -> <<"b", "a">>]
MCSelf == <<"a">>

Call(tiers, name, providers, selfID, wait, measured, known) ==
    [tiers |-> tiers, name |-> name, providers |-> providers, selfID |-> selfID,
     timeout |-> wait[1], interval |-> wait[2], measured |-> measured, known |-> known]

(* One service with and without a timeout, the service of two providers,   *)
(* wildcards in the name, in the provider, and a scope that ends at the OS. *)
(* Check intervals that divide the timeout, that do not, and longer ones.  *)
MCOptions ==
    {Call(1..5, <<"a">>, <<>>, <<>>, <<1, 700>>, FALSE, FALSE),
     Call(2..5, <<"a">>, <<>>, <<>>, <<-1, 700>>, TRUE, FALSE),
     Call(2..5, <<"a">>, <<<<"a">>, <<"b">>>>, MCSelf, <<-1, 1000>>, TRUE, TRUE),
     Call(2..5, <<"*", "b">>, <<<<"b">>, <<"b", "*">>>>, NA, <<1, 2000>>, FALSE, TRUE),
     Call(4..5, <<"a", "*">>, <<>>, <<>>, <<0, 1000>>, TRUE, TRUE),
     Call({1, 4}, <<"a">>, <<<<"*">>>>, MCSelf, <<-1, 1500>>, FALSE, TRUE),
     Call(1..3, <<"a">>, <<>>, <<>>, <<-1, 1000>>, FALSE, FALSE)}
=============================================================================
