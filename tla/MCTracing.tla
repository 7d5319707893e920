----------------------------- MODULE MCTracing -----------------------------
(* An instance of Tracing for TLC.                                         *)
EXTENDS Tracing

CONSTANTS s1, s2, d1, all

(* A reader of the first ID, and one of everything.                        *)
MCWanted == [d \in Readers |-> IF d = all THEN None ELSE <<1, 0>>]

Bound(c, m, r, h, ss, dd) ==
    [calls |-> c, sends |-> m, records |-> r, hops |-> h, senders |-> ss, readers |-> dd]

(* Racing senders and callers with nothing recorded; racing senders whose  *)
(* messages are recorded elsewhere; more IDs than the service has room     *)
(* for; and records that go through the helper.                            *)
MCBounds ==
    {Bound(3, 3, 0, 0, {s1, s2}, {}),
     Bound(1, 1, 3, 0, {s1, s2}, {d1, all}),
     Bound(1, 3, 4, 0, {s1}, {d1, all}),
     Bound(1, 2, 0, 3, {s1}, {all})}
=============================================================================
