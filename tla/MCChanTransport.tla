-------------------------- MODULE MCChanTransport --------------------------
(* Instances of ChanTransport for TLC.                                     *)
EXTENDS ChanTransport

CONSTANTS k1, k2, s1, s2, s3, w1

MCConnOf == [s \in Streams |-> IF s = s3 THEN k2 ELSE k1]
MCSendsOf == [s \in Streams |-> IF s = s2 THEN MaxSends ELSE 1]
MCKindsOf == [s \in Streams |-> IF s = s1 THEN {"data", "talk", "close"}
                                         ELSE {"call", "oneway"}]
=============================================================================
