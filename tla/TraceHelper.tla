---------------------------- MODULE TraceHelper ----------------------------
(***************************************************************************)
(* msgTraceHelper (messagetracing.go 347-473): traceMsg puts a record in a *)
(* bounded buffer without ever blocking, and one goroutine, started by the *)
(* first record, delivers them to the messageTracing service by one-way    *)
(* sends.  The record whose send failed is kept and sent first after the   *)
(* service was discovered again; after three failures in a row the helper  *)
(* stops for good.  Records are numbered in the order of their traceMsg.   *)
(***************************************************************************)
EXTENDS Naturals, Sequences, SequencesExt

CONSTANT BufferSize     \* capacity of tracedMsgChan

ASSUME TraceHelperAssumption == BufferSize \in Nat \ {0}

VARIABLES
    tested,         \* records whose traceMsg has seen closed unset
    tracedMsgChan,  \* the buffer
    undelivered,    \* the record being delivered, 0 for nil
    failedCount,
    closed,
    at,             \* "off", "discover", "recv", "deliver", "closing" or "stopped"
    link,           \* the connection to the service: "none", "up" or "broken"
    accepted,       \* history: records put in the buffer, in order
    arrived,        \* history: records the service received, in order
    lost            \* history: records whose Send succeeded on a broken connection

traceVars == <<tested, tracedMsgChan, accepted>>
runVars == <<undelivered, failedCount, closed, link, arrived, lost>>
helperVars == <<traceVars, runVars, at>>

HelperInit ==
    /\ tested = {} /\ tracedMsgChan = <<>> /\ accepted = <<>>
    /\ undelivered = 0 /\ failedCount = 0 /\ closed = FALSE /\ link = "none"
    /\ at = "off" /\ arrived = <<>> /\ lost = {}

-----------------------------------------------------------------------------
(* traceMsg starts the goroutine, once, and tests closed; then it sends to the
   buffer, by which time the helper may have stopped.  Without room the record
   is dropped.                                                              *)
TraceTest(m) ==
    /\ at' = IF at = "off" THEN "discover" ELSE at
    /\ tested' = IF closed THEN tested ELSE tested \cup {m}
    /\ UNCHANGED <<tracedMsgChan, accepted, runVars>>

TraceSend(m) ==
    /\ m \in tested
    /\ tested' = tested \ {m}
    /\ LET room == Len(tracedMsgChan) < BufferSize
       IN  /\ tracedMsgChan' = IF room THEN Append(tracedMsgChan, m) ELSE tracedMsgChan
           /\ accepted' = IF room THEN Append(accepted, m) ELSE accepted
    /\ UNCHANGED <<runVars, at>>

-----------------------------------------------------------------------------
(* run() returns an error: once more, or stop.                              *)
Fail ==
    /\ failedCount' = failedCount + 1
    /\ at' = IF failedCount' >= 3 THEN "closing" ELSE "discover"
    /\ link' = "none"

(* run(): the service is discovered, or not within the timeout.             *)
RunConnects ==
    /\ at = "discover"
    /\ link' = "up"
    /\ at' = IF undelivered # 0 THEN "deliver" ELSE "recv"
    /\ UNCHANGED <<traceVars, undelivered, failedCount, closed, arrived, lost>>

RunFindsNone ==
    /\ at = "discover"
    /\ Fail
    /\ UNCHANGED <<traceVars, undelivered, closed, arrived, lost>>

RunRecv ==
    /\ at = "recv" /\ tracedMsgChan # <<>>
    /\ undelivered' = Head(tracedMsgChan)
    /\ tracedMsgChan' = Tail(tracedMsgChan)
    /\ at' = "deliver"
    /\ UNCHANGED <<tested, accepted, failedCount, closed, link, arrived, lost>>

(* deliver(): conn.Send succeeds; on a connection that has broken it may, too,
   and the record is lost.                                                  *)
Deliver ==
    /\ at = "deliver" /\ link \in {"up", "broken"}
    /\ arrived' = IF link = "up" THEN Append(arrived, undelivered) ELSE arrived
    /\ lost' = IF link = "up" THEN lost ELSE lost \cup {undelivered}
    /\ undelivered' = 0 /\ failedCount' = 0
    /\ at' = "recv"
    /\ UNCHANGED <<traceVars, closed, link>>

\* Mutant of DeliverFails: the record is given up with the connection.
DeliverFailsDrops ==
    /\ at = "deliver" /\ link = "broken"
    /\ Fail
    /\ undelivered' = 0
    /\ UNCHANGED <<traceVars, closed, arrived, lost>>

DeliverFails ==
    /\ at = "deliver" /\ link = "broken"
    /\ Fail
    /\ UNCHANGED <<traceVars, undelivered, closed, arrived, lost>>

(* The deferred end of the goroutine.                                       *)
Stop ==
    /\ at = "closing"
    /\ at' = "stopped" /\ closed' = TRUE
    /\ UNCHANGED <<traceVars, undelivered, failedCount, link, arrived, lost>>

(* The service stops, or its connection breaks.                             *)
Break ==
    /\ link = "up"
    /\ link' = "broken"
    /\ UNCHANGED <<traceVars, undelivered, failedCount, closed, at, arrived, lost>>

-----------------------------------------------------------------------------
(* What of the accepted records was delivered or is still to be: those that the
   service has, the one kept for a retry, the buffer.                       *)
Flow == arrived \o (IF undelivered = 0 THEN <<>> ELSE <<undelivered>>) \o tracedMsgChan

(* Through failures, retries and rediscovery, the records that traceMsg accepted
   reach the service in their order and once; those not yet there are the one
   kept for a retry and the buffer, and only a connection that broke under a
   send loses one.                                                          *)
DeliveredInOrder ==
    /\ IsInjective(accepted)
    /\ ToSet(Flow) = ToSet(accepted) \ lost
    /\ \A i, j \in DOMAIN Flow : i < j =>
          \E k, l \in DOMAIN accepted : k < l /\ accepted[k] = Flow[i] /\ accepted[l] = Flow[j]
=============================================================================
