------------------------------ MODULE Tracing ------------------------------
(***************************************************************************)
(* Message tracing, from the tagging of a message to the reading of what   *)
(* was recorded of it (messagetracing.go, messagetracing_svc.go).          *)
(*                                                                         *)
(* Tagging, in the client: TraceMsgBy* asks that the next count messages   *)
(* of a type are traced, and getTracingID, called by every Send, hands out *)
(* the tracing IDs: the uuid of the type's traceConf and a sequence        *)
(* number.  One message type is modelled; its entry of tracedMsgList.types *)
(* is cur.  A sender keeps the *traceConf it found after the lock is       *)
(* released, so confs keeps all that were ever made; the uuid is the       *)
(* position in confs.                                                      *)
(*                                                                         *)
(* Recording: each hop of a traced message makes a record with its tracing *)
(* ID.  Those of this process go through its helper, module TraceHelper;   *)
(* the helpers of other processes may drop records (a full buffer, or it   *)
(* has given up), so any number of their records of an ID arrives.         *)
(*                                                                         *)
(* Collecting, in the messageTracing service: a record is handled by a     *)
(* worker of its own and kept in the session of its tracing ID.  At most   *)
(* Cap sessions are kept, in the order of their last use (lru); lut finds  *)
(* the session of an ID.  Reading an ID, or everything, takes the sessions *)
(* out.  A session (and its list element) is named after the record that   *)
(* made it.  The handlers look up, append and move under separate locks.   *)
(***************************************************************************)
EXTENDS TraceHelper, FiniteSets, Functions

CONSTANTS
    Senders,            \* goroutines that send messages of the type
    MaxTracingSessions, \* limit of count
    Counts,             \* the counts callers ask for
    Readers,            \* readTracedMsg messages
    Wanted,             \* Wanted[d]: the tracing ID that d asks for, or None for all
    Cap,                \* the limit of the service's sessions
    Bounds,             \* bounds on the numbers of calls of TraceMsgBy* and
                        \* UnTraceMsgAll, of messages sent per goroutine, of
                        \* records of other processes and of this one, and the
                        \* goroutines and readers there are: fields calls,
                        \* sends, records, hops, senders, readers
    None

ASSUME TracingAssumption ==
    /\ MaxTracingSessions \in Nat \ {0} /\ Cap \in Nat \ {0}
    /\ Counts \subseteq Nat
    /\ IsFiniteSet(Senders)
    /\ Wanted \in [Readers -> (Nat \X Nat) \cup {None}]
    /\ None \notin Nat \cup (Nat \X Nat)
    /\ \A b \in Bounds : /\ b.calls \in Nat /\ b.sends \in Nat /\ b.records \in Nat
                         /\ b.hops \in Nat /\ b.senders \subseteq Senders /\ b.readers \subseteq Readers

VARIABLES
    bound,   \* the bounds of this behaviour
    confs,   \* every *traceConf: its count and seqNum
    cur,     \* the one in tracedMsgList.types, or 0
    calls,   \* number of calls so far
    spc,     \* sender -> where getTracingID is
    held,    \* sender -> its tcptr, or 0
    sends,   \* sender -> messages sent so far
    issued,  \* sender -> the tracing IDs it was given, in order
    traced,  \* the tracing IDs of this process's records, in order
    token,   \* the tracing IDs of the records that have arrived, in order
    lru,     \* the sessions, most recently used first
    lut,     \* tracing ID -> its session, a map
    records, \* session -> the records it holds
    pc,      \* record -> where its handler is
    elem,    \* record -> the session its handler has looked up
    rpc,     \* reader -> where its handler is
    taken,   \* reader -> the sessions it has taken out and still has to read
    result,  \* reader -> the records collected for its reply
    twinned  \* history: the IDs that had a session when another was made

tagVars == <<confs, cur, calls, spc, held, sends, issued>>
writerVars == <<pc, elem, twinned>>
readerVars == <<rpc, taken, result>>
tracerVars == <<token, lru, lut, records, writerVars, readerVars>>
hopVars == <<traced, helperVars>>
vars == <<bound, tagVars, tracerVars, hopVars>>

Init ==
    /\ bound \in Bounds
    /\ confs = <<>> /\ cur = 0 /\ calls = 0
    /\ spc = [s \in Senders |-> "idle"]
    /\ held = [s \in Senders |-> 0]
    /\ sends = [s \in Senders |-> 0]
    /\ issued = [s \in Senders |-> <<>>]
    /\ traced = <<>> /\ HelperInit
    /\ token = <<>> /\ lru = <<>> /\ lut = <<>>
    /\ records = <<>> /\ pc = <<>> /\ elem = <<>> /\ twinned = {}
    /\ rpc = [d \in Readers |-> "arrive"]
    /\ taken = [d \in Readers |-> {}]
    /\ result = [d \in Readers |-> {}]

-----------------------------------------------------------------------------
(* TraceMsgByNameWithFilters and UnTraceMsgAll.                            *)

Capped(n) == IF n > MaxTracingSessions THEN MaxTracingSessions ELSE n

\* Mutant of NewCount: the new count is taken whatever was handed out before.
NewCountPlain(n, seqNum) == n

\* The count that an existing entry gets.
NewCount(n, seqNum) == IF n < seqNum THEN seqNum + 1 ELSE n

TraceMsgByName(n) ==
    /\ calls < bound.calls
    /\ calls' = calls + 1
    /\ \/ /\ Capped(n) = 0
          /\ cur' = 0
          /\ UNCHANGED confs
       \/ /\ Capped(n) > 0 /\ cur # 0
          /\ confs' = [confs EXCEPT ![cur].count = NewCount(Capped(n), confs[cur].seqNum)]
          /\ UNCHANGED cur
       \/ /\ Capped(n) > 0 /\ cur = 0
          /\ confs' = Append(confs, [count |-> Capped(n), seqNum |-> 0])
          /\ cur' = Len(confs')
    /\ UNCHANGED <<bound, hopVars, spc, held, sends, issued, tracerVars>>

UnTraceMsgAll ==
    /\ calls < bound.calls
    /\ calls' = calls + 1
    /\ cur' = 0
    /\ UNCHANGED <<bound, hopVars, confs, spc, held, sends, issued, tracerVars>>

-----------------------------------------------------------------------------
(* getTracingID.                                                           *)

\* Under the lock: an entry that is used up is deleted.
getTraceConf(s) ==
    /\ spc[s] = "idle" /\ s \in bound.senders
    /\ sends[s] < bound.sends
    /\ sends' = [sends EXCEPT ![s] = @ + 1]
    /\ \/ /\ cur = 0
          /\ UNCHANGED <<cur, spc, held>>
       \/ /\ cur # 0 /\ confs[cur].seqNum >= confs[cur].count
          /\ cur' = 0
          /\ UNCHANGED <<spc, held>>
       \/ /\ cur # 0 /\ confs[cur].seqNum < confs[cur].count
          /\ held' = [held EXCEPT ![s] = cur]
          /\ spc' = [spc EXCEPT ![s] = "match"]
          /\ UNCHANGED cur
    /\ UNCHANGED <<bound, hopVars, confs, calls, issued, tracerVars>>

\* A filter does not match the message: it is not traced.
FilterRejects(s) ==
    /\ spc[s] = "match"
    /\ spc' = [spc EXCEPT ![s] = "idle"]
    /\ held' = [held EXCEPT ![s] = 0]
    /\ UNCHANGED <<bound, hopVars, confs, cur, calls, sends, issued, tracerVars>>

\* &uuidInfo{tcptr.id, tcptr.seqNum}: the number is read without the lock.
MakeID(s) ==
    /\ spc[s] = "match"
    /\ issued' = [issued EXCEPT ![s] = Append(@, <<held[s], confs[held[s]].seqNum>>)]
    /\ spc' = [spc EXCEPT ![s] = "add"]
    /\ UNCHANGED <<bound, hopVars, confs, cur, calls, held, sends, tracerVars>>

\* Mutant of AddSeqNum: the number is not advanced.
AddSeqNumSkipped(s) ==
    /\ spc[s] = "add"
    /\ spc' = [spc EXCEPT ![s] = "idle"]
    /\ held' = [held EXCEPT ![s] = 0]
    /\ UNCHANGED <<bound, hopVars, confs, cur, calls, sends, issued, tracerVars>>

\* atomic.AddUint32(&tcptr.seqNum, 1)
AddSeqNum(s) ==
    /\ spc[s] = "add"
    /\ confs' = [confs EXCEPT ![held[s]].seqNum = @ + 1]
    /\ spc' = [spc EXCEPT ![s] = "idle"]
    /\ held' = [held EXCEPT ![s] = 0]
    /\ UNCHANGED <<bound, hopVars, cur, calls, sends, issued, tracerVars>>

-----------------------------------------------------------------------------
(* The IDs of messages of sender s whose getTracingID has returned.        *)
Known(s) ==
    {issued[s][i] : i \in {i \in DOMAIN issued[s] : spc[s] = "add" => i < Len(issued[s])}}

(* A record reaches the service.                                           *)
Arrive(id) ==
    /\ token' = Append(token, id)
    /\ pc' = Append(pc, "arrive")
    /\ elem' = Append(elem, None)
    /\ records' = Append(records, {})
    /\ UNCHANGED <<bound, tagVars, lru, lut, twinned, readerVars>>

(* One made by another process on the message's path.                      *)
RemoteHop(s) ==
    /\ Len(token) < bound.records
    /\ \E id \in Known(s) : Arrive(id)
    /\ UNCHANGED hopVars

(* One made by this process: traceMsg, and its helper's goroutine.         *)
traceMsg(s) ==
    /\ Len(traced) < bound.hops
    /\ \E id \in Known(s) : traced' = Append(traced, id)
    /\ TraceTest(Len(traced'))
    /\ UNCHANGED <<bound, tagVars, tracerVars>>

HelperDelivers ==
    /\ Deliver
    /\ IF link = "up" THEN Arrive(traced[undelivered])
       ELSE UNCHANGED <<bound, tagVars, tracerVars>>
    /\ UNCHANGED traced

HelperRuns ==
    /\ \/ RunConnects \/ RunFindsNone \/ RunRecv \/ DeliverFails \/ Stop \/ Break
       \/ \E m \in tested : TraceSend(m)
    /\ UNCHANGED <<bound, tagVars, tracerVars, traced>>

-----------------------------------------------------------------------------
(* tracedMessageRecord.Handle                                              *)

Lookup(r) ==
    LET has == token[r] \in DOMAIN lut
    IN  /\ pc[r] = "arrive"
        /\ elem' = [elem EXCEPT ![r] = IF has THEN lut[token[r]] ELSE None]
        /\ pc' = [pc EXCEPT ![r] = IF has THEN "append" ELSE "create"]
        /\ UNCHANGED <<bound, hopVars, tagVars, token, lru, lut, records, twinned, readerVars>>

AppendRecord(r) ==
    /\ pc[r] = "append"
    /\ records' = [records EXCEPT ![elem[r]] = @ \cup {r}]
    /\ pc' = [pc EXCEPT ![r] = "move"]
    /\ UNCHANGED <<bound, hopVars, tagVars, token, lru, lut, elem, twinned, readerVars>>

\* Mutant of MoveToFront: the element is pushed to the front anew.
MoveToFrontPushes(r) ==
    /\ pc[r] = "move"
    /\ lru' = <<elem[r]>> \o RemoveFirst(lru, elem[r])
    /\ pc' = [pc EXCEPT ![r] = "done"]
    /\ UNCHANGED <<bound, hopVars, tagVars, token, lut, records, elem, twinned, readerVars>>

\* An element that is no longer in the list is left alone.
MoveToFront(r) ==
    /\ pc[r] = "move"
    /\ lru' = IF Contains(lru, elem[r])
              THEN <<elem[r]>> \o RemoveFirst(lru, elem[r])
              ELSE lru
    /\ pc' = [pc EXCEPT ![r] = "done"]
    /\ UNCHANGED <<bound, hopVars, tagVars, token, lut, records, elem, twinned, readerVars>>

\* A map without an ID.
Without(m, t) == Restrict(m, DOMAIN m \ {t})

\* A new session with the record, in front of the sessions of room.
PushSession(r, room, kept) ==
    /\ pc[r] = "create"
    /\ records' = [records EXCEPT ![r] = {r}]
    /\ lru' = <<r>> \o room
    /\ lut' = [t \in DOMAIN kept \cup {token[r]} |-> IF t = token[r] THEN r ELSE kept[t]]
    /\ pc' = [pc EXCEPT ![r] = "done"]
    /\ twinned' = twinned \cup ({token[r]} \cap DOMAIN lut)
    /\ UNCHANGED <<bound, hopVars, tagVars, token, elem, readerVars>>

\* Under one lock: evict the oldest session when the list is full, then add.
CreateSession(r) ==
    IF Len(lru) >= Cap THEN PushSession(r, Front(lru), Without(lut, token[Last(lru)]))
    ELSE PushSession(r, lru, lut)

-----------------------------------------------------------------------------
(* readTracedMsg.Handle                                                    *)

\* Mutant of TakeToken: the session is read and stays in the list.
TakeTokenKeeps(d) ==
    /\ rpc[d] = "arrive" /\ d \in bound.readers
    /\ Wanted[d] # None
    /\ taken' = [taken EXCEPT ![d] = {lut[t] : t \in {Wanted[d]} \cap DOMAIN lut}]
    /\ rpc' = [rpc EXCEPT ![d] = "read"]
    /\ UNCHANGED <<bound, hopVars, tagVars, token, lru, lut, records, writerVars, result>>

\* One ID: its session leaves both structures under the lock.
TakeToken(d) ==
    /\ rpc[d] = "arrive" /\ d \in bound.readers
    /\ Wanted[d] # None
    /\ taken' = [taken EXCEPT ![d] = {lut[t] : t \in {Wanted[d]} \cap DOMAIN lut}]
    /\ lut' = Without(lut, Wanted[d])
    /\ lru' = IF Wanted[d] \in DOMAIN lut THEN RemoveFirst(lru, lut[Wanted[d]]) ELSE lru
    /\ rpc' = [rpc EXCEPT ![d] = "read"]
    /\ UNCHANGED <<bound, hopVars, tagVars, token, records, writerVars, result>>

\* The nil uuid: list and table are replaced by empty ones.
TakeAll(d) ==
    /\ rpc[d] = "arrive" /\ d \in bound.readers
    /\ Wanted[d] = None
    /\ taken' = [taken EXCEPT ![d] = ToSet(lru)]
    /\ lru' = <<>> /\ lut' = <<>>
    /\ rpc' = [rpc EXCEPT ![d] = "read"]
    /\ UNCHANGED <<bound, hopVars, tagVars, token, records, writerVars, result>>

\* The records of the sessions are then read, one by one, with no lock.
ReadSession(d) ==
    /\ rpc[d] = "read"
    /\ \E s \in taken[d] :
         /\ taken' = [taken EXCEPT ![d] = @ \ {s}]
         /\ result' = [result EXCEPT ![d] = @ \cup records[s]]
    /\ UNCHANGED <<bound, hopVars, tagVars, token, lru, lut, records, writerVars, rpc>>

Reply(d) ==
    /\ rpc[d] = "read"
    /\ taken[d] = {}
    /\ rpc' = [rpc EXCEPT ![d] = "done"]
    /\ UNCHANGED <<bound, hopVars, tagVars, token, lru, lut, records, writerVars, taken, result>>

-----------------------------------------------------------------------------
Next ==
    \/ \E n \in Counts : TraceMsgByName(n)
    \/ UnTraceMsgAll
    \/ \E s \in Senders :
         getTraceConf(s) \/ FilterRejects(s) \/ MakeID(s) \/ AddSeqNum(s)
    \/ \E s \in Senders : RemoteHop(s) \/ traceMsg(s)
    \/ HelperDelivers \/ HelperRuns
    \/ \E r \in DOMAIN token :
         Lookup(r) \/ AppendRecord(r) \/ MoveToFront(r) \/ CreateSession(r)
    \/ \E d \in Readers : TakeToken(d) \/ TakeAll(d) \/ ReadSession(d) \/ Reply(d)

Spec == Init /\ [][Next]_vars

-----------------------------------------------------------------------------
(* Properties.                                                             *)

\* messagetracing.go:50: each traced message "has a unique session token".
\* Senders read the number without the lock, so two of them can be given the
\* same ID, but only while the first has not yet advanced the number: an ID is
\* never given again once the getTracingID that made it has returned.
TokensUnique ==
    [][\A s, t \in Senders : \A i \in DOMAIN issued[t] :
          issued'[s] # issued[s] /\ issued[t][i] = Last(issued'[s])
            => s # t /\ i = Len(issued[t]) /\ spc[t] = "add"]_vars

\* However senders race past the test against count while callers change it,
\* no traceConf numbers more messages than asked for, but for one per sender
\* that was under way.
SeqNumBounded ==
    \A c \in 1 .. Len(confs) :
        confs[c].seqNum + Cardinality({s \in Senders : held[s] = c})
            <= confs[c].count + Cardinality(Senders)

\* However handlers, evictions and reads interleave, the list keeps to its
\* limit although the test for it and the lookup are apart; the table only
\* leads to sessions of the right ID that are in the list, once; and every
\* session in the list is found by its ID (messagetracing.go:183: a read returns
\* "all the collected traced messages by the token"), unless two handlers that
\* both missed the ID made a session each for it.
IndexesAgree ==
    /\ IsInjective(lru) /\ Len(lru) <= Cap
    /\ \A t \in DOMAIN lut : Contains(lru, lut[t]) /\ token[lut[t]] = t
    /\ \A s \in ToSet(lru) : token[s] \notin twinned
         => token[s] \in DOMAIN lut /\ lut[token[s]] = s

\* Reading takes out: no record is returned to two readers, although records
\* are read with no lock while handlers still append to a session taken out.
ReturnedOnce ==
    \A d, e \in Readers : d # e => result[d] \cap result[e] = {}

=============================================================================
