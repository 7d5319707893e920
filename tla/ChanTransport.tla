--------------------------- MODULE ChanTransport ---------------------------
(***************************************************************************)
(* The in-process transport (chantransportserver.go, chantransportclient.go*)
(* and the chanRegistry of registry.go): a client hands a handshake to the *)
(* receiver goroutine of the transport, which starts one goroutine per     *)
(* connection; that goroutine takes the messages of all streams of the     *)
(* connection from recvChan and dispatches them, known messages to the     *)
(* message queue and the others to the stream's private channel, where a   *)
(* handler's Recv finds them.  Replies go straight to the stream's own     *)
(* msgChan.                                                                *)
(*                                                                         *)
(* Kinds of messages: "call" and "oneway" have handlers that do and do not *)
(* reply; the handler of "talk" receives one more message of its stream,   *)
(* and replies to that one; "data" is not a known message; "close" is      *)
(* streamCloseMsg.  A Recv with a time limit may give up, on either side.  *)
(* OnConnect functions that take the connection over are left out: such a  *)
(* connection has no goroutine and no OnDisconnect.  The message queue and *)
(* its workers are those of MsgQ and WorkerPool, here a queue and a fixed  *)
(* set of workers.                                                         *)
(***************************************************************************)
EXTENDS Naturals, Sequences, FiniteSets

CONSTANTS
    Conns,          \* connections
    Streams,        \* client streams
    ConnOf,         \* [Streams -> Conns]
    Workers,        \* workers of the message queue
    QSize,          \* capacity of recvChan, msgChan and privateChan (qsize)
    MaxSends,       \* most sends of a stream (bound); "data" may go QSize beyond it
    SendsOf,        \* [Streams -> 0..MaxSends], the bound of each
    KindsOf,        \* [Streams -> SUBSET Kinds], what each sends (bound); where this
                    \* has "data", also without a "talk"
    Timeouts,       \* streams on which the client called SetRecvTimeout
    HandlerTimeouts,    \* streams on which the handler did
    NoMsg           \* no message

Kinds == {"call", "oneway", "talk", "data", "close"}
Msg == [s : Streams, n : 1..MaxSends + QSize, kind : Kinds, await : BOOLEAN]
Reply == [n : 1..MaxSends + QSize, err : BOOLEAN]

ASSUME ChanTransportAssumption ==
    /\ ConnOf \in [Streams -> Conns]
    /\ QSize \in Nat \ {0} /\ MaxSends \in Nat /\ SendsOf \in [Streams -> 0..MaxSends]
    /\ KindsOf \in [Streams -> SUBSET Kinds] /\ Timeouts \cup HandlerTimeouts \subseteq Streams
    /\ NoMsg \notin Msg \cup Reply

VARIABLES
    listed, ctClosed, receiver,         \* chanRegistry entry, ct.closed, the receiver goroutine
    conn,                               \* [Conns -> "none", "offer", "open", "closed"]: the client's side
    goroutine,                          \* [Conns -> "none", "loop", "end"]: the server's side
    connNil,                            \* [Conns -> whether the goroutine set connClose to nil]
    recvChan, recvClosed,               \* the connection's channel
    hold,                               \* the message the goroutine is dispatching
    ssMap,                              \* streams with a server stream
    private, msgChan,                   \* [Streams -> channel contents]
    spc, out, msgNil,                   \* client stream: control, message in hand, msgChan = nil
    talking,                            \* streams whose last message was a "talk"
    mq, wmsg, wreply,                   \* message queue; per worker message and reply
    sent, dispatched,                   \* history: per stream, what was sent and dispatched
    wrong, strays                       \* history: streams that got another answer; streams
                                        \* with stray data, or on which a Recv timed out

server == <<listed, ctClosed, receiver>>
connV == <<conn, goroutine, connNil, recvClosed>>
clientV == <<spc, out, msgNil, talking>>
workV == <<wmsg, wreply>>
hist == <<sent, dispatched, wrong, strays>>
vars == <<server, connV, recvChan, hold, ssMap, private, msgChan, clientV, mq, workV, hist>>

TypeOK ==
    /\ listed \in BOOLEAN /\ ctClosed \in BOOLEAN /\ receiver \in {"run", "end"}
    /\ conn \in [Conns -> {"none", "offer", "open", "closed"}]
    /\ goroutine \in [Conns -> {"none", "loop", "end"}]
    /\ connNil \in [Conns -> BOOLEAN] /\ recvClosed \in [Conns -> BOOLEAN]
    /\ recvChan \in [Conns -> Seq(Msg)] /\ \A c \in Conns : Len(recvChan[c]) <= QSize
    /\ hold \in [Conns -> Msg \cup {NoMsg}]
    /\ ssMap \subseteq Streams /\ talking \subseteq Streams
    /\ private \in [Streams -> Seq(Msg)] /\ msgChan \in [Streams -> Seq(Reply)]
    /\ \A s \in Streams : Len(private[s]) <= QSize /\ Len(msgChan[s]) <= QSize
    /\ spc \in [Streams -> {"idle", "send", "recv", "closed", "panic"}]
    /\ out \in [Streams -> Msg \cup {NoMsg}] /\ msgNil \in [Streams -> BOOLEAN]
    /\ mq \in Seq(Msg)
    /\ wmsg \in [Workers -> Msg \cup {NoMsg}]
    /\ wreply \in [Workers -> Reply \cup {NoMsg}]
    /\ sent \in [Streams -> Seq(Nat)] /\ dispatched \in [Streams -> Seq(Nat)]
    /\ wrong \subseteq Streams /\ strays \subseteq Streams

Init ==
    /\ listed = TRUE /\ ctClosed = FALSE /\ receiver = "run"
    /\ conn = [c \in Conns |-> "none"] /\ goroutine = [c \in Conns |-> "none"]
    /\ connNil = [c \in Conns |-> FALSE] /\ recvClosed = [c \in Conns |-> FALSE]
    /\ recvChan = [c \in Conns |-> <<>>] /\ hold = [c \in Conns |-> NoMsg]
    /\ ssMap = {}
    /\ private = [s \in Streams |-> <<>>] /\ msgChan = [s \in Streams |-> <<>>]
    /\ spc = [s \in Streams |-> "idle"] /\ out = [s \in Streams |-> NoMsg]
    /\ msgNil = [s \in Streams |-> FALSE] /\ talking = {}
    /\ mq = <<>>
    /\ wmsg = [w \in Workers |-> NoMsg] /\ wreply = [w \in Workers |-> NoMsg]
    /\ sent = [s \in Streams |-> <<>>] /\ dispatched = [s \in Streams |-> <<>>]
    /\ wrong = {} /\ strays = {}

-----------------------------------------------------------------------------
(* Connecting: lookupServiceChan, then newConnection, whose handshake the  *)
(* receiver takes while it runs; closing the transport.                    *)
lookupServiceChan(c) ==
    /\ conn[c] = "none" /\ listed
    /\ conn' = [conn EXCEPT ![c] = "offer"]
    /\ UNCHANGED <<server, goroutine, connNil, recvClosed, recvChan, hold, ssMap, private,
                   msgChan, clientV, mq, workV, hist>>

Accept(c) ==
    /\ conn[c] = "offer" /\ receiver = "run"
    /\ conn' = [conn EXCEPT ![c] = "open"]
    /\ goroutine' = [goroutine EXCEPT ![c] = "loop"]
    /\ UNCHANGED <<server, connNil, recvClosed, recvChan, hold, ssMap, private, msgChan,
                   clientV, mq, workV, hist>>

ctClose ==
    /\ ~ctClosed
    /\ ctClosed' = TRUE /\ listed' = FALSE
    /\ UNCHANGED <<receiver, connV, recvChan, hold, ssMap, private, msgChan, clientV, mq,
                   workV, hist>>

ReceiverEnds ==
    /\ receiver = "run" /\ ctClosed
    /\ receiver' = "end"
    /\ UNCHANGED <<listed, ctClosed, connV, recvChan, hold, ssMap, private, msgChan,
                   clientV, mq, workV, hist>>

-----------------------------------------------------------------------------
(* The client's streams.  After "talk" a program sends "data" and waits    *)
(* for its answer; "data" without a "talk" is a stray message no handler   *)
(* receives.  A call on a stream that got EOF returns EOF at once.         *)
MayKind(s) == IF s \in talking THEN {"data"} ELSE KindsOf[s]

Send(s, kind) ==
    /\ spc[s] = "idle" /\ conn[ConnOf[s]] = "open"
    /\ kind \in MayKind(s)
    /\ Len(sent[s]) < SendsOf[s] + (IF kind = "close" THEN 1 ELSE IF kind = "data" THEN QSize ELSE 0)
    /\ IF msgNil[s]
       THEN /\ spc' = [spc EXCEPT ![s] = IF kind = "close" THEN "closed" ELSE "idle"]
            /\ UNCHANGED out
       ELSE /\ spc' = [spc EXCEPT ![s] = "send"]
            /\ out' = [out EXCEPT ![s] = [s |-> s, n |-> Len(sent[s]) + 1, kind |-> kind,
                                          await |-> kind = "call" \/ s \in talking]]
    /\ UNCHANGED <<server, connV, recvChan, hold, ssMap, private, msgChan, msgNil, talking,
                   mq, workV, hist>>

(* The send into serverChan succeeds when there is room; once the server's *)
(* goroutine has closed that channel it panics, waiting or not.  The       *)
(* program may recover from that, and this stream is not used again.       *)
SendDone(s) ==
    LET m == out[s]  c == ConnOf[s] IN
    /\ spc[s] = "send" /\ ~recvClosed[c] /\ Len(recvChan[c]) < QSize
    /\ recvChan' = [recvChan EXCEPT ![c] = Append(@, m)]
    /\ sent' = [sent EXCEPT ![s] = Append(@, m.n)]
    /\ spc' = [spc EXCEPT ![s] = IF m.kind = "close" THEN "closed"
                                 ELSE IF m.await THEN "recv" ELSE "idle"]
    /\ out' = [out EXCEPT ![s] = IF m.await THEN @ ELSE NoMsg]
    /\ talking' = IF m.kind = "talk" THEN talking \cup {s} ELSE talking \ {s}
    /\ strays' = IF m.kind = "data" /\ ~m.await THEN strays \cup {s} ELSE strays
    /\ UNCHANGED <<server, connV, hold, ssMap, private, msgChan, msgNil, mq, workV,
                   dispatched, wrong>>

SendPanics(s) ==
    /\ spc[s] = "send" /\ recvClosed[ConnOf[s]]
    /\ spc' = [spc EXCEPT ![s] = "panic"]
    /\ out' = [out EXCEPT ![s] = NoMsg]
    /\ UNCHANGED <<server, connV, recvChan, hold, ssMap, private, msgChan, msgNil, talking,
                   mq, workV, hist>>

(* Recv of the answer; EOF sets the stream's msgChan to nil.               *)
Recv(s) ==
    /\ spc[s] = "recv" /\ msgChan[s] # <<>>
    /\ msgChan' = [msgChan EXCEPT ![s] = Tail(@)]
    /\ msgNil' = [msgNil EXCEPT ![s] = Head(msgChan[s]).err]
    /\ wrong' = IF Head(msgChan[s]).n # out[s].n /\ ~Head(msgChan[s]).err
                THEN wrong \cup {s} ELSE wrong
    /\ spc' = [spc EXCEPT ![s] = "idle"] /\ out' = [out EXCEPT ![s] = NoMsg]
    /\ UNCHANGED <<server, connV, recvChan, hold, ssMap, private, talking, mq, workV,
                   sent, dispatched, strays>>

(* ErrRecvTimeout: the answer, if one comes, stays in msgChan for the      *)
(* stream's next Recv.                                                     *)
RecvTimeout(s) ==
    /\ spc[s] = "recv" /\ s \in Timeouts
    /\ spc' = [spc EXCEPT ![s] = "idle"] /\ out' = [out EXCEPT ![s] = NoMsg]
    /\ strays' = strays \cup {s}
    /\ UNCHANGED <<server, connV, recvChan, hold, ssMap, private, msgChan, msgNil, talking,
                   mq, workV, sent, dispatched, wrong>>

(* Connection.Close, by any goroutine, also while streams are in calls.    *)
Close(c) ==
    /\ conn[c] = "open"
    /\ conn' = [conn EXCEPT ![c] = "closed"]
    /\ UNCHANGED <<server, goroutine, connNil, recvClosed, recvChan, hold, ssMap, private,
                   msgChan, clientV, mq, workV, hist>>

-----------------------------------------------------------------------------
\* A mutation: connClose is noticed, recvChan stays open.
SeeCloseKeepsChan(c) ==
    /\ goroutine[c] = "loop" /\ hold[c] = NoMsg
    /\ conn[c] = "closed" /\ ~connNil[c]
    /\ connNil' = [connNil EXCEPT ![c] = TRUE]
    /\ UNCHANGED <<server, conn, goroutine, recvClosed, recvChan, hold, ssMap, private,
                   msgChan, clientV, mq, workV, hist>>

(* The connection's goroutine.  Its select takes either ready case.        *)
SeeClose(c) ==
    /\ goroutine[c] = "loop" /\ hold[c] = NoMsg
    /\ conn[c] = "closed" /\ ~connNil[c]
    /\ connNil' = [connNil EXCEPT ![c] = TRUE]
    /\ recvClosed' = [recvClosed EXCEPT ![c] = TRUE]
    /\ UNCHANGED <<server, conn, goroutine, recvChan, hold, ssMap, private, msgChan,
                   clientV, mq, workV, hist>>

\* A mutation: the next message is taken while one is being dispatched, which is lost.
TakeOver(c) ==
    /\ goroutine[c] = "loop" /\ recvChan[c] # <<>>
    /\ hold' = [hold EXCEPT ![c] = Head(recvChan[c])]
    /\ recvChan' = [recvChan EXCEPT ![c] = Tail(@)]
    /\ ssMap' = ssMap \cup {Head(recvChan[c]).s}
    /\ UNCHANGED <<server, connV, private, msgChan, clientV, mq, workV, hist>>

(* A message of a stream without a server stream makes one.                *)
Take(c) ==
    /\ goroutine[c] = "loop" /\ hold[c] = NoMsg /\ recvChan[c] # <<>>
    /\ hold' = [hold EXCEPT ![c] = Head(recvChan[c])]
    /\ recvChan' = [recvChan EXCEPT ![c] = Tail(@)]
    /\ ssMap' = ssMap \cup {Head(recvChan[c]).s}
    /\ UNCHANGED <<server, connV, private, msgChan, clientV, mq, workV, hist>>

\* A mutation: every message is taken for a known one.
canHandleAll(m) == m.kind # "close"

(* svc.canHandle: a known message of the service.                          *)
canHandle(m) == m.kind \in {"call", "oneway", "talk"}

(* The end of a stream, a known message, or a message for a handler's      *)
(* Recv; the last waits for room in the private channel.                   *)
Dispatch(c) ==
    LET m == hold[c] IN
    /\ m # NoMsg
    /\ \/ /\ m.kind = "close"
          /\ ssMap' = ssMap \ {m.s}
          /\ UNCHANGED <<mq, private>>
       \/ /\ canHandle(m)
          /\ mq' = Append(mq, m)
          /\ UNCHANGED <<ssMap, private>>
       \/ /\ m.kind # "close" /\ ~canHandle(m)
          /\ Len(private[m.s]) < QSize
          /\ private' = [private EXCEPT ![m.s] = Append(@, m)]
          /\ UNCHANGED <<ssMap, mq>>
    /\ hold' = [hold EXCEPT ![c] = NoMsg]
    /\ dispatched' = [dispatched EXCEPT ![m.s] = Append(@, m.n)]
    /\ UNCHANGED <<server, connV, recvChan, msgChan, clientV, workV, sent, wrong,
                   strays>>

\* A mutation: the goroutine returns when the connection closes, whatever is queued.
ExitUndrained(c) ==
    /\ goroutine[c] = "loop" /\ hold[c] = NoMsg
    /\ recvClosed[c]
    /\ goroutine' = [goroutine EXCEPT ![c] = "end"]
    /\ UNCHANGED <<server, conn, connNil, recvClosed, recvChan, hold, ssMap, private,
                   msgChan, clientV, mq, workV, hist>>

(* nil from a closed and drained channel: return, and OnDisconnect.        *)
Exit(c) ==
    /\ goroutine[c] = "loop" /\ hold[c] = NoMsg
    /\ recvClosed[c] /\ recvChan[c] = <<>>
    /\ goroutine' = [goroutine EXCEPT ![c] = "end"]
    /\ UNCHANGED <<server, conn, connNil, recvClosed, recvChan, hold, ssMap, private,
                   msgChan, clientV, mq, workV, hist>>

-----------------------------------------------------------------------------
(* Workers and handlers.  The reply of "call" is ready at once; "oneway"   *)
(* has none; a handler may fail with EOF.                                  *)
HandlerStart(w) ==
    /\ wmsg[w] = NoMsg /\ mq # <<>>
    /\ mq' = Tail(mq)
    /\ LET m == Head(mq) IN
         \/ m.kind = "oneway" /\ UNCHANGED workV
         \/ /\ m.kind = "call"
            /\ wmsg' = [wmsg EXCEPT ![w] = m]
            /\ \E e \in BOOLEAN : wreply' = [wreply EXCEPT ![w] = [n |-> m.n, err |-> e]]
         \/ /\ m.kind \notin {"call", "oneway"}
            /\ wmsg' = [wmsg EXCEPT ![w] = m]
            /\ UNCHANGED wreply
    /\ UNCHANGED <<server, connV, recvChan, hold, ssMap, private, msgChan, clientV, hist>>

(* chanServerStream.Recv in the handler of "talk": EOF when the client has *)
(* closed the connection, or the next message of the private channel; when *)
(* both are ready, either (connClose was read before the select).          *)
HandlerRecv(w) ==
    LET s == wmsg[w].s IN
    /\ wmsg[w] # NoMsg /\ wreply[w] = NoMsg
    /\ \/ /\ conn[ConnOf[s]] = "closed"
          /\ wreply' = [wreply EXCEPT ![w] = [n |-> wmsg[w].n, err |-> TRUE]]
          /\ UNCHANGED private
       \/ /\ private[s] # <<>>
          /\ wreply' = [wreply EXCEPT ![w] = [n |-> Head(private[s]).n, err |-> FALSE]]
          /\ private' = [private EXCEPT ![s] = Tail(@)]
    /\ UNCHANGED <<server, connV, recvChan, hold, ssMap, msgChan, clientV, mq, wmsg, hist>>

(* The handler's Recv gives up, and the handler returns ErrRecvTimeout,    *)
(* which is its reply; the message it waited for may still come.           *)
HandlerRecvTimeout(w) ==
    LET s == wmsg[w].s IN
    /\ wmsg[w] # NoMsg /\ wreply[w] = NoMsg
    /\ s \in HandlerTimeouts
    /\ wreply' = [wreply EXCEPT ![w] = [n |-> wmsg[w].n, err |-> FALSE]]
    /\ strays' = strays \cup {s}
    /\ UNCHANGED <<server, connV, recvChan, hold, ssMap, private, msgChan, clientV, mq, wmsg,
                   sent, dispatched, wrong>>

\* A mutation: replies go to one stream of the connection.
ReplyToFirst(m) == CHOOSE s \in Streams : ConnOf[s] = ConnOf[m.s]

(* ss.srcChan, the stream the message came from.                           *)
ReplyTo(m) == m.s

(* mm.stream.Send(reply): dropped when connClose is nil, else it waits for *)
(* room in the client's channel.                                           *)
HandlerReply(w) ==
    LET m == wmsg[w] IN
    /\ wreply[w] # NoMsg
    /\ \/ connNil[ConnOf[m.s]] /\ UNCHANGED msgChan
       \/ /\ ~connNil[ConnOf[m.s]]
          /\ Len(msgChan[ReplyTo(m)]) < QSize
          /\ msgChan' = [msgChan EXCEPT ![ReplyTo(m)] = Append(@, wreply[w])]
    /\ wmsg' = [wmsg EXCEPT ![w] = NoMsg] /\ wreply' = [wreply EXCEPT ![w] = NoMsg]
    /\ UNCHANGED <<server, connV, recvChan, hold, ssMap, private, clientV, mq, hist>>

-----------------------------------------------------------------------------
Next ==
    \/ ctClose \/ ReceiverEnds
    \/ \E c \in Conns : \/ lookupServiceChan(c) \/ Accept(c) \/ Close(c)
                        \/ SeeClose(c) \/ Take(c) \/ Dispatch(c) \/ Exit(c)
    \/ \E s \in Streams : \/ \E kind \in Kinds : Send(s, kind)
                          \/ SendDone(s) \/ SendPanics(s) \/ Recv(s) \/ RecvTimeout(s)
    \/ \E w \in Workers : \/ HandlerStart(w) \/ HandlerRecv(w) \/ HandlerRecvTimeout(w)
                          \/ HandlerReply(w)

Spec == Init /\ [][Next]_vars

(* Goroutines run when they can.  A select whose channel is always ready   *)
(* takes that case in the end; a sender to a channel that has room again   *)
(* and again gets its turn (Go's channels queue their waiters).  A program *)
(* that started a "talk" sends its "data"; nothing else has to be sent.    *)
FairSpec ==
    /\ Spec
    /\ \A c \in Conns : WF_vars(SeeClose(c)) /\ WF_vars(Take(c)) /\ WF_vars(Dispatch(c))
                        /\ WF_vars(Exit(c))
    /\ \A s \in Streams : SF_vars(SendDone(s)) /\ WF_vars(SendPanics(s))
                          /\ WF_vars(Recv(s)) /\ WF_vars(RecvTimeout(s))
                          /\ WF_vars(Send(s, "data") /\ s \in talking)
    /\ \A w \in Workers : SF_vars(HandlerStart(w)) /\ WF_vars(HandlerRecv(w))
                          /\ WF_vars(HandlerReply(w))

-----------------------------------------------------------------------------
(* Messages of a stream are dispatched in the order they were sent, none   *)
(* twice and none skipped.                                                 *)
InOrder ==
    \A s \in Streams : dispatched[s] = SubSeq(sent[s], 1, Len(dispatched[s]))

(* "send and wait for reply from peer" (README.md 189): what a call gets   *)
(* is the answer to its own request, or EOF, however many streams and      *)
(* workers work at the same time and whenever the connection is closed.    *)
(* The exceptions: after stray data on the stream, or a message that came  *)
(* when the handler's Recv had given up, a later handler takes that for    *)
(* the message it waits for; and after ErrRecvTimeout the stream's next    *)
(* call gets the late answer, for replies do not name their request.       *)
OwnReply == wrong \subseteq strays

(* The connection's goroutine waits for room in the private channel of a   *)
(* stream.                                                                 *)
Blocked(c) ==
    hold[c] # NoMsg /\ hold[c].kind = "data" /\ Len(private[hold[c].s]) = QSize

(* Every worker waits for room in the msgChan of some stream.              *)
Stalled ==
    \A w \in Workers : wreply[w] # NoMsg /\ Len(msgChan[ReplyTo(wmsg[w])]) = QSize

(* A message whose Send has returned is dispatched, also when the client   *)
(* closes the connection right afterwards (delServiceLAN, registry.go 270, *)
(* relies on it) or while the Send is under way: a Send that meets the     *)
(* closed channel panics, it does not return.  Only stray messages that    *)
(* nobody receives can prevent it.                                         *)
SentIsDispatched ==
    \A s \in Streams :
        dispatched[s] # sent[s] ~> (dispatched[s] = sent[s] \/ []Blocked(ConnOf[s]))

(* A call returns, with a reply or an error, with the same exception; the  *)
(* select of Recv does not have the connection's end among its cases, so a *)
(* call whose connection another goroutine closes may wait for ever.  So   *)
(* may one that needs a worker when late answers nobody reads hold them    *)
(* all.  With a time limit it returns in any case.                         *)
CallsReturn ==
    \A s \in Streams :
        spc[s] = "recv" ~>
            \/ spc[s] # "recv"
            \/ /\ s \notin Timeouts
               /\ conn[ConnOf[s]] = "closed" \/ []Blocked(ConnOf[s]) \/ []Stalled

(* "a function which is called when the connection was disconnected"       *)
(* (service_options.go 33): after the client's Close, the server's side of *)
(* the connection ends and calls it, with the same exception.              *)
Disconnects ==
    \A c \in Conns : conn[c] = "closed" ~> (goroutine[c] = "end" \/ []Blocked(c))
=============================================================================
