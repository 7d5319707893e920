--------------------------- MODULE StreamTransport ---------------------------
(***************************************************************************)
(* One connection of the stream transport (streamtransportclient.go and    *)
(* streamtransportserver.go, over a unix domain or tcp socket) with the    *)
(* streams multiplexed on it: the client's streams and its receiver        *)
(* goroutine, the server's receiver goroutine with its map of server       *)
(* streams, and the handlers that reply on them.                           *)
(*                                                                         *)
(* A request stands for its frame, its reply and the frame of the reply.   *)
(* A server stream is a client stream and a generation, because a stream   *)
(* that is used after Close() gets a new context on the server.  The queue *)
(* between receiver and handlers is the subject of module MsgQ: here every *)
(* known message is handled by a worker of its own.                        *)
(***************************************************************************)
EXTENDS Integers, Sequences, FiniteSets, Functions

CONSTANTS
    Streams,       \* client streams of the connection
    Reqs,          \* the messages the client sends
    StreamOf,      \* the stream a message is sent on: the chanID of its frame
                   \* and of the frame of its reply
    Scripts,       \* what the users of the streams may send, in this order
    KindOf,        \* what the server makes of a message, see Kinds
    OneWay,        \* those sent with Send(); the others with SendRecv()
    NetCap,        \* bound: frames the socket buffers in each direction
    ClientQ,       \* capacity of a client stream's msgChan
    ServerQ,       \* capacity of a server stream's privateChan
    RecvTimeouts,  \* client and handlers have called SetRecvTimeout
    None

(* rpc: Handle() returns a reply; eof: it returns io.EOF; huge: its reply is
   too large to send; mute: it returns nil; session: it receives one private
   message from the stream and replies to that; private: a message without
   Handle(); garbled: it cannot be decoded; close: streamCloseMsg; oversize: the
   message itself is too large to send.                                     *)
Kinds == {"rpc", "eof", "huge", "mute", "session", "private", "garbled", "close", "oversize"}
Handled == {"rpc", "eof", "huge", "mute", "session"}
Silent == {"huge", "mute"}

ASSUME StreamAssumption ==
    /\ IsFiniteSet(Reqs)
    /\ StreamOf \in [Reqs -> Streams]
    /\ Scripts \subseteq [Streams -> Seq(Reqs)]
    /\ \A f \in Scripts : \A s \in Streams :
          /\ IsInjective(f[s])
          /\ \A i \in 1..Len(f[s]) : StreamOf[f[s][i]] = s
    /\ KindOf \in [Reqs -> Kinds]
    /\ OneWay \subseteq Reqs
    /\ NetCap \in Nat \ {0} /\ ClientQ \in Nat \ {0} /\ ServerQ \in Nat \ {0}
    /\ RecvTimeouts \in BOOLEAN
    /\ None \notin Reqs /\ {"nothing", "error", "timeout"} \cap Reqs = {}

Gens == 0..Cardinality({q \in Reqs : KindOf[q] = "close"})
ServerStreams == Streams \X Gens

VARIABLES
    todo,      \* stream -> what its user has not sent yet
    cur,       \* stream -> the request its user is sending or waiting for
    cpc,       \* stream -> "idle", "write" or "recv"
    got,       \* request -> what its Recv() has returned
    msgChan,   \* stream -> replies the receiver has delivered
    eof,       \* stream -> its msgChan has been set to nil
    inHand,    \* the frame the client's receiver is delivering
    toNil,     \* that frame's channel was nil when it was looked up
    cEnded,    \* the client's receiver has returned
    net,       \* the socket: "open" or "closed"
    c2s,       \* frames on their way to the server
    s2c,       \* frames on their way to the client
    stClosed,  \* st.closed is nil
    spc,       \* the server's receiver: "top", "read", "dispatch" or "ended"
    sMsg,      \* the message it dispatches
    gen,       \* stream -> generation of its server stream
    private,   \* server stream -> its privateChan
    main,      \* server stream -> its encMainCopy
    encBuf,    \* server stream -> what its main encoder's buffer holds
    wpc,       \* request -> where its handler is
    ss,        \* request -> the server stream it was dispatched to
    out,       \* request -> the message its handler sends
    mine,      \* request -> its handler holds the main encoder
    sent       \* history: the frames written by the server

clientVars == <<todo, cur, cpc, got, msgChan, eof, inHand, toNil, cEnded>>
serverVars == <<stClosed, spc, sMsg, gen, private>>
sendVars == <<main, encBuf, wpc, ss, out, mine, sent>>
vars == <<todo, cur, cpc, got, msgChan, eof, inHand, toNil, cEnded, net, c2s, s2c,
          stClosed, spc, sMsg, gen, private, main, encBuf, wpc, ss, out, mine, sent>>

(* The connection has been made (the dial and the handshakes are in module
   ReverseProxy); what the streams' users will send is chosen here.         *)
Init ==
    /\ todo \in Scripts
    /\ cur = [s \in Streams |-> None]
    /\ cpc = [s \in Streams |-> "idle"]
    /\ got = [q \in Reqs |-> "nothing"]
    /\ msgChan = [s \in Streams |-> <<>>]
    /\ eof = [s \in Streams |-> FALSE]
    /\ inHand = None /\ toNil = FALSE /\ cEnded = FALSE
    /\ net = "open" /\ c2s = <<>> /\ s2c = <<>>
    /\ stClosed = FALSE
    /\ spc = "top" /\ sMsg = None
    /\ gen = [s \in Streams |-> 0]
    /\ private = [x \in ServerStreams |-> <<>>]
    /\ main = [x \in ServerStreams |-> FALSE]
    /\ encBuf = [x \in ServerStreams |-> None]
    /\ wpc = [q \in Reqs |-> "none"]
    /\ ss = [q \in Reqs |-> <<StreamOf[q], 0>>]
    /\ out = [q \in Reqs |-> q]
    /\ mine = [q \in Reqs |-> FALSE]
    /\ sent = <<>>

-----------------------------------------------------------------------------
(* A definition whose name says what it gets wrong (TakeEncoderAlways, ...) is a
   plausible mistake in the definition after it: TLC finds a property violated
   when it takes that definition's place.  It is not part of Spec.          *)

(* The user of stream s starts Send() or SendRecv(): io.EOF at once if the
   stream has seen EOF or the connection is gone, ErrMsgTooLarge after encoding.
   A stream has one user, so nobody contends for its encoder: whether it was
   given back (it is not, after ErrMsgTooLarge) or is copied makes no difference. *)
Send(s) ==
    /\ cpc[s] = "idle" /\ todo[s] # <<>>
    /\ todo' = [todo EXCEPT ![s] = Tail(@)]
    /\ IF eof[s] \/ cEnded \/ KindOf[Head(todo[s])] = "oversize"
       THEN /\ got' = [got EXCEPT ![Head(todo[s])] = "error"]
            /\ UNCHANGED <<cur, cpc>>
       ELSE /\ cur' = [cur EXCEPT ![s] = Head(todo[s])]
            /\ cpc' = [cpc EXCEPT ![s] = "write"]
            /\ UNCHANGED got
    /\ UNCHANGED <<msgChan, eof, inHand, toNil, cEnded, net, c2s, s2c, serverVars, sendVars>>

(* The frame is written under the connection's mutex; a write to a closed
   socket fails.  Send() is then done, SendRecv() goes on to Recv(), which
   fails at once if the receiver has gone.                                  *)
SendWrite(s) ==
    /\ cpc[s] = "write"
    /\ IF net = "closed"
       THEN /\ got' = [got EXCEPT ![cur[s]] = "error"]
            /\ cpc' = [cpc EXCEPT ![s] = "idle"]
            /\ cur' = [cur EXCEPT ![s] = None]
            /\ UNCHANGED c2s
       ELSE /\ Len(c2s) < NetCap
            /\ c2s' = Append(c2s, cur[s])
            /\ cpc' = [cpc EXCEPT ![s] = IF cur[s] \in OneWay THEN "idle" ELSE "recv"]
            /\ cur' = [cur EXCEPT ![s] = IF cur[s] \in OneWay THEN None ELSE @]
            /\ UNCHANGED got
    /\ UNCHANGED <<todo, msgChan, eof, inHand, toNil, cEnded, net, s2c, serverVars, sendVars>>

Return(s, r) ==
    /\ got' = [got EXCEPT ![cur[s]] = r]
    /\ cpc' = [cpc EXCEPT ![s] = "idle"]
    /\ cur' = [cur EXCEPT ![s] = None]

(* Recv()'s select: a reply, the end of the connection or the timeout.  A
   reply that is io.EOF sets the stream's msgChan to nil.                   *)
RecvMsg(s) ==
    /\ cpc[s] = "recv" /\ msgChan[s] # <<>>
    /\ Return(s, Head(msgChan[s]))
    /\ msgChan' = [msgChan EXCEPT ![s] = Tail(@)]
    /\ eof' = [eof EXCEPT ![s] = KindOf[Head(msgChan[s])] = "eof"]
    /\ UNCHANGED <<todo, inHand, toNil, cEnded, net, c2s, s2c, serverVars, sendVars>>

RecvClosed(s) ==
    /\ cpc[s] = "recv" /\ cEnded
    /\ Return(s, "error")
    /\ UNCHANGED <<todo, msgChan, eof, inHand, toNil, cEnded, net, c2s, s2c, serverVars,
                   sendVars>>

RecvTimeout(s) ==
    /\ cpc[s] = "recv" /\ RecvTimeouts
    /\ Return(s, "timeout")
    /\ UNCHANGED <<todo, msgChan, eof, inHand, toNil, cEnded, net, c2s, s2c, serverVars,
                   sendVars>>

(* The client's receiver reads a frame and looks up the channel it is for. *)
ClientRead ==
    /\ ~cEnded /\ inHand = None /\ s2c # <<>>
    /\ inHand' = Head(s2c)
    /\ s2c' = Tail(s2c)
    /\ toNil' = eof[StreamOf[Head(s2c)]]
    /\ UNCHANGED <<todo, cur, cpc, got, msgChan, eof, cEnded, net, c2s, serverVars, sendVars>>

ClientDeliverToDefault ==
    LET default == CHOOSE s \in Streams : TRUE
    IN  /\ inHand # None /\ ~toNil
        /\ Len(msgChan[default]) < ClientQ
        /\ msgChan' = [msgChan EXCEPT ![default] = Append(@, inHand)]
        /\ inHand' = None
        /\ UNCHANGED <<todo, cur, cpc, got, eof, toNil, cEnded, net, c2s, s2c, serverVars,
                       sendVars>>

(* It sends the message on that channel, which blocks while the channel is
   full, and for ever if it is nil.                                         *)
ClientDeliver ==
    /\ inHand # None /\ ~toNil
    /\ Len(msgChan[StreamOf[inHand]]) < ClientQ
    /\ msgChan' = [msgChan EXCEPT ![StreamOf[inHand]] = Append(@, inHand)]
    /\ inHand' = None
    /\ UNCHANGED <<todo, cur, cpc, got, eof, toNil, cEnded, net, c2s, s2c, serverVars, sendVars>>

ClientEndSilent ==
    /\ ~cEnded /\ inHand = None /\ net = "closed"
    /\ UNCHANGED vars

(* A failed read ends it; what is still in the socket is lost. *)
ClientEnd ==
    /\ ~cEnded /\ inHand = None /\ net = "closed"
    /\ cEnded' = TRUE
    /\ UNCHANGED <<todo, cur, cpc, got, msgChan, eof, inHand, toNil, net, c2s, s2c, serverVars,
                   sendVars>>

receiver == ClientRead \/ ClientDeliver \/ ClientEnd

(* The user closes the connection. *)
Close ==
    /\ net = "open"
    /\ net' = "closed"
    /\ UNCHANGED <<clientVars, c2s, s2c, serverVars, sendVars>>

-----------------------------------------------------------------------------
(* The server's receiver of this connection.  It looks at st.closed only
   before it reads; when it returns it closes the connection.               *)
ServerTop ==
    /\ spc = "top"
    /\ spc' = IF stClosed THEN "ended" ELSE "read"
    /\ net' = IF stClosed THEN "closed" ELSE net
    /\ UNCHANGED <<clientVars, c2s, s2c, stClosed, sMsg, gen, private, sendVars>>

ServerEnd ==
    /\ spc = "read" /\ net = "closed"
    /\ spc' = "ended"
    /\ UNCHANGED <<clientVars, net, c2s, s2c, stClosed, sMsg, gen, private, sendVars>>

ServerRead ==
    /\ spc = "read" /\ c2s # <<>>
    /\ sMsg' = Head(c2s)
    /\ c2s' = Tail(c2s)
    /\ ss' = [ss EXCEPT ![Head(c2s)] = <<StreamOf[Head(c2s)], gen[StreamOf[Head(c2s)]]>>]
    /\ spc' = "dispatch"
    /\ UNCHANGED <<clientVars, net, s2c, stClosed, gen, private, main, encBuf, wpc, out, mine,
                   sent>>

(* streamCloseMsg drops the server stream: the next message gets a new one. *)
DispatchClose ==
    /\ spc = "dispatch" /\ KindOf[sMsg] = "close"
    /\ gen' = [gen EXCEPT ![StreamOf[sMsg]] = @ + 1]
    /\ spc' = "top" /\ sMsg' = None
    /\ UNCHANGED <<clientVars, net, c2s, s2c, stClosed, private, sendVars>>

(* What cannot be decoded is answered by the receiver itself, which waits
   until the answer is written.                                             *)
DispatchGarbled ==
    /\ spc = "dispatch" /\ KindOf[sMsg] = "garbled"
    /\ \/ /\ wpc[sMsg] = "none"
          /\ wpc' = [wpc EXCEPT ![sMsg] = "cas"]
          /\ UNCHANGED <<spc, sMsg>>
       \/ /\ wpc[sMsg] = "done"
          /\ spc' = "top" /\ sMsg' = None
          /\ UNCHANGED wpc
    /\ UNCHANGED <<clientVars, net, c2s, s2c, stClosed, gen, private, main, encBuf, ss, out,
                   mine, sent>>

(* A message with Handle() goes to a worker, which sends what it returns.      *)
AfterDispatch == [rpc |-> "cas", eof |-> "cas", huge |-> "cas", session |-> "wait", mute |-> "done"]

DispatchKnown ==
    /\ spc = "dispatch" /\ KindOf[sMsg] \in Handled
    /\ wpc' = [wpc EXCEPT ![sMsg] = AfterDispatch[KindOf[sMsg]]]
    /\ spc' = "top" /\ sMsg' = None
    /\ UNCHANGED <<clientVars, net, c2s, s2c, stClosed, gen, private, main, encBuf, ss, out,
                   mine, sent>>

DispatchPrivate ==
    /\ spc = "dispatch" /\ KindOf[sMsg] = "private"
    /\ Len(private[ss[sMsg]]) < ServerQ
    /\ private' = [private EXCEPT ![ss[sMsg]] = Append(@, sMsg)]
    /\ spc' = "top" /\ sMsg' = None
    /\ UNCHANGED <<clientVars, net, c2s, s2c, stClosed, gen, sendVars>>

serverReceiver ==
    \/ ServerTop \/ ServerEnd \/ ServerRead
    \/ DispatchClose \/ DispatchGarbled \/ DispatchKnown \/ DispatchPrivate

(* st.close() *)
TransportClose ==
    /\ ~stClosed
    /\ stClosed' = TRUE
    /\ UNCHANGED <<clientVars, net, c2s, s2c, spc, sMsg, gen, private, sendVars>>

-----------------------------------------------------------------------------
(* A session handler's Recv() on its server stream: a private message, the end of
   the connection, or the timeout, which the handler returns as its reply.  *)
HandlerRecv(q) ==
    /\ wpc[q] = "wait" /\ private[ss[q]] # <<>>
    /\ out' = [out EXCEPT ![q] = Head(private[ss[q]])]
    /\ private' = [private EXCEPT ![ss[q]] = Tail(@)]
    /\ wpc' = [wpc EXCEPT ![q] = "cas"]
    /\ UNCHANGED <<clientVars, net, c2s, s2c, stClosed, spc, sMsg, gen, main, encBuf, ss, mine,
                   sent>>

HandlerRecvClosed(q) ==
    /\ wpc[q] = "wait" /\ spc = "ended"
    /\ wpc' = [wpc EXCEPT ![q] = "done"]
    /\ UNCHANGED <<clientVars, net, c2s, s2c, serverVars, main, encBuf, ss, out, mine, sent>>

HandlerRecvTimeout(q) ==
    /\ wpc[q] = "wait" /\ RecvTimeouts
    /\ wpc' = [wpc EXCEPT ![q] = "cas"]
    /\ UNCHANGED <<clientVars, net, c2s, s2c, serverVars, main, encBuf, ss, out, mine, sent>>

(* streamServerStream.Send: nothing on a closed connection; else the first
   sender takes the stream's encoder, a concurrent one copies it.           *)
TakeEncoderAlways(q) ==
    /\ wpc[q] = "cas"
    /\ IF spc = "ended"
       THEN wpc' = [wpc EXCEPT ![q] = "done"] /\ UNCHANGED <<main, mine>>
       ELSE /\ mine' = [mine EXCEPT ![q] = TRUE]
            /\ main' = [main EXCEPT ![ss[q]] = TRUE]
            /\ wpc' = [wpc EXCEPT ![q] = "encode"]
    /\ UNCHANGED <<clientVars, net, c2s, s2c, serverVars, encBuf, ss, out, sent>>

TakeEncoder(q) ==
    /\ wpc[q] = "cas"
    /\ IF spc = "ended"
       THEN wpc' = [wpc EXCEPT ![q] = "done"] /\ UNCHANGED <<main, mine>>
       ELSE /\ mine' = [mine EXCEPT ![q] = ~main[ss[q]]]
            /\ main' = [main EXCEPT ![ss[q]] = TRUE]
            /\ wpc' = [wpc EXCEPT ![q] = "encode"]
    /\ UNCHANGED <<clientVars, net, c2s, s2c, serverVars, encBuf, ss, out, sent>>

(* Encode; a message that is too large is not sent and the encoder stays taken.
   The worker drops the error that Send returns (scalamsgq.go 120).          *)
Encode(q) ==
    /\ wpc[q] = "encode"
    /\ encBuf' = IF mine[q] THEN [encBuf EXCEPT ![ss[q]] = out[q]] ELSE encBuf
    /\ wpc' = [wpc EXCEPT ![q] = IF KindOf[q] = "huge" THEN "done" ELSE "write"]
    /\ UNCHANGED <<clientVars, net, c2s, s2c, serverVars, main, ss, out, mine, sent>>

(* Write the buffer under the connection's mutex and give the encoder back. *)
Frame(q) == IF mine[q] THEN encBuf[ss[q]] ELSE out[q]

WriteFrame(q) ==
    /\ wpc[q] = "write"
    /\ \/ net = "closed" /\ UNCHANGED <<s2c, sent>>
       \/ /\ net = "open" /\ Len(s2c) < NetCap
          /\ s2c' = Append(s2c, Frame(q))
          /\ sent' = Append(sent, Frame(q))
    /\ main' = IF mine[q] THEN [main EXCEPT ![ss[q]] = FALSE] ELSE main
    /\ mine' = [mine EXCEPT ![q] = FALSE]
    /\ wpc' = [wpc EXCEPT ![q] = "done"]
    /\ UNCHANGED <<clientVars, net, c2s, serverVars, encBuf, ss, out>>

handler(q) ==
    HandlerRecv(q) \/ HandlerRecvClosed(q) \/ TakeEncoder(q) \/ Encode(q) \/ WriteFrame(q)

-----------------------------------------------------------------------------
user(s) == Send(s) \/ SendWrite(s) \/ RecvMsg(s) \/ RecvClosed(s)

Next ==
    \/ \E s \in Streams : user(s) \/ RecvTimeout(s)
    \/ receiver \/ Close
    \/ serverReceiver \/ TransportClose
    \/ \E q \in Reqs : handler(q) \/ HandlerRecvTimeout(q)

Spec == Init /\ [][Next]_vars

(* Goroutines that can run do; users go on with their requests.  Nobody has to
   close anything, and timeouts need not happen.                            *)
Fairness ==
    /\ \A s \in Streams : WF_vars(user(s))
    /\ WF_vars(receiver)
    /\ WF_vars(serverReceiver)
    /\ \A q \in Reqs : WF_vars(handler(q))

FairSpec == Spec /\ Fairness

-----------------------------------------------------------------------------
(* Type invariant; no queue exceeds its capacity. *)
TypeOK ==
    /\ todo \in [Streams -> Seq(Reqs)]
    /\ cur \in [Streams -> Reqs \cup {None}]
    /\ cpc \in [Streams -> {"idle", "write", "recv"}]
    /\ got \in [Reqs -> Reqs \cup {"nothing", "error", "timeout"}]
    /\ msgChan \in [Streams -> Seq(Reqs)]
    /\ \A s \in Streams : Len(msgChan[s]) <= ClientQ
    /\ eof \in [Streams -> BOOLEAN]
    /\ inHand \in Reqs \cup {None} /\ toNil \in BOOLEAN /\ cEnded \in BOOLEAN
    /\ net \in {"open", "closed"}
    /\ c2s \in Seq(Reqs) /\ Len(c2s) <= NetCap
    /\ s2c \in Seq(Reqs) /\ Len(s2c) <= NetCap
    /\ stClosed \in BOOLEAN
    /\ spc \in {"top", "read", "dispatch", "ended"}
    /\ sMsg \in Reqs \cup {None}
    /\ gen \in [Streams -> Gens]
    /\ private \in [ServerStreams -> Seq(Reqs)]
    /\ \A x \in ServerStreams : Len(private[x]) <= ServerQ
    /\ main \in [ServerStreams -> BOOLEAN]
    /\ encBuf \in [ServerStreams -> Reqs \cup {None}]
    /\ wpc \in [Reqs -> {"none", "wait", "cas", "encode", "write", "done"}]
    /\ ss \in [Reqs -> ServerStreams]
    /\ out \in [Reqs -> Reqs]
    /\ mine \in [Reqs -> BOOLEAN]
    /\ sent \in Seq(Reqs)

(* Handlers of one stream reply concurrently and share its encoder, yet no
   reply is written twice or in place of another, and none that a handler was
   done writing is missing while the connection lasts.                      *)
RepliesIntact ==
    /\ \A i, j \in 1..Len(sent) : sent[i] = sent[j] => i = j
    /\ \A q \in Reqs :
         wpc[q] = "done" /\ KindOf[q] \notin Silent /\ net = "open" =>
            \E i \in 1..Len(sent) : sent[i] = out[q]

(* A message whose reply its user waits for no longer, or was sent although
   nobody waits for it.                                                     *)
Unread(p) == got[p] = "timeout" \/ (p \in OneWay /\ p \in Range(sent))

(* README.md:189: SendRecv waits for the reply of the peer.  No reply is
   returned by two calls; and what a call returns is the reply to the message it
   has sent, unless there is a reply on its stream that nobody has read: then it
   may be that one, and the call's own reply is left to the next.           *)
SendRecvGetsItsReply ==
    /\ \A p, q \in Reqs : got[p] \in Reqs /\ got[p] = got[q] => p = q
    /\ \A q \in Reqs : got[q] \in Reqs /\ got[q] # q =>
         /\ StreamOf[got[q]] = StreamOf[q]
         /\ \E p \in Reqs : StreamOf[p] = StreamOf[q] /\ Unread(p)

(* The client's receiver holds a reply for a stream whose channel is nil, or
   full and its user does not receive.                                      *)
HeadOfLine ==
    /\ inHand # None
    /\ toNil \/ (Len(msgChan[StreamOf[inHand]]) = ClientQ /\ cpc[StreamOf[inHand]] # "recv")

(* The server's receiver waits for room in the private channel of a stream
   whose messages no handler receives.                                      *)
Stray ==
    /\ spc = "dispatch" /\ KindOf[sMsg] = "private"
    /\ Len(private[ss[sMsg]]) = ServerQ

(* The call on stream s waits for a reply that no handler will send: its handler
   returned nil or a reply that was too large, or its message is private and no
   handler has received it.                                                 *)
Unanswered(s) ==
    \/ KindOf[cur[s]] \in Silent /\ wpc[cur[s]] = "done"
    \/ cur[s] \in Range(private[ss[cur[s]]])

(* stream.go:32: streams are independent.  A call that waits for a reply
   returns, whatever happens on the other streams and wherever the connection
   is closed, unless one of the two receivers is stuck with a message nobody
   takes or the server sends no reply to this very call; the client's close
   frees a call from both of the server's omissions.                        *)
CallsReturn ==
    \A s \in Streams :
        cpc[s] = "recv" ~> \/ cpc[s] = "idle" \/ []HeadOfLine
                           \/ []((Stray \/ Unanswered(s)) /\ net = "open")

=============================================================================
