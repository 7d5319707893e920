------------------------- MODULE ChanTransportProofs -------------------------
(***************************************************************************)
(* Proofs about the in-process transport, for every number of connections, *)
(* streams and workers and every queue size: types and capacities, that a  *)
(* stream's messages are dispatched in the order they were sent, and that  *)
(* a call gets the answer to its own request.                              *)
(***************************************************************************)
EXTENDS ChanTransport, SequenceTheorems, TLAPS

(* x is an element of sequence q; at most one position of q holds an element of
   set S.                                                                   *)
In(x, q) == \E i \in 1..Len(q) : q[i] = x
OnceIn(q, S) == \A i, j \in 1..Len(q) : q[i] \in S /\ q[j] \in S => i = j

(* What the connection's goroutine has not dispatched, in the order of arrival. *)
Line(c) == IF hold[c] = NoMsg THEN recvChan[c] ELSE <<hold[c]>> \o recvChan[c]

(* The messages of a stream are numbered in the order they are sent. *)
Counts(q) == \A i \in 1..Len(q) : q[i] = i
NumberInv ==
    \A s \in Streams :
        /\ Counts(sent[s]) /\ Counts(dispatched[s])
        /\ Len(dispatched[s]) <= Len(sent[s])
        /\ spc[s] = "send" => out[s] # NoMsg /\ out[s].s = s /\ out[s].n = Len(sent[s]) + 1

(* Between "sent" and "dispatched" is what waits in line: the messages of a stream
   wait in the order of their numbers, and none is missing.                 *)
Waiting(q, c, done, all) == \A i \in 1..Len(q) :
    ConnOf[q[i].s] = c /\ q[i].n \in Len(done[q[i].s]) + 1..Len(all[q[i].s])
Sorted(q) == \A i, j \in 1..Len(q) : i < j /\ q[i].s = q[j].s => q[i].n < q[j].n
Complete(q, c, done, all) ==
    \A s \in Streams : ConnOf[s] = c =>
        \A n \in Len(done[s]) + 1..Len(all[s]) : \E i \in 1..Len(q) : q[i].s = s /\ q[i].n = n
InLine(q, c, done, all) == Waiting(q, c, done, all) /\ Sorted(q) /\ Complete(q, c, done, all)
LineInv == \A c \in Conns : InLine(Line(c), c, dispatched, sent)

(* Where the messages of each kind can be, and what a stream in a call waits for. *)
PlaceInv ==
    /\ \A i \in 1..Len(mq) : canHandle(mq[i])
    /\ \A s \in Streams : \A i \in 1..Len(private[s]) :
         private[s][i].s = s /\ private[s][i].kind = "data"
    /\ \A w \in Workers :
         IF wmsg[w] = NoMsg THEN wreply[w] = NoMsg ELSE wmsg[w].kind \in {"call", "talk"}
    /\ \A s \in Streams : spc[s] \in {"send", "recv"} => ~msgNil[s] /\ out[s] # NoMsg
    /\ \A s \in Streams : spc[s] = "send" /\ out[s].kind = "call" => out[s].await

(* A request of stream s that is to be answered, and its answer, other than EOF;
   the stages it passes.                                                    *)
Asks(s) == {m \in Msg : m.s = s /\ m.kind \in {"call", "data"}}
Answers == {r \in Reply : ~r.err}
Replying(w, s, x) == wmsg[w] # NoMsg /\ wmsg[w].s = s /\ wreply[w] = x
At(s, x, stage) ==
    \/ stage = "line" /\ x \in Asks(s) /\ In(x, Line(ConnOf[s]))
    \/ stage = "queue" /\ x \in Asks(s) /\ In(x, mq)
    \/ stage = "private" /\ x \in Asks(s) /\ In(x, private[s])
    \/ stage = "reply" /\ x \in Answers /\ \E w \in Workers : Replying(w, s, x)
    \/ stage = "answer" /\ x \in Answers /\ In(x, msgChan[s])
Stages == {"line", "queue", "private", "reply", "answer"}
Once(s) ==
    /\ OnceIn(mq, Asks(s)) /\ OnceIn(private[s], Asks(s)) /\ OnceIn(msgChan[s], Answers)
    /\ \A v, w \in Workers, x, y \in Answers : Replying(v, s, x) /\ Replying(w, s, y) => v = w

(* A stream that is neither at EOF nor has sent stray data, and on which no Recv
   timed out, has at most one request that is to be answered, at one stage, and it
   waits for that answer.                                                   *)
OneAsk(s) ==
    /\ \A x \in Msg \cup Reply, k \in Stages : At(s, x, k) => spc[s] = "recv" /\ x.n = out[s].n
    /\ \A x, y \in Msg \cup Reply, k, l \in Stages : At(s, x, k) /\ At(s, y, l) => x = y /\ k = l
    /\ Once(s)
AskInv == \A s \in Streams \ strays : ~msgNil[s] => OneAsk(s)

(* The inductive invariant. *)
IInv == TypeOK /\ NumberInv /\ LineInv /\ PlaceInv /\ AskInv /\ OwnReply

-----------------------------------------------------------------------------
(* What removing the first element of a sequence leaves. *)
LEMMA TailFacts ==
    ASSUME NEW T, NEW q \in Seq(T), q # <<>>
    PROVE  /\ Head(q) \in T /\ Tail(q) \in Seq(T) /\ Len(Tail(q)) = Len(q) - 1 /\ Len(q) \in Nat \ {0}
           /\ \A x : In(x, q) <=> (x = Head(q) \/ In(x, Tail(q)))
           /\ \A S : OnceIn(q, S) =>
                 OnceIn(Tail(q), S) /\ (Head(q) \in S => \A x \in S : ~In(x, Tail(q)))
<1>1. /\ Head(q) \in T /\ Tail(q) \in Seq(T) /\ Len(q) \in Nat \ {0} /\ Head(q) = q[1]
      /\ Len(Tail(q)) = Len(q) - 1 /\ \A i \in 1..Len(Tail(q)) : Tail(q)[i] = q[i + 1]
  OBVIOUS
<1>2. ASSUME NEW x PROVE In(x, q) <=> (x = Head(q) \/ In(x, Tail(q)))
  <2>1. ASSUME In(x, q), x # Head(q) PROVE In(x, Tail(q))
    <3> PICK i \in 1..Len(q) : q[i] = x
      BY <2>1 DEF In
    <3>1. i - 1 \in 1..Len(Tail(q)) /\ Tail(q)[i - 1] = x
      BY <1>1, <2>1
    <3> QED
      BY <3>1 DEF In
  <2>2. ASSUME In(x, Tail(q)) PROVE In(x, q)
    <3> PICK i \in 1..Len(Tail(q)) : Tail(q)[i] = x
      BY <2>2 DEF In
    <3>1. i + 1 \in 1..Len(q) /\ q[i + 1] = x
      BY <1>1
    <3> QED
      BY <3>1 DEF In
  <2>3. In(Head(q), q)
    BY <1>1 DEF In
  <2> QED
    BY <2>1, <2>2, <2>3
<1>3. ASSUME NEW S, OnceIn(q, S)
      PROVE  OnceIn(Tail(q), S) /\ (Head(q) \in S => \A x \in S : ~In(x, Tail(q)))
  <2>1. ASSUME NEW i \in 1..Len(Tail(q)), NEW j \in 1..Len(Tail(q)),
               Tail(q)[i] \in S, Tail(q)[j] \in S
        PROVE  i = j
    <3>1. i + 1 \in 1..Len(q) /\ j + 1 \in 1..Len(q) /\ q[i + 1] \in S /\ q[j + 1] \in S
      BY <1>1, <2>1
    <3>2. i + 1 = j + 1
      BY <1>3, <3>1 DEF OnceIn
    <3> QED
      BY <3>2
  <2>2. ASSUME Head(q) \in S, NEW i \in 1..Len(Tail(q)) PROVE Tail(q)[i] \notin S
    <3>1. i + 1 \in 1..Len(q) /\ i + 1 # 1 /\ 1 \in 1..Len(q) /\ Tail(q)[i] = q[i + 1]
      BY <1>1
    <3> QED
      BY <1>1, <1>3, <2>2, <3>1 DEF OnceIn
  <2> QED
    BY <2>1, <2>2 DEF OnceIn, In
<1> QED
  BY <1>1, <1>2, <1>3

(* What appending an element to a sequence adds. *)
LEMMA AppendFacts ==
    ASSUME NEW T, NEW q \in Seq(T), NEW y \in T
    PROVE  /\ Append(q, y) \in Seq(T) /\ Len(Append(q, y)) = Len(q) + 1 /\ Len(q) \in Nat
           /\ \A x : In(x, Append(q, y)) <=> (x = y \/ In(x, q))
           /\ \A S : OnceIn(q, S) /\ (y \in S => \A x \in S : ~In(x, q)) => OnceIn(Append(q, y), S)
<1>1. /\ Append(q, y) \in Seq(T) /\ Len(Append(q, y)) = Len(q) + 1 /\ Len(q) \in Nat
      /\ \A i \in 1..Len(q) : Append(q, y)[i] = q[i]
      /\ Append(q, y)[Len(q) + 1] = y
  OBVIOUS
<1>2. ASSUME NEW x PROVE In(x, Append(q, y)) <=> (x = y \/ In(x, q))
  <2>1. ASSUME In(x, Append(q, y)), x # y PROVE In(x, q)
    <3> PICK i \in 1..(Len(q) + 1) : Append(q, y)[i] = x
      BY <1>1, <2>1 DEF In
    <3>1. i \in 1..Len(q)
      BY <1>1, <2>1
    <3> QED
      BY <1>1, <3>1 DEF In
  <2>2. In(x, q) => In(x, Append(q, y))
    BY <1>1 DEF In
  <2>3. In(y, Append(q, y))
    BY <1>1 DEF In
  <2> QED
    BY <2>1, <2>2, <2>3
<1>3. ASSUME NEW S, OnceIn(q, S), y \in S => \A x \in S : ~In(x, q) PROVE OnceIn(Append(q, y), S)
  <2> DEFINE a == Append(q, y)
  <2> SUFFICES ASSUME NEW i \in 1..Len(a), NEW j \in 1..Len(a), a[i] \in S, a[j] \in S
               PROVE  i = j
    BY DEF OnceIn
  <2>1. i \in 1..Len(q) \/ i = Len(q) + 1
    BY <1>1
  <2>2. j \in 1..Len(q) \/ j = Len(q) + 1
    BY <1>1
  <2>3. ASSUME NEW k \in 1..Len(q), a[k] \in S, y \in S PROVE FALSE
    BY <1>1, <1>3, <2>3 DEF In
  <2> QED
    BY <1>1, <1>3, <2>1, <2>2, <2>3 DEF OnceIn
<1> QED
  BY <1>1, <1>2, <1>3

(* The fields of a message. *)
LEMMA MsgFacts ==
    ASSUME NEW m \in Msg
    PROVE  m.s \in Streams /\ m.n \in Nat
  BY ChanTransportAssumption DEF Msg

(* A sequence is its first element and the rest. *)
LEMMA HeadTail ==
    ASSUME NEW q \in Seq(Msg), q # <<>>
    PROVE  <<Head(q)>> \o Tail(q) = q
<1>1. PICK h \in Seq(Msg) : h = <<Head(q)>> /\ Len(h) = 1 /\ h[1] = q[1]
  <2>1. <<Head(q)>> \in Seq(Msg) /\ Len(<<Head(q)>>) = 1 /\ <<Head(q)>>[1] = q[1]
    OBVIOUS
  <2> QED
    BY <2>1
<1>2. PICK t \in Seq(Msg) : /\ t = Tail(q) /\ Len(q) = 1 + Len(t) /\ Len(t) \in Nat
                            /\ \A i \in 1..Len(q) : i # 1 => q[i] = t[i - 1]
  <2>1. /\ Tail(q) \in Seq(Msg) /\ Len(q) = 1 + Len(Tail(q)) /\ Len(Tail(q)) \in Nat
        /\ \A i \in 1..Len(q) : i # 1 => q[i] = Tail(q)[i - 1]
    OBVIOUS
  <2> QED
    BY <2>1
<1>3. PICK g \in Seq(Msg) : /\ g = h \o t /\ Len(g) = Len(q)
                            /\ \A i \in 1..Len(q) : g[i] = IF i <= 1 THEN h[i] ELSE t[i - 1]
  BY <1>1, <1>2, ConcatProperties
<1>4. \A i \in 1..Len(q) : g[i] = q[i]
  BY <1>1, <1>2, <1>3
<1> QED
  BY <1>1, <1>2, <1>3, <1>4, SeqEqual

(* Taking a message from recvChan leaves the line as it is, dispatching the message
   in hand removes the first of the line, and sending appends to it.        *)
LEMMA LineFacts ==
    ASSUME TypeOK, NEW c \in Conns
    PROVE  /\ Line(c) \in Seq(Msg)
           /\ hold[c] = NoMsg => Line(c) = recvChan[c]
           /\ hold[c] # NoMsg => Line(c) # <<>> /\ Head(Line(c)) = hold[c] /\ Tail(Line(c)) = recvChan[c]
<1>1. recvChan[c] \in Seq(Msg) /\ hold[c] \in Msg \cup {NoMsg}
  BY DEF TypeOK
<1>2. CASE hold[c] = NoMsg
  BY <1>1, <1>2 DEF Line
<1>3. CASE hold[c] # NoMsg
  <2>1. Line(c) = <<hold[c]>> \o recvChan[c] /\ hold[c] \in Msg
    BY <1>1, <1>3 DEF Line
  <2> DEFINE h == <<hold[c]>>
  <2>2. h \in Seq(Msg) /\ Len(h) = 1 /\ h[1] = hold[c]
    BY <2>1
  <2> HIDE DEF h
  <2>3. /\ Line(c) \in Seq(Msg) /\ Len(Line(c)) = 1 + Len(recvChan[c]) /\ Len(recvChan[c]) \in Nat
        /\ \A i \in 1..(1 + Len(recvChan[c])) :
              Line(c)[i] = IF i <= 1 THEN h[i] ELSE recvChan[c][i - 1]
    BY <1>1, <2>1, <2>2, ConcatProperties DEF h
  <2>4. Line(c) # <<>> /\ Head(Line(c)) = hold[c]
    BY <2>2, <2>3
  <2>5. Tail(Line(c)) = recvChan[c]
    <3>1. /\ Tail(Line(c)) \in Seq(Msg) /\ Len(Tail(Line(c))) = Len(recvChan[c])
          /\ \A i \in 1..Len(recvChan[c]) : Tail(Line(c))[i] = recvChan[c][i]
      BY <2>3, <2>4
    <3> QED
      BY <1>1, <3>1, SeqEqual
  <2> QED
    BY <1>3, <2>3, <2>4, <2>5
<1> QED
  BY <1>2, <1>3

-----------------------------------------------------------------------------
(* The message a client stream hands to its connection. *)
LEMMA SendFacts ==
    ASSUME TypeOK, NEW s \in Streams, NEW kind \in Kinds, Send(s, kind)
    PROVE  /\ \A r \in Streams \ {s} : spc'[r] = spc[r] /\ out'[r] = out[r]
           /\ spc[s] = "idle" /\ spc'[s] \in {"idle", "closed", "send"}
           /\ spc' \in [Streams -> {"idle", "send", "recv", "closed", "panic"}]
           /\ out' \in [Streams -> Msg \cup {NoMsg}]
           /\ spc'[s] = "send" =>
                /\ ~msgNil[s] /\ out'[s] \in Msg
                /\ out'[s].s = s /\ out'[s].n = Len(sent[s]) + 1
                /\ out'[s].kind = "call" => out'[s].await
<1>0. QSize \in Nat \ {0} /\ MaxSends \in Nat /\ SendsOf[s] \in 0..MaxSends
  BY ChanTransportAssumption
<1>1. Len(sent[s]) + 1 \in 1..MaxSends + QSize
  <2>1. Len(sent[s]) \in Nat
    BY DEF TypeOK
  <2>2. Len(sent[s]) < SendsOf[s] + (IF kind = "close" THEN 1 ELSE IF kind = "data" THEN QSize ELSE 0)
    BY DEF Send
  <2> QED
    BY <1>0, <2>1, <2>2
<1> DEFINE m == [s |-> s, n |-> Len(sent[s]) + 1, kind |-> kind, await |-> kind = "call" \/ s \in talking]
<1>2. m \in Msg /\ m.s = s /\ m.n = Len(sent[s]) + 1 /\ m.kind = kind
  BY <1>1 DEF Msg
<1>3. m.await = (kind = "call" \/ s \in talking)
  BY Zenon
<1>4. m.kind = "call" => m.await
  <2> HIDE DEF m
  <2>1. m.kind = "call" => (kind = "call" \/ s \in talking) = TRUE
    BY <1>2
  <2> QED
    BY <1>3, <2>1, Zenon
<1>5. /\ \/ out' = out /\ spc' = [spc EXCEPT ![s] = IF kind = "close" THEN "closed" ELSE "idle"]
         \/ ~msgNil[s] /\ out' = [out EXCEPT ![s] = m] /\ spc' = [spc EXCEPT ![s] = "send"]
      /\ spc[s] = "idle"
  BY DEF Send
<1> HIDE DEF m
<1>6. spc \in [Streams -> {"idle", "send", "recv", "closed", "panic"}] /\ out \in [Streams -> Msg \cup {NoMsg}]
  BY DEF TypeOK
<1>7. spc'[s] = "send" => ~msgNil[s] /\ out'[s] = m
  BY <1>5, <1>6
<1>8. spc'[s] = "send" =>
        /\ ~msgNil[s] /\ out'[s] \in Msg
        /\ out'[s].s = s /\ out'[s].n = Len(sent[s]) + 1
        /\ out'[s].kind = "call" => out'[s].await
  BY <1>2, <1>4, <1>7, Zenon
<1>9. /\ \A r \in Streams \ {s} : spc'[r] = spc[r] /\ out'[r] = out[r]
      /\ spc'[s] \in {"idle", "closed", "send"}
      /\ spc' \in [Streams -> {"idle", "send", "recv", "closed", "panic"}]
      /\ out' \in [Streams -> Msg \cup {NoMsg}]
  BY <1>2, <1>5, <1>6
<1> QED
  BY <1>5, <1>8, <1>9

(* Every step keeps the types and capacities. *)
LEMMA TypeStep ==
    ASSUME TypeOK, NumberInv, PlaceInv, [Next]_vars
    PROVE  TypeOK'
<1>0. /\ NoMsg \notin Msg /\ NoMsg \notin Reply /\ ConnOf \in [Streams -> Conns]
      /\ QSize \in Nat \ {0} /\ MaxSends \in Nat
  BY ChanTransportAssumption
<1>1. CASE \/ ctClose \/ ReceiverEnds \/ UNCHANGED vars
           \/ \E c \in Conns : \/ lookupServiceChan(c) \/ Accept(c) \/ Close(c) \/ SeeClose(c)
                               \/ Exit(c)
  BY <1>1, ZenonT(30) DEF ctClose, ReceiverEnds, lookupServiceChan, Accept, Close, SeeClose, Exit, TypeOK,
     vars, server, connV, clientV, workV, hist
<1>2. ASSUME NEW c \in Conns, Take(c) PROVE TypeOK'
  <2>1. /\ Head(recvChan[c]) \in Msg /\ Tail(recvChan[c]) \in Seq(Msg)
        /\ Len(Tail(recvChan[c])) <= QSize
    BY <1>0, <1>2, TailFacts DEF Take, TypeOK
  <2>2. recvChan' \in [Conns -> Seq(Msg)] /\ \A d \in Conns : Len(recvChan'[d]) <= QSize
    BY <1>2, <2>1 DEF Take, TypeOK
  <2>3. ssMap' \subseteq Streams /\ hold' \in [Conns -> Msg \cup {NoMsg}]
    BY <1>2, <2>1 DEF Take, TypeOK, Msg
  <2> QED
    BY <1>2, <2>2, <2>3 DEF Take, TypeOK, server, connV, clientV, workV, hist
<1>3. ASSUME NEW c \in Conns, Dispatch(c) PROVE TypeOK'
  <2> PICK m \in Msg : m = hold[c]
    BY <1>3 DEF Dispatch, TypeOK
  <2>1. m.s \in Streams /\ m.n \in Nat
    BY <1>0 DEF Msg
  <2>2. mq' \in Seq(Msg) /\ ssMap' \subseteq Streams /\ hold' \in [Conns -> Msg \cup {NoMsg}]
    <3>1. mq' \in Seq(Msg)
      <4>1. Append(mq, m) \in Seq(Msg) /\ mq \in Seq(Msg)
        BY AppendFacts DEF TypeOK
      <4>2. mq' = mq \/ mq' = Append(mq, m)
        BY <1>3 DEF Dispatch
      <4> QED
        BY <4>1, <4>2
    <3> QED
      BY <1>3, <3>1 DEF Dispatch, TypeOK
  <2>3. private' \in [Streams -> Seq(Msg)] /\ \A s \in Streams : Len(private'[s]) <= QSize
    <3>1. private \in [Streams -> Seq(Msg)] /\ \A s \in Streams : Len(private[s]) <= QSize
      BY DEF TypeOK
    <3>2. CASE private' = private
      BY <3>1, <3>2
    <3>3. CASE Len(private[m.s]) < QSize /\ private' = [private EXCEPT ![m.s] = Append(@, m)]
      <4>1. Append(private[m.s], m) \in Seq(Msg) /\ Len(Append(private[m.s], m)) <= QSize
        BY <1>0, <2>1, <3>1, <3>3, AppendFacts
      <4> QED
        BY <2>1, <3>1, <3>3, <4>1
    <3> QED
      BY <1>3, <3>2, <3>3 DEF Dispatch
  <2>4. dispatched' \in [Streams -> Seq(Nat)]
    BY <1>3, <2>1 DEF Dispatch, TypeOK
  <2> QED
    BY <1>3, <2>2, <2>3, <2>4 DEF Dispatch, TypeOK, server, connV, clientV, workV
<1>4. ASSUME NEW s \in Streams, NEW kind \in Kinds, Send(s, kind) PROVE TypeOK'
  BY <1>4, SendFacts DEF Send, TypeOK, server, connV, workV, hist
<1>5. ASSUME NEW s \in Streams, SendDone(s) PROVE TypeOK'
  <2> DEFINE c == ConnOf[s]
  <2> PICK m \in Msg : m = out[s]
    BY <1>5 DEF SendDone, PlaceInv, TypeOK
  <2>1. /\ c \in Conns /\ Len(recvChan[c]) < QSize /\ recvChan' = [recvChan EXCEPT ![c] = Append(@, m)]
        /\ sent' = [sent EXCEPT ![s] = Append(@, m.n)] /\ m.n \in Nat
    BY <1>0, <1>5 DEF SendDone, Msg
  <2>2. recvChan' \in [Conns -> Seq(Msg)] /\ \A d \in Conns : Len(recvChan'[d]) <= QSize
    <3>1. Append(recvChan[c], m) \in Seq(Msg) /\ Len(Append(recvChan[c], m)) <= QSize
      BY <1>0, <2>1, AppendFacts DEF TypeOK
    <3> QED
      BY <2>1, <3>1 DEF TypeOK
  <2>3. sent' \in [Streams -> Seq(Nat)]
    BY <2>1 DEF TypeOK
  <2>4. /\ spc' \in [Streams -> {"idle", "send", "recv", "closed", "panic"}]
        /\ out' \in [Streams -> Msg \cup {NoMsg}] /\ talking' \subseteq Streams /\ strays' \subseteq Streams
    BY <1>5 DEF SendDone, TypeOK
  <2> QED
    BY <1>5, <2>2, <2>3, <2>4 DEF SendDone, TypeOK, server, connV, workV
<1>6. ASSUME NEW s \in Streams, SendPanics(s) PROVE TypeOK'
  BY <1>6 DEF SendPanics, TypeOK, server, connV, workV, hist
<1>7. ASSUME NEW s \in Streams, Recv(s) PROVE TypeOK'
  <2>1. /\ Head(msgChan[s]) \in Reply /\ Tail(msgChan[s]) \in Seq(Reply)
        /\ Len(Tail(msgChan[s])) <= QSize
    BY <1>0, <1>7, TailFacts DEF Recv, TypeOK
  <2>2. msgChan' \in [Streams -> Seq(Reply)] /\ \A r \in Streams : Len(msgChan'[r]) <= QSize
    BY <1>7, <2>1 DEF Recv, TypeOK
  <2>3. msgNil' \in [Streams -> BOOLEAN]
    BY <1>7, <2>1 DEF Recv, TypeOK, Reply
  <2>4. /\ spc' \in [Streams -> {"idle", "send", "recv", "closed", "panic"}]
        /\ out' \in [Streams -> Msg \cup {NoMsg}] /\ wrong' \subseteq Streams
    BY <1>7 DEF Recv, TypeOK
  <2> QED
    BY <1>7, <2>2, <2>3, <2>4 DEF Recv, TypeOK, server, connV, workV
<1>8. ASSUME NEW w \in Workers, HandlerStart(w) PROVE TypeOK'
  <2>1. Head(mq) \in Msg /\ Tail(mq) \in Seq(Msg)
    BY <1>8, TailFacts DEF HandlerStart, TypeOK
  <2>2. Head(mq).n \in 1..MaxSends + QSize
    BY <2>1 DEF Msg
  <2>3. wmsg' \in [Workers -> Msg \cup {NoMsg}]
    BY <1>8, <2>1 DEF HandlerStart, TypeOK, workV
  <2>4. wreply' \in [Workers -> Reply \cup {NoMsg}]
    <3>1. \A e \in BOOLEAN : [n |-> Head(mq).n, err |-> e] \in Reply
      BY <2>2 DEF Reply
    <3>2. \/ wreply' = wreply
          \/ \E e \in BOOLEAN : wreply' = [wreply EXCEPT ![w] = [n |-> Head(mq).n, err |-> e]]
      BY <1>8 DEF HandlerStart, workV
    <3> QED
      BY <3>1, <3>2 DEF TypeOK
  <2> QED
    BY <1>8, <2>1, <2>3, <2>4 DEF HandlerStart, TypeOK, server, connV, clientV, hist
<1>9. ASSUME NEW w \in Workers, HandlerRecv(w) PROVE TypeOK'
  <2> PICK m \in Msg : m = wmsg[w]
    BY <1>9 DEF HandlerRecv, TypeOK
  <2>1. m.s \in Streams /\ m.n \in 1..MaxSends + QSize
    BY DEF Msg
  <2>2. CASE /\ wreply' = [wreply EXCEPT ![w] = [n |-> m.n, err |-> TRUE]]
             /\ UNCHANGED private
    BY <1>9, <2>1, <2>2 DEF HandlerRecv, TypeOK, Reply, server, connV, clientV, hist
  <2>3. CASE /\ private[m.s] # <<>>
             /\ wreply' = [wreply EXCEPT ![w] = [n |-> Head(private[m.s]).n, err |-> FALSE]]
             /\ private' = [private EXCEPT ![m.s] = Tail(@)]
    <3>1. /\ Head(private[m.s]) \in Msg /\ Tail(private[m.s]) \in Seq(Msg)
          /\ Len(Tail(private[m.s])) <= QSize
      BY <1>0, <2>1, <2>3, TailFacts DEF TypeOK
    <3>2. private' \in [Streams -> Seq(Msg)] /\ \A s \in Streams : Len(private'[s]) <= QSize
      BY <2>1, <2>3, <3>1 DEF TypeOK
    <3>3. wreply' \in [Workers -> Reply \cup {NoMsg}]
      <4>1. [n |-> Head(private[m.s]).n, err |-> FALSE] \in Reply
        BY <3>1 DEF Msg, Reply
      <4> QED
        BY <2>3, <4>1 DEF TypeOK
    <3> QED
      BY <1>9, <3>2, <3>3 DEF HandlerRecv, TypeOK, server, connV, clientV, hist
  <2> QED
    BY <1>9, <2>2, <2>3 DEF HandlerRecv
<1>10. ASSUME NEW w \in Workers, HandlerReply(w) PROVE TypeOK'
  <2>1. wreply[w] \in Reply /\ wmsg[w] \in Msg
    BY <1>0, <1>10 DEF HandlerReply, PlaceInv, TypeOK
  <2> PICK s \in Streams : s = wmsg[w].s
    BY <2>1 DEF Msg
  <2>2. msgChan' \in [Streams -> Seq(Reply)] /\ \A r \in Streams : Len(msgChan'[r]) <= QSize
    <3>1. msgChan \in [Streams -> Seq(Reply)] /\ \A r \in Streams : Len(msgChan[r]) <= QSize
      BY DEF TypeOK
    <3>2. CASE msgChan' = msgChan
      BY <3>1, <3>2
    <3>3. CASE Len(msgChan[s]) < QSize /\ msgChan' = [msgChan EXCEPT ![s] = Append(@, wreply[w])]
      <4>1. Append(msgChan[s], wreply[w]) \in Seq(Reply) /\ Len(Append(msgChan[s], wreply[w])) <= QSize
        BY <1>0, <2>1, <3>1, <3>3, AppendFacts
      <4> QED
        BY <3>1, <3>3, <4>1
    <3> QED
      BY <1>10, <3>2, <3>3 DEF HandlerReply, ReplyTo
  <2> QED
    BY <1>10, <2>2 DEF HandlerReply, TypeOK, server, connV, clientV, hist
<1>11. ASSUME NEW s \in Streams, RecvTimeout(s) PROVE TypeOK'
  BY <1>11 DEF RecvTimeout, TypeOK, server, connV, workV
<1>12. ASSUME NEW w \in Workers, HandlerRecvTimeout(w) PROVE TypeOK'
  <2> PICK m \in Msg : m = wmsg[w]
    BY <1>12 DEF HandlerRecvTimeout, TypeOK
  <2>1. m.s \in Streams /\ [n |-> m.n, err |-> FALSE] \in Reply
    BY DEF Msg, Reply
  <2>2. wreply' \in [Workers -> Reply \cup {NoMsg}] /\ strays' \subseteq Streams
    BY <1>12, <2>1 DEF HandlerRecvTimeout, TypeOK
  <2> QED
    BY <1>12, <2>2 DEF HandlerRecvTimeout, TypeOK, server, connV, clientV
<1> QED
  BY <1>1, <1>2, <1>3, <1>4, <1>5, <1>6, <1>7, <1>8, <1>9, <1>10, <1>11, <1>12 DEF Next

(* Every step leaves every kind of message where it may be. *)
LEMMA PlaceStep ==
    ASSUME TypeOK, PlaceInv, [Next]_vars
    PROVE  PlaceInv'
<1> DEFINE Queued == \A i \in 1..Len(mq) : canHandle(mq[i])
           Private == \A s \in Streams : \A i \in 1..Len(private[s]) :
                        private[s][i].s = s /\ private[s][i].kind = "data"
           Working == \A w \in Workers :
                        IF wmsg[w] = NoMsg THEN wreply[w] = NoMsg ELSE wmsg[w].kind \in {"call", "talk"}
           Calling == /\ \A s \in Streams : spc[s] \in {"send", "recv"} => ~msgNil[s] /\ out[s] # NoMsg
                      /\ \A s \in Streams : spc[s] = "send" /\ out[s].kind = "call" => out[s].await
<1>0. /\ NoMsg \notin Msg /\ NoMsg \notin Reply /\ ConnOf \in [Streams -> Conns]
      /\ QSize \in Nat \ {0} /\ MaxSends \in Nat
  BY ChanTransportAssumption
<1>1. CASE \/ ctClose \/ ReceiverEnds \/ UNCHANGED vars
           \/ \E c \in Conns : \/ lookupServiceChan(c) \/ Accept(c) \/ Close(c) \/ SeeClose(c)
                               \/ Exit(c) \/ Take(c)
  <2>1. UNCHANGED <<mq, private, wmsg, wreply, spc, msgNil, out>>
    BY <1>1 DEF ctClose, ReceiverEnds, lookupServiceChan, Accept, Close, SeeClose, Exit, Take,
       vars, server, connV, clientV, workV, hist
  <2> QED
    BY <2>1 DEF PlaceInv
<1>2. ASSUME NEW c \in Conns, Dispatch(c) PROVE PlaceInv'
  <2> PICK m \in Msg : m = hold[c]
    BY <1>2 DEF Dispatch, TypeOK
  <2>0. m.s \in Streams /\ UNCHANGED <<wmsg, wreply, spc, msgNil, out>>
    BY <1>2 DEF Dispatch, workV, clientV, Msg
  <2>1. Queued'
    <3>1. mq' = mq \/ (mq' = Append(mq, m) /\ canHandle(m))
      BY <1>2 DEF Dispatch
    <3>2. mq \in Seq(Msg) /\ Queued
      BY DEF TypeOK, PlaceInv
    <3> QED
      BY <3>1, <3>2
  <2>2. Private'
    <3>1. \/ private' = private
          \/ private' = [private EXCEPT ![m.s] = Append(@, m)] /\ m.kind = "data"
      BY <1>2 DEF Dispatch, canHandle, Msg, Kinds
    <3>2. private \in [Streams -> Seq(Msg)] /\ Private
      BY DEF TypeOK, PlaceInv
    <3>3. CASE private' = [private EXCEPT ![m.s] = Append(@, m)] /\ m.kind = "data"
      <4> SUFFICES ASSUME NEW s \in Streams, NEW i \in 1..Len(private'[s])
                   PROVE  private'[s][i].s = s /\ private'[s][i].kind = "data"
        OBVIOUS
      <4>1. CASE s = m.s
        <5>1. private'[s] = Append(private[s], m) /\ private[s] \in Seq(Msg)
          BY <3>2, <3>3, <4>1
        <5>2. i \in 1..Len(private[s]) \/ i = Len(private[s]) + 1
          BY <5>1
        <5> QED
          BY <3>2, <3>3, <4>1, <5>1, <5>2
      <4>2. CASE s # m.s
        BY <3>2, <3>3, <4>2
      <4> QED
        BY <4>1, <4>2
    <3> QED
      BY <3>1, <3>2, <3>3
  <2> QED
    BY <2>0, <2>1, <2>2 DEF PlaceInv
<1>3. ASSUME NEW s \in Streams, NEW kind \in Kinds, Send(s, kind) PROVE PlaceInv'
  <2>0. UNCHANGED <<mq, private, wmsg, wreply, msgNil>>
    BY <1>3 DEF Send, workV
  <2>1. Calling'
    BY <1>0, <1>3, <2>0, SendFacts DEF PlaceInv
  <2> QED
    BY <2>0, <2>1 DEF PlaceInv
<1>4. ASSUME NEW s \in Streams, SendDone(s) \/ SendPanics(s) PROVE PlaceInv'
  <2>0. UNCHANGED <<mq, private, wmsg, wreply, msgNil>>
    BY <1>4 DEF SendDone, SendPanics, workV
  <2>1. /\ \A r \in Streams \ {s} : spc'[r] = spc[r] /\ out'[r] = out[r]
        /\ spc[s] = "send" /\ spc'[s] # "send"
        /\ spc'[s] = "recv" => out'[s] = out[s]
    BY <1>4 DEF SendDone, SendPanics, TypeOK
  <2>2. Calling'
    BY <2>0, <2>1 DEF PlaceInv
  <2> QED
    BY <2>0, <2>2 DEF PlaceInv
<1>5. ASSUME NEW s \in Streams, Recv(s) PROVE PlaceInv'
  <2>0. UNCHANGED <<mq, private, wmsg, wreply>>
    BY <1>5 DEF Recv, workV
  <2>1. /\ \A r \in Streams \ {s} : spc'[r] = spc[r] /\ out'[r] = out[r] /\ msgNil'[r] = msgNil[r]
        /\ spc'[s] = "idle"
    BY <1>5 DEF Recv, TypeOK
  <2>2. Calling'
    BY <2>1 DEF PlaceInv
  <2> QED
    BY <2>0, <2>2 DEF PlaceInv
<1>6. ASSUME NEW w \in Workers, HandlerStart(w) PROVE PlaceInv'
  <2>0. UNCHANGED <<private, spc, msgNil, out>> /\ mq \in Seq(Msg) /\ mq # <<>> /\ mq' = Tail(mq)
    BY <1>6 DEF HandlerStart, clientV, TypeOK
  <2>1. Queued'
    BY <2>0 DEF PlaceInv
  <2>2. Head(mq) \in Msg /\ canHandle(Head(mq))
    BY <2>0 DEF PlaceInv
  <2>3. \A v \in Workers \ {w} : wmsg'[v] = wmsg[v] /\ wreply'[v] = wreply[v]
    BY <1>6 DEF HandlerStart, workV, TypeOK
  <2>4. \/ wmsg'[w] = wmsg[w] /\ wreply'[w] = wreply[w]
        \/ wmsg'[w] = Head(mq) /\ Head(mq).kind \in {"call", "talk"}
    BY <1>6, <2>2 DEF HandlerStart, workV, TypeOK, canHandle
  <2>5. Working'
    BY <1>0, <2>2, <2>3, <2>4 DEF PlaceInv
  <2> QED
    BY <2>0, <2>1, <2>5 DEF PlaceInv
<1>7. ASSUME NEW w \in Workers, HandlerRecv(w) PROVE PlaceInv'
  <2> PICK m \in Msg : m = wmsg[w]
    BY <1>7 DEF HandlerRecv, TypeOK
  <2>0. /\ UNCHANGED <<mq, wmsg, spc, msgNil, out>> /\ wmsg[w] # NoMsg /\ m.s \in Streams
        /\ \A v \in Workers \ {w} : wreply'[v] = wreply[v]
        /\ private' = private \/ (private[m.s] # <<>> /\ private' = [private EXCEPT ![m.s] = Tail(@)])
    BY <1>7 DEF HandlerRecv, clientV, TypeOK, Msg
  <2>1. Working'
    BY <2>0 DEF PlaceInv
  <2>2. Private'
    <3>1. private \in [Streams -> Seq(Msg)] /\ Private
      BY DEF TypeOK, PlaceInv
    <3>2. CASE private[m.s] # <<>> /\ private' = [private EXCEPT ![m.s] = Tail(@)]
      <4> SUFFICES ASSUME NEW s \in Streams, NEW i \in 1..Len(private'[s])
                   PROVE  private'[s][i].s = s /\ private'[s][i].kind = "data"
        OBVIOUS
      <4>1. CASE s = m.s
        <5>1. private'[s] = Tail(private[s]) /\ private[s] \in Seq(Msg) /\ private[s] # <<>>
          BY <3>1, <3>2, <4>1
        <5>2. i + 1 \in 1..Len(private[s]) /\ private'[s][i] = private[s][i + 1]
          BY <5>1
        <5> QED
          BY <3>1, <5>2
      <4>2. CASE s # m.s
        BY <3>1, <3>2, <4>2
      <4> QED
        BY <4>1, <4>2
    <3> QED
      BY <2>0, <3>1, <3>2
  <2> QED
    BY <2>0, <2>1, <2>2 DEF PlaceInv
<1>8. ASSUME NEW w \in Workers, HandlerReply(w) PROVE PlaceInv'
  <2>0. /\ UNCHANGED <<mq, private, spc, msgNil, out>> /\ wmsg'[w] = NoMsg /\ wreply'[w] = NoMsg
        /\ \A v \in Workers \ {w} : wmsg'[v] = wmsg[v] /\ wreply'[v] = wreply[v]
    BY <1>8 DEF HandlerReply, clientV, TypeOK
  <2>1. Working'
    BY <2>0 DEF PlaceInv
  <2> QED
    BY <2>0, <2>1 DEF PlaceInv
<1>9. ASSUME NEW s \in Streams, RecvTimeout(s) PROVE PlaceInv'
  <2>1. /\ UNCHANGED <<mq, private, wmsg, wreply, msgNil>> /\ spc'[s] = "idle"
        /\ \A r \in Streams \ {s} : spc'[r] = spc[r] /\ out'[r] = out[r]
    BY <1>9 DEF RecvTimeout, workV, TypeOK
  <2>2. Calling'
    BY <2>1 DEF PlaceInv
  <2> QED
    BY <2>1, <2>2 DEF PlaceInv
<1>10. ASSUME NEW w \in Workers, HandlerRecvTimeout(w) PROVE PlaceInv'
  <2>1. /\ UNCHANGED <<mq, private, wmsg, spc, msgNil, out>> /\ wmsg[w] # NoMsg
        /\ \A v \in Workers \ {w} : wreply'[v] = wreply[v]
    BY <1>10 DEF HandlerRecvTimeout, clientV, TypeOK
  <2>2. Working'
    BY <2>1 DEF PlaceInv
  <2> QED
    BY <2>1, <2>2 DEF PlaceInv
<1> QED
  BY <1>1, <1>2, <1>3, <1>4, <1>5, <1>6, <1>7, <1>8, <1>9, <1>10 DEF Next

-----------------------------------------------------------------------------
(* How the steps that touch it change a connection's line. *)
LEMMA LineMoves ==
    ASSUME TypeOK, TypeOK', NumberInv, NEW c \in Conns
    PROVE  /\ UNCHANGED <<hold, recvChan>> => Line(c)' = Line(c)
           /\ \A d \in Conns : Take(d) => Line(c)' = Line(c)
           /\ \A d \in Conns : Dispatch(d) =>
                 IF c = d THEN Line(c) # <<>> /\ hold[c] = Head(Line(c)) /\ Line(c)' = Tail(Line(c))
                          ELSE Line(c)' = Line(c)
           /\ \A s \in Streams : SendDone(s) =>
                 Line(c)' = IF c = ConnOf[s] THEN Append(Line(c), out[s]) ELSE Line(c)
<1>0. /\ NoMsg \notin Msg /\ ConnOf \in [Streams -> Conns]
      /\ recvChan[c] \in Seq(Msg) /\ hold[c] \in Msg \cup {NoMsg}
  BY ChanTransportAssumption DEF TypeOK
<1>1. ASSUME UNCHANGED <<hold, recvChan>> PROVE Line(c)' = Line(c)
  BY <1>1 DEF Line
<1>2. ASSUME NEW d \in Conns, Take(d) PROVE Line(c)' = Line(c)
  <2>1. CASE c = d
    <3>1. /\ hold[c] = NoMsg /\ recvChan[c] # <<>>
          /\ hold'[c] = Head(recvChan[c]) /\ recvChan'[c] = Tail(recvChan[c])
      BY <1>2, <2>1 DEF Take, TypeOK
    <3>2. Line(c) = recvChan[c] /\ Head(recvChan[c]) \in Msg
      BY <1>0, <3>1, LineFacts
    <3>3. Line(c)' = <<Head(recvChan[c])>> \o Tail(recvChan[c])
      BY <1>0, <3>1, <3>2 DEF Line
    <3>4. <<Head(recvChan[c])>> \o Tail(recvChan[c]) = recvChan[c]
      BY <1>0, <3>1, HeadTail
    <3> QED
      BY <3>2, <3>3, <3>4
  <2>2. CASE c # d
    BY <1>2, <2>2 DEF Take, TypeOK, Line
  <2> QED
    BY <2>1, <2>2
<1>3. ASSUME NEW d \in Conns, Dispatch(d)
      PROVE  IF c = d THEN Line(c) # <<>> /\ hold[c] = Head(Line(c)) /\ Line(c)' = Tail(Line(c))
                      ELSE Line(c)' = Line(c)
  <2>1. CASE c = d
    <3>1. hold[c] # NoMsg /\ hold'[c] = NoMsg /\ recvChan' = recvChan
      BY <1>3, <2>1 DEF Dispatch, TypeOK
    <3> QED
      BY <2>1, <3>1, LineFacts DEF Line
  <2>2. CASE c # d
    BY <1>3, <2>2 DEF Dispatch, TypeOK, Line
  <2> QED
    BY <2>1, <2>2
<1>4. ASSUME NEW s \in Streams, SendDone(s)
      PROVE  Line(c)' = IF c = ConnOf[s] THEN Append(Line(c), out[s]) ELSE Line(c)
  <2>0. out[s] \in Msg /\ hold' = hold
    BY <1>4 DEF SendDone, NumberInv, TypeOK
  <2>1. CASE c = ConnOf[s]
    <3>1. recvChan'[c] = Append(recvChan[c], out[s])
      BY <1>0, <1>4, <2>1 DEF SendDone, TypeOK
    <3>2. CASE hold[c] = NoMsg
      BY <2>0, <2>1, <3>1, <3>2 DEF Line
    <3>3. CASE hold[c] # NoMsg
      <4> DEFINE h == <<hold[c]>>
      <4>1. h \in Seq(Msg) /\ Line(c) = h \o recvChan[c] /\ Line(c)' = h \o Append(recvChan[c], out[s])
        BY <1>0, <2>0, <3>1, <3>3 DEF Line
      <4> HIDE DEF h
      <4>2. h \o Append(recvChan[c], out[s]) = Append(h \o recvChan[c], out[s])
        BY <1>0, <2>0, <4>1
      <4> QED
        BY <2>1, <4>1, <4>2
    <3> QED
      BY <3>2, <3>3
  <2>2. CASE c # ConnOf[s]
    BY <1>0, <1>4, <2>0, <2>2 DEF SendDone, TypeOK, Line
  <2> QED
    BY <2>1, <2>2
<1> QED
  BY <1>1, <1>2, <1>3, <1>4

(* A line concerns only the streams of its connection. *)
LEMMA LineFrame ==
    ASSUME NEW q \in Seq(Msg), NEW c \in Conns, NEW done, NEW all, NEW done2, NEW all2,
           InLine(q, c, done, all),
           \A r \in Streams : ConnOf[r] = c => done2[r] = done[r] /\ all2[r] = all[r]
    PROVE  InLine(q, c, done2, all2)
<1>1. \A i \in 1..Len(q) : q[i] \in Msg /\ q[i].s \in Streams
  BY MsgFacts
<1> QED
  BY <1>1 DEF InLine, Waiting, Complete

(* The next message of a stream goes to the end of the line. *)
LEMMA LineAppend ==
    ASSUME NEW q \in Seq(Msg), NEW s \in Streams, NEW m \in Msg,
           NEW done \in [Streams -> Seq(Nat)], NEW all \in [Streams -> Seq(Nat)],
           NEW all2 \in [Streams -> Seq(Nat)],
           InLine(q, ConnOf[s], done, all), Len(done[s]) <= Len(all[s]),
           m.s = s, m.n = Len(all[s]) + 1, Len(all2[s]) = Len(all[s]) + 1,
           \A r \in Streams \ {s} : all2[r] = all[r]
    PROVE  InLine(Append(q, m), ConnOf[s], done, all2)
<1> DEFINE p == Append(q, m)
           k == Len(q)
<1>1. /\ k \in Nat /\ Len(p) = k + 1 /\ p[k + 1] = m /\ \A i \in 1..k : p[i] = q[i] /\ q[i] \in Msg
      /\ \A i \in 1..k + 1 : i \in 1..k \/ i = k + 1
  OBVIOUS
<1>2. \A r \in Streams : Len(all[r]) \in Nat /\ Len(all2[r]) \in Nat /\ Len(done[r]) \in Nat
                        /\ Len(all[r]) <= Len(all2[r])
  <2> SUFFICES ASSUME NEW r \in Streams
               PROVE  /\ Len(all[r]) \in Nat /\ Len(all2[r]) \in Nat /\ Len(done[r]) \in Nat
                      /\ Len(all[r]) <= Len(all2[r])
    OBVIOUS
  <2>1. Len(all[r]) \in Nat /\ Len(all2[r]) \in Nat /\ Len(done[r]) \in Nat
    OBVIOUS
  <2>2. all2[r] = all[r] \/ Len(all2[r]) = Len(all[r]) + 1
    OBVIOUS
  <2> QED
    BY <2>1, <2>2
<1>3. \A i \in 1..k : q[i].s \in Streams /\ q[i].n \in Nat /\ ConnOf[q[i].s] = ConnOf[s]
                     /\ q[i].n \in Len(done[q[i].s]) + 1..Len(all[q[i].s])
  BY <1>1, MsgFacts DEF InLine, Waiting
<1>q. Sorted(q) /\ Complete(q, ConnOf[s], done, all)
  BY DEF InLine
<1> HIDE DEF p, k
<1>4. ASSUME NEW i \in 1..k + 1
      PROVE  ConnOf[p[i].s] = ConnOf[s] /\ p[i].n \in Len(done[p[i].s]) + 1..Len(all2[p[i].s])
  <2>1. CASE i \in 1..k
    <3> PICK r \in Streams : r = q[i].s
      BY <1>3, <2>1
    <3>1. p[i] = q[i] /\ ConnOf[r] = ConnOf[s] /\ q[i].n \in Nat /\ q[i].n \in Len(done[r]) + 1..Len(all[r])
      BY <1>1, <1>3, <2>1
    <3>2. Len(all[r]) \in Nat /\ Len(all2[r]) \in Nat /\ Len(done[r]) \in Nat /\ Len(all[r]) <= Len(all2[r])
      BY <1>2
    <3> QED
      BY <3>1, <3>2, SMTT(30)
  <2>2. CASE i = k + 1
    BY <1>1, <1>2, <2>2
  <2> QED
    BY <1>1, <2>1, <2>2
<1>5. ASSUME NEW i \in 1..k + 1, NEW j \in 1..k + 1, i < j, p[i].s = p[j].s
      PROVE  p[i].n < p[j].n
  <2>1. i \in 1..k
    BY <1>1, <1>5
  <2>2. CASE j \in 1..k
    BY <1>1, <1>5, <1>q, <2>1, <2>2 DEF Sorted, k
  <2>3. CASE j = k + 1
    BY <1>1, <1>2, <1>3, <1>5, <2>1, <2>3, SMTT(30)
  <2> QED
    BY <1>1, <2>2, <2>3
<1>6. ASSUME NEW r \in Streams, ConnOf[r] = ConnOf[s], NEW n \in Len(done[r]) + 1..Len(all2[r])
      PROVE  \E i \in 1..k + 1 : p[i].s = r /\ p[i].n = n
  <2>1. CASE r = s /\ n = m.n
    BY <1>1, <2>1
  <2>2. CASE n \in Len(done[r]) + 1..Len(all[r])
    <3>1. PICK i \in 1..k : q[i].s = r /\ q[i].n = n
      BY <1>6, <1>q, <2>2 DEF Complete, k
    <3>2. i \in 1..k + 1
      BY <1>1
    <3> QED
      BY <1>1, <3>1, <3>2
  <2> QED
    BY <1>2, <2>1, <2>2
<1>7. InLine(p, ConnOf[s], done, all2)
  BY <1>1, <1>4, <1>5, <1>6 DEF InLine, Waiting, Sorted, Complete
<1> QED
  BY <1>7 DEF p

(* The first of the line is the next message of its stream. *)
LEMMA LineHead ==
    ASSUME NEW q \in Seq(Msg), q # <<>>, NEW c \in Conns,
           NEW done \in [Streams -> Seq(Nat)], NEW all \in [Streams -> Seq(Nat)],
           InLine(q, c, done, all)
    PROVE  /\ Head(q).n = Len(done[Head(q).s]) + 1 /\ Head(q).n <= Len(all[Head(q).s])
           /\ ConnOf[Head(q).s] = c
<1> PICK m \in Msg : m = Head(q) /\ m = q[1]
  OBVIOUS
<1> PICK s \in Streams : s = m.s
  BY MsgFacts
<1>1. 1 \in 1..Len(q) /\ \A i \in 1..Len(q) : i # 1 => 1 < i
  OBVIOUS
<1>2. Len(done[s]) \in Nat /\ Len(all[s]) \in Nat
  OBVIOUS
<1>q. Waiting(q, c, done, all) /\ Sorted(q) /\ Complete(q, c, done, all)
  BY DEF InLine
<1>3. ConnOf[s] = c /\ m.n \in Len(done[s]) + 1..Len(all[s])
  BY <1>1, <1>q DEF Waiting
<1>4. m.n = Len(done[s]) + 1
  <2>1. Len(done[s]) + 1 \in Len(done[s]) + 1..Len(all[s])
    BY <1>2, <1>3
  <2>2. PICK i \in 1..Len(q) : q[i].s = s /\ q[i].n = Len(done[s]) + 1
    <3>1. \A n \in Len(done[s]) + 1..Len(all[s]) : \E i \in 1..Len(q) : q[i].s = s /\ q[i].n = n
      BY <1>3, <1>q, Zenon DEF Complete
    <3> QED
      BY <2>1, <3>1, Zenon
  <2>3. i # 1 => q[1].n < q[i].n
    BY <1>1, <1>q, <2>2 DEF Sorted
  <2>4. m.n \in Nat /\ Len(done[s]) < m.n
    BY <1>2, <1>3, MsgFacts
  <2> QED
    BY <1>2, <2>2, <2>3, <2>4
<1> QED
  BY <1>2, <1>3, <1>4

(* When it is dispatched the line goes on behind it. *)
LEMMA LineTail ==
    ASSUME NEW q \in Seq(Msg), q # <<>>, NEW c \in Conns,
           NEW done \in [Streams -> Seq(Nat)], NEW all \in [Streams -> Seq(Nat)],
           NEW done2 \in [Streams -> Seq(Nat)],
           InLine(q, c, done, all), NEW s, s = Head(q).s,
           Len(done2[s]) = Len(done[s]) + 1, \A r \in Streams \ {s} : done2[r] = done[r]
    PROVE  InLine(Tail(q), c, done2, all)
<1> DEFINE t == Tail(q)
<1> PICK m \in Msg : m = Head(q) /\ m = q[1] /\ m.s = s
  OBVIOUS
<1>1. /\ Len(q) \in Nat \ {0} /\ Len(t) = Len(q) - 1 /\ \A i \in 1..Len(q) : q[i] \in Msg
      /\ \A i \in 1..Len(t) : t[i] = q[i + 1] /\ i + 1 \in 1..Len(q) /\ 1 < i + 1
      /\ \A i \in 1..Len(q) : i # 1 => i - 1 \in 1..Len(t) /\ t[i - 1] = q[i] /\ 1 < i
      /\ 1 \in 1..Len(q)
  OBVIOUS
<1>2. s \in Streams /\ Len(done[s]) \in Nat /\ Len(all[s]) \in Nat
  BY MsgFacts
<1>q. Waiting(q, c, done, all) /\ Sorted(q) /\ Complete(q, c, done, all)
  BY DEF InLine
<1>4. m.n = Len(done[s]) + 1
  <2>1. Head(q).n = Len(done[Head(q).s]) + 1
    BY LineHead, ZenonT(30)
  <2> QED
    BY <2>1
<1>5. ASSUME NEW i \in 1..Len(t)
      PROVE  ConnOf[t[i].s] = c /\ t[i].n \in Len(done2[t[i].s]) + 1..Len(all[t[i].s])
  <2> PICK x \in Msg : x = t[i] /\ x = q[i + 1]
    BY <1>1
  <2>1. x.s \in Streams /\ ConnOf[x.s] = c /\ x.n \in Len(done[x.s]) + 1..Len(all[x.s])
    BY <1>1, <1>q, SMTT(30) DEF Waiting, Msg
  <2>2. CASE x.s = s
    <3>1. q[1].n < q[i + 1].n
      BY <1>1, <1>q, <2>2 DEF Sorted
    <3> QED
      BY <1>2, <1>4, <2>1, <2>2, <3>1, SMTT(30)
  <2>3. CASE x.s # s
    BY <2>1, <2>3
  <2> QED
    BY <2>2, <2>3
<1>6. \A i, j \in 1..Len(t) : i < j /\ t[i].s = t[j].s => t[i].n < t[j].n
  BY <1>1, <1>q DEF Sorted
<1>7. ASSUME NEW r \in Streams, ConnOf[r] = c, NEW n \in Len(done2[r]) + 1..Len(all[r])
      PROVE  \E i \in 1..Len(t) : t[i].s = r /\ t[i].n = n
  <2>1. n \in Len(done[r]) + 1..Len(all[r]) /\ (r = s => n # m.n)
    <3>1. CASE r = s
      BY <1>2, <1>4, <3>1
    <3>2. CASE r # s
      BY <3>2
    <3> QED
      BY <3>1, <3>2
  <2>2. PICK i \in 1..Len(q) : q[i].s = r /\ q[i].n = n
    BY <1>7, <1>q, <2>1 DEF Complete
  <2>3. i # 1
    BY <1>1, <2>1, <2>2
  <2> QED
    BY <1>1, <2>2, <2>3
<1> HIDE DEF t
<1>8. InLine(t, c, done2, all)
  BY <1>5, <1>6, <1>7 DEF InLine, Waiting, Sorted, Complete
<1> QED
  BY <1>8 DEF t

(* Such a sequence goes on with the next number. *)
LEMMA CountOn ==
    ASSUME NEW q \in Seq(Nat), Counts(q)
    PROVE  Counts(Append(q, Len(q) + 1)) /\ Len(Append(q, Len(q) + 1)) = Len(q) + 1
  BY DEF Counts

(* Every step keeps the messages of a stream in the order of their numbers. *)
LEMMA OrderStep ==
    ASSUME TypeOK, TypeOK', NumberInv, LineInv, [Next]_vars
    PROVE  NumberInv' /\ LineInv'
<1> DEFINE Goal == NumberInv' /\ LineInv'
<1>0. ConnOf \in [Streams -> Conns] /\ NoMsg \notin Msg
  BY ChanTransportAssumption
<1>t. /\ sent \in [Streams -> Seq(Nat)] /\ dispatched \in [Streams -> Seq(Nat)]
      /\ sent' \in [Streams -> Seq(Nat)] /\ dispatched' \in [Streams -> Seq(Nat)]
      /\ \A c \in Conns : Line(c) \in Seq(Msg)
  BY LineFacts DEF TypeOK
<1>1. ASSUME NEW s \in Streams, SendDone(s) PROVE Goal
  <2> PICK m \in Msg : m = out[s] /\ m.s = s /\ m.n = Len(sent[s]) + 1
    BY <1>1 DEF SendDone, NumberInv, TypeOK
  <2>1. /\ sent'[s] = Append(sent[s], m.n) /\ \A r \in Streams \ {s} : sent'[r] = sent[r]
        /\ dispatched' = dispatched /\ spc'[s] # "send"
        /\ \A r \in Streams \ {s} : spc'[r] = spc[r] /\ out'[r] = out[r]
    BY <1>1 DEF SendDone, TypeOK
  <2>2. Counts(sent'[s]) /\ Len(sent'[s]) = Len(sent[s]) + 1
    BY <1>t, <2>1, CountOn DEF NumberInv
  <2>3. NumberInv'
    <3>1. Len(dispatched[s]) <= Len(sent'[s])
      <4>1. Len(dispatched[s]) <= Len(sent[s]) /\ Len(dispatched[s]) \in Nat /\ Len(sent[s]) \in Nat
        BY <1>t DEF NumberInv
      <4> QED
        BY <2>2, <4>1
    <3>2. ASSUME NEW r \in Streams
          PROVE  /\ Counts(sent'[r]) /\ Counts(dispatched'[r]) /\ Len(dispatched'[r]) <= Len(sent'[r])
                 /\ spc'[r] = "send" => out'[r] # NoMsg /\ out'[r].s = r /\ out'[r].n = Len(sent'[r]) + 1
      <4>1. CASE r = s
        BY <2>1, <2>2, <3>1, <4>1 DEF NumberInv
      <4>2. CASE r # s
        BY <2>1, <4>2 DEF NumberInv
      <4> QED
        BY <4>1, <4>2
    <3> QED
      BY <3>2 DEF NumberInv
  <2>4. ASSUME NEW c \in Conns PROVE InLine(Line(c)', c, dispatched', sent')
    <3>0. InLine(Line(c), c, dispatched, sent)
      BY DEF LineInv
    <3>1. CASE c # ConnOf[s]
      <4>1. Line(c)' = Line(c)
        BY <1>1, <3>1, LineMoves
      <4>2. InLine(Line(c), c, dispatched', sent')
        BY <1>t, <2>1, <3>0, <3>1, LineFrame
      <4> QED
        BY <4>1, <4>2
    <3>2. CASE c = ConnOf[s]
      <4>1. Line(c)' = Append(Line(c), m)
        BY <1>1, <3>2, LineMoves
      <4>2. Len(dispatched[s]) <= Len(sent[s])
        BY DEF NumberInv
      <4>3. InLine(Append(Line(c), m), c, dispatched, sent')
        BY <1>t, <2>1, <2>2, <3>0, <3>2, <4>2, LineAppend
      <4> QED
        BY <2>1, <4>1, <4>3
    <3> QED
      BY <3>1, <3>2
  <2> QED
    BY <2>3, <2>4 DEF LineInv
<1>2. ASSUME NEW d \in Conns, Dispatch(d) PROVE Goal
  <2> PICK m \in Msg : m = hold[d]
    BY <1>2 DEF Dispatch, TypeOK
  <2> PICK s \in Streams : s = m.s
    BY DEF Msg
  <2>1. /\ UNCHANGED <<sent, spc, out>>
        /\ dispatched'[s] = Append(dispatched[s], m.n)
        /\ \A r \in Streams \ {s} : dispatched'[r] = dispatched[r]
    BY <1>2 DEF Dispatch, TypeOK, clientV
  <2>2. Len(dispatched'[s]) = Len(dispatched[s]) + 1
    BY <1>t, <2>1
  <2>3. /\ Line(d) # <<>> /\ m = Head(Line(d)) /\ Line(d)' = Tail(Line(d))
        /\ InLine(Line(d), d, dispatched, sent)
    BY <1>2, LineMoves DEF LineInv
  <2>4. /\ m.n = Len(dispatched[s]) + 1 /\ m.n <= Len(sent[s]) /\ ConnOf[s] = d
        /\ InLine(Line(d)', d, dispatched', sent)
    <3>1. m.n = Len(dispatched[s]) + 1 /\ m.n <= Len(sent[s]) /\ ConnOf[s] = d
      BY <1>t, <2>3, LineHead
    <3>2. InLine(Tail(Line(d)), d, dispatched', sent)
      BY <1>t, <2>1, <2>2, <2>3, LineTail
    <3> QED
      BY <2>3, <3>1, <3>2
  <2>5. Counts(dispatched'[s]) /\ Len(dispatched'[s]) <= Len(sent[s])
    BY <1>t, <2>1, <2>2, <2>4, CountOn DEF NumberInv
  <2>6. NumberInv'
    <3>1. ASSUME NEW r \in Streams
          PROVE  /\ Counts(sent'[r]) /\ Counts(dispatched'[r]) /\ Len(dispatched'[r]) <= Len(sent'[r])
                 /\ spc'[r] = "send" => out'[r] # NoMsg /\ out'[r].s = r /\ out'[r].n = Len(sent'[r]) + 1
      <4>1. CASE r = s
        BY <2>1, <2>5, <4>1 DEF NumberInv
      <4>2. CASE r # s
        BY <2>1, <4>2 DEF NumberInv
      <4> QED
        BY <4>1, <4>2
    <3> QED
      BY <3>1 DEF NumberInv
  <2>7. ASSUME NEW c \in Conns, c # d PROVE InLine(Line(c)', c, dispatched', sent')
    <3>1. Line(c)' = Line(c) /\ InLine(Line(c), c, dispatched, sent)
      BY <1>2, <2>7, LineMoves DEF LineInv
    <3>2. InLine(Line(c), c, dispatched', sent)
      BY <1>t, <2>1, <2>4, <2>7, <3>1, LineFrame
    <3> QED
      BY <2>1, <3>1, <3>2
  <2> QED
    BY <2>1, <2>4, <2>6, <2>7 DEF LineInv
<1>3. ASSUME UNCHANGED <<sent, dispatched>>, \A c \in Conns : Line(c)' = Line(c),
             \A s \in Streams : spc'[s] = "send" =>
                out'[s] # NoMsg /\ out'[s].s = s /\ out'[s].n = Len(sent[s]) + 1
      PROVE  Goal
  <2>1. NumberInv'
    BY <1>3 DEF NumberInv
  <2>2. LineInv'
    BY <1>3 DEF LineInv
  <2> QED
    BY <2>1, <2>2
<1>4. ASSUME NEW s \in Streams, NEW kind \in Kinds, Send(s, kind) PROVE Goal
  <2>1. UNCHANGED <<sent, dispatched>> /\ \A c \in Conns : Line(c)' = Line(c)
    BY <1>4, LineMoves DEF Send, hist
  <2>2. \A r \in Streams : spc'[r] = "send" =>
                out'[r] # NoMsg /\ out'[r].s = r /\ out'[r].n = Len(sent[r]) + 1
    BY <1>0, <1>4, SendFacts DEF NumberInv
  <2> QED
    BY <1>3, <2>1, <2>2
<1>5. CASE \/ ctClose \/ ReceiverEnds \/ UNCHANGED vars
           \/ \E c \in Conns : \/ lookupServiceChan(c) \/ Accept(c) \/ Close(c) \/ SeeClose(c)
                               \/ Exit(c)
           \/ \E w \in Workers : \/ HandlerStart(w) \/ HandlerRecv(w) \/ HandlerRecvTimeout(w)
                                 \/ HandlerReply(w)
  <2>1. UNCHANGED <<sent, dispatched, hold, recvChan, spc, out>>
    BY <1>5 DEF ctClose, ReceiverEnds, lookupServiceChan, Accept, Close, SeeClose, Exit,
       HandlerStart, HandlerRecv, HandlerRecvTimeout, HandlerReply, vars, clientV, hist
  <2> QED
    BY <1>3, <2>1, LineMoves DEF NumberInv
<1>6. ASSUME NEW c \in Conns, Take(c) PROVE Goal
  <2>1. UNCHANGED <<sent, dispatched, spc, out>> /\ \A d \in Conns : Line(d)' = Line(d)
    BY <1>6, LineMoves DEF Take, clientV, hist
  <2> QED
    BY <1>3, <2>1 DEF NumberInv
<1>7. ASSUME NEW s \in Streams, SendPanics(s) \/ Recv(s) \/ RecvTimeout(s) PROVE Goal
  <2>1. /\ UNCHANGED <<sent, dispatched, hold, recvChan>> /\ spc'[s] # "send"
        /\ \A r \in Streams \ {s} : spc'[r] = spc[r] /\ out'[r] = out[r]
    BY <1>7 DEF SendPanics, Recv, RecvTimeout, TypeOK, hist
  <2> QED
    BY <1>3, <2>1, LineMoves DEF NumberInv
<1> QED
  BY <1>1, <1>2, <1>4, <1>5, <1>6, <1>7 DEF Next

-----------------------------------------------------------------------------
(* A step that asks nothing new of stream s leaves it with at most one request. *)
LEMMA AskLess ==
    ASSUME NEW s \in Streams, OneAsk(s), Once(s)',
           \A x \in Msg \cup Reply, k \in Stages : At(s, x, k)' => At(s, x, k),
           spc[s] = "recv" =>
              \/ spc'[s] = spc[s] /\ out'[s] = out[s]
              \/ \A x \in Msg \cup Reply, k \in Stages : ~At(s, x, k)'
    PROVE  OneAsk(s)'
  BY DEF OneAsk

(* A step that takes the request of stream s to its next stage. *)
LEMMA AskMoves ==
    ASSUME NEW s \in Streams, OneAsk(s), Once(s)',
           NEW x0 \in Msg \cup Reply, NEW k0 \in Stages, At(s, x0, k0),
           NEW y0 \in Msg \cup Reply, NEW k1 \in Stages, y0.n = x0.n,
           \A x \in Msg \cup Reply, k \in Stages : At(s, x, k)' => x = y0 /\ k = k1,
           spc'[s] = spc[s], out'[s] = out[s]
    PROVE  OneAsk(s)'
  BY DEF OneAsk

(* A step that touches none of the channels of stream s. *)
LEMMA AskSame ==
    ASSUME NEW s \in Streams, OneAsk(s), ConnOf \in [Streams -> Conns],
           Line(ConnOf[s])' = Line(ConnOf[s]), UNCHANGED <<mq, private, msgChan, wmsg, wreply>>,
           spc[s] = "recv" => spc'[s] = spc[s] /\ out'[s] = out[s]
    PROVE  OneAsk(s)'
<1>1. Once(s)'
  BY DEF OneAsk, Once, Replying
<1>2. \A x \in Msg \cup Reply, k \in Stages : At(s, x, k)' => At(s, x, k)
  BY DEF At, Replying
<1> QED
  BY <1>1, <1>2, AskLess

(* The kinds of elements the stages hold are different. *)
LEMMA StageFacts ==
    /\ \A s \in Streams : Asks(s) \subseteq Msg
    /\ Answers \subseteq Reply /\ NoMsg \notin Answers
    /\ Stages = {"line", "queue", "private", "reply", "answer"}
    /\ \A s \in Streams : \A m \in Asks(s) : m.s = s
  BY ChanTransportAssumption DEF Asks, Answers, Stages

(* Every step keeps a stream's requests that are to be answered apart. *)
LEMMA AskStep ==
    ASSUME TypeOK, TypeOK', NumberInv, LineInv, PlaceInv, AskInv, [Next]_vars
    PROVE  AskInv'
<1>0. ConnOf \in [Streams -> Conns] /\ NoMsg \notin Msg /\ NoMsg \notin Reply
  BY ChanTransportAssumption
<1>1. CASE \/ ctClose \/ ReceiverEnds \/ UNCHANGED vars
           \/ \E c \in Conns : \/ lookupServiceChan(c) \/ Accept(c) \/ Close(c) \/ SeeClose(c)
                               \/ Exit(c) \/ Take(c)
  <2>1. UNCHANGED <<mq, private, msgChan, wmsg, wreply, spc, out, msgNil, strays>>
    BY <1>1 DEF ctClose, ReceiverEnds, lookupServiceChan, Accept, Close, SeeClose, Exit, Take,
       vars, clientV, workV, hist
  <2>2. UNCHANGED <<hold, recvChan>> \/ \E c \in Conns : Take(c)
    BY <1>1 DEF ctClose, ReceiverEnds, lookupServiceChan, Accept, Close, SeeClose, Exit, vars
  <2>3. \A s \in Streams : Line(ConnOf[s])' = Line(ConnOf[s])
    BY <1>0, <2>2, LineMoves
  <2> QED
    BY <1>0, <2>1, <2>3, AskSame DEF AskInv
<1>2. ASSUME NEW s \in Streams, (\E kind \in Kinds : Send(s, kind)) \/ SendPanics(s) PROVE AskInv'
  <2>1. /\ UNCHANGED <<mq, private, msgChan, wmsg, wreply, msgNil, strays, hold, recvChan>>
        /\ spc[s] # "recv" /\ \A r \in Streams \ {s} : spc'[r] = spc[r] /\ out'[r] = out[r]
    BY <1>2, SendFacts DEF Send, SendPanics, workV, hist, TypeOK
  <2>2. \A r \in Streams : Line(ConnOf[r])' = Line(ConnOf[r])
    BY <1>0, <2>1, LineMoves
  <2> QED
    BY <1>0, <2>1, <2>2, AskSame DEF AskInv
<1>3. ASSUME NEW s \in Streams, SendDone(s) PROVE AskInv'
  <2> PICK m \in Msg : m = out[s] /\ m.s = s /\ m.n = Len(sent[s]) + 1
    BY <1>3 DEF SendDone, NumberInv, TypeOK
  <2>1. /\ UNCHANGED <<mq, private, msgChan, wmsg, wreply, msgNil>> /\ strays \subseteq strays'
        /\ spc[s] = "send" /\ \A r \in Streams \ {s} : spc'[r] = spc[r] /\ out'[r] = out[r]
    BY <1>3 DEF SendDone, workV, TypeOK
  <2>2. \A c \in Conns : Line(c)' = IF c = ConnOf[s] THEN Append(Line(c), m) ELSE Line(c)
    BY <1>3, LineMoves
  <2>3. \A c \in Conns : \A x : In(x, Line(c)') => In(x, Line(c)) \/ x = m
    <3> SUFFICES ASSUME NEW c \in Conns, NEW x, In(x, Line(c)') PROVE In(x, Line(c)) \/ x = m
      OBVIOUS
    <3>1. CASE c = ConnOf[s]
      <4>1. Line(c) \in Seq(Msg)
        BY LineFacts
      <4>2. In(x, Append(Line(c), m)) => In(x, Line(c)) \/ x = m
        BY <4>1, AppendFacts
      <4>3. Line(c)' = Append(Line(c), m)
        BY <2>2, <3>1
      <4> QED
        BY <4>2, <4>3
    <3>2. CASE c # ConnOf[s]
      <4>1. Line(c)' = Line(c)
        BY <2>2, <3>2
      <4> QED
        BY <4>1
    <3> QED
      BY <3>1, <3>2
  <2> SUFFICES ASSUME NEW r \in Streams \ strays', ~msgNil[r] PROVE OneAsk(r)'
    BY <2>1 DEF AskInv
  <2>4. OneAsk(r) /\ Once(r)'
    BY <2>1 DEF AskInv, OneAsk, Once, Replying
  <2>5. CASE r # s
    <3>1. \A x \in Msg \cup Reply, k \in Stages : At(r, x, k)' => At(r, x, k)
      BY <1>0, <2>1, <2>3, <2>5, StageFacts DEF At, Replying
    <3> QED
      BY <2>1, <2>4, <2>5, <3>1, AskLess
  <2>6. CASE r = s
    <3>1. \A x \in Msg \cup Reply, k \in Stages : ~At(s, x, k)
      BY <2>1, <2>4, <2>6 DEF OneAsk
    <3>2. \A x \in Msg \cup Reply, k \in Stages : At(s, x, k)' => x = m /\ k = "line" /\ m \in Asks(s)
      BY <1>0, <2>1, <2>3, <3>1, StageFacts DEF At, Replying
    <3>3. m \in Asks(s) => spc'[s] = "recv" /\ out'[s] = m
      <4>1. m \in Asks(s) => m.kind \in {"call", "data"}
        BY DEF Asks
      <4>2. m.kind = "call" => m.await
        BY <2>1 DEF PlaceInv
      <4>3. m.kind = "data" => m.await
        BY <1>3, <2>6 DEF SendDone
      <4> QED
        BY <1>3, <4>1, <4>2, <4>3 DEF SendDone, TypeOK
    <3> QED
      BY <2>4, <2>6, <3>2, <3>3 DEF OneAsk
  <2> QED
    BY <2>5, <2>6
<1>4. ASSUME NEW c \in Conns, Dispatch(c) PROVE AskInv'
  <2> PICK m \in Msg : m = hold[c]
    BY <1>4 DEF Dispatch, TypeOK
  <2> PICK s \in Streams : s = m.s
    BY MsgFacts
  <2>1. /\ UNCHANGED <<msgChan, wmsg, wreply, spc, out, msgNil, strays>>
        /\ \A r \in Streams \ {s} : private'[r] = private[r]
        /\ private \in [Streams -> Seq(Msg)] /\ mq \in Seq(Msg)
    BY <1>4 DEF Dispatch, workV, clientV, TypeOK
  <2>2. /\ Line(c) \in Seq(Msg) /\ Line(c) # <<>> /\ m = Head(Line(c)) /\ Line(c)' = Tail(Line(c))
        /\ \A d \in Conns \ {c} : Line(d)' = Line(d)
        /\ ConnOf[s] = c /\ Sorted(Line(c))
    <3>1. /\ Line(c) \in Seq(Msg) /\ Line(c) # <<>> /\ m = Head(Line(c)) /\ Line(c)' = Tail(Line(c))
          /\ \A d \in Conns \ {c} : Line(d)' = Line(d)
      BY <1>4, LineMoves, LineFacts
    <3>2. InLine(Line(c), c, dispatched, sent)
      BY DEF LineInv
    <3> QED
      BY <3>1, <3>2, LineHead DEF InLine, TypeOK
  <2>3. /\ In(m, Line(c)) /\ \A d \in Conns : \A x : In(x, Line(d)') => In(x, Line(d))
        /\ ~In(m, Line(c)')
    <3>1. ~In(m, Tail(Line(c)))
      <4> DEFINE q == Line(c)
      <4>1. /\ Len(q) \in Nat \ {0} /\ Len(Tail(q)) = Len(q) - 1 /\ m = q[1] /\ 1 \in 1..Len(q)
            /\ \A i \in 1..Len(Tail(q)) : Tail(q)[i] = q[i + 1] /\ i + 1 \in 1..Len(q) /\ 1 < i + 1
        BY <2>2
      <4>2. \A i \in 1..Len(Tail(q)) : q[i + 1] = q[1] => q[1].n < q[1].n
        BY <2>2, <4>1 DEF Sorted
      <4> QED
        BY <4>1, <4>2, MsgFacts DEF In
    <3>2. \A x : In(x, Line(c)) <=> (x = m \/ In(x, Tail(Line(c))))
      BY <2>2, TailFacts
    <3>3. ASSUME NEW d \in Conns, NEW x, In(x, Line(d)') PROVE In(x, Line(d))
      <4>1. CASE d = c
        <5>1. In(x, Tail(Line(c)))
          BY <2>2, <3>3, <4>1
        <5> QED
          BY <3>2, <4>1, <5>1
      <4>2. CASE d # c
        <5>1. Line(d)' = Line(d)
          BY <2>2, <4>2
        <5> QED
          BY <3>3, <5>1
      <4> QED
        BY <4>1, <4>2
    <3>4. ~In(m, Line(c)')
      BY <2>2, <3>1
    <3> QED
      BY <3>2, <3>3, <3>4
  <2> SUFFICES ASSUME NEW r \in Streams \ strays, ~msgNil[r] PROVE OneAsk(r)'
    BY <2>1 DEF AskInv
  <2>4. OneAsk(r)
    BY DEF AskInv
  <2>5. CASE r # s
    <3>1. \A x \in Asks(r) : In(x, mq') => In(x, mq)
      <4>1. mq' = mq \/ mq' = Append(mq, m)
        BY <1>4 DEF Dispatch
      <4>2. \A x : In(x, Append(mq, m)) <=> (x = m \/ In(x, mq))
        BY <2>1, AppendFacts
      <4>3. m \notin Asks(r)
        BY <2>5, StageFacts
      <4> QED
        BY <4>1, <4>2, <4>3
    <3>2. OnceIn(mq', Asks(r))
      <4>1. mq' = mq \/ mq' = Append(mq, m)
        BY <1>4 DEF Dispatch
      <4>2. OnceIn(mq, Asks(r)) /\ m \notin Asks(r)
        BY <2>4, <2>5, StageFacts DEF OneAsk, Once
      <4> QED
        BY <2>1, <4>1, <4>2, AppendFacts
    <3>3. Once(r)'
      BY <2>1, <2>4, <2>5, <3>2 DEF OneAsk, Once, Replying
    <3>4. \A x \in Msg \cup Reply, k \in Stages : At(r, x, k)' => At(r, x, k)
      BY <1>0, <2>1, <2>3, <2>5, <3>1 DEF At, Replying
    <3> QED
      BY <2>1, <2>4, <3>3, <3>4, AskLess
  <2>6. CASE r = s /\ m \in Asks(s)
    <3>1. At(s, m, "line")
      BY <2>2, <2>3, <2>6 DEF At
    <3>2. \A x \in Msg \cup Reply, k \in Stages : At(s, x, k) => x = m /\ k = "line"
      BY <2>4, <2>6, <3>1 DEF OneAsk, Stages
    <3>3. /\ \A x \in Asks(s) : ~In(x, mq) /\ ~In(x, private[s]) /\ ~In(x, Line(c)')
          /\ \A x \in Answers : ~In(x, msgChan[s]) /\ \A w \in Workers : ~Replying(w, s, x)
      <4>1. \A x \in Asks(s) : ~At(s, x, "queue") /\ ~At(s, x, "private") /\ (At(s, x, "line") => x = m)
        BY <3>2, StageFacts
      <4>2. \A x \in Answers : ~At(s, x, "reply") /\ ~At(s, x, "answer")
        BY <3>2, StageFacts
      <4>3. \A x \in Asks(s) : In(x, Line(c)) => x = m
        BY <2>2, <4>1 DEF At
      <4> QED
        BY <2>3, <4>1, <4>2, <4>3 DEF At
    <3>4. /\ \A x \in Answers : ~In(x, msgChan'[s]) /\ \A w \in Workers : ~Replying(w, s, x)'
          /\ OnceIn(msgChan'[s], Answers)
      BY <2>1, <2>4, <2>6, <3>3 DEF Replying, OneAsk, Once
    <3>5. OnceIn(mq, Asks(s)) /\ OnceIn(private[s], Asks(s))
      BY <2>4, <2>6 DEF OneAsk, Once
    <3>6. CASE m.kind = "call"
      <4>1. mq' = Append(mq, m) /\ private' = private
        BY <1>4, <3>6 DEF Dispatch, canHandle
      <4>2. OnceIn(mq', Asks(s)) /\ \A x \in Asks(s) : In(x, mq') => x = m
        BY <2>1, <3>3, <3>5, <4>1, AppendFacts
      <4>3. Once(s)'
        BY <3>4, <3>5, <4>1, <4>2 DEF Once
      <4>4. \A x \in Msg \cup Reply, k \in Stages : At(s, x, k)' => x = m /\ k = "queue"
        BY <2>2, <3>3, <3>4, <4>1, <4>2 DEF At
      <4> QED
        BY <2>1, <2>4, <2>6, <3>1, <4>3, <4>4, AskMoves DEF Stages
    <3>7. CASE m.kind = "data"
      <4>1. mq' = mq /\ private'[s] = Append(private[s], m)
        BY <1>4, <2>1, <3>7 DEF Dispatch, canHandle
      <4>2. OnceIn(private'[s], Asks(s)) /\ \A x \in Asks(s) : In(x, private'[s]) => x = m
        BY <2>1, <3>3, <3>5, <4>1, AppendFacts
      <4>3. Once(s)'
        BY <3>4, <3>5, <4>1, <4>2 DEF Once
      <4>4. \A x \in Msg \cup Reply, k \in Stages : At(s, x, k)' => x = m /\ k = "private"
        BY <2>2, <3>3, <3>4, <4>1, <4>2 DEF At
      <4> QED
        BY <2>1, <2>4, <2>6, <3>1, <4>3, <4>4, AskMoves DEF Stages
    <3> QED
      BY <2>6, <3>6, <3>7 DEF Asks
  <2>7. CASE r = s /\ m \notin Asks(s)
    <3>1. m.kind \notin {"call", "data"}
      BY <2>7 DEF Asks
    <3>2. private' = private /\ (mq' = mq \/ mq' = Append(mq, m))
      BY <1>4, <3>1 DEF Dispatch, canHandle, Msg, Kinds
    <3>3. OnceIn(mq', Asks(s)) /\ \A x \in Asks(s) : In(x, mq') => In(x, mq)
      <4>1. OnceIn(mq, Asks(s))
        BY <2>4, <2>7 DEF OneAsk, Once
      <4> QED
        BY <2>1, <2>7, <3>2, <4>1, AppendFacts, ZenonT(30)
    <3>4. Once(s)'
      BY <2>1, <2>4, <2>7, <3>2, <3>3 DEF OneAsk, Once, Replying
    <3>5. \A x \in Msg \cup Reply, k \in Stages : At(s, x, k)' => At(s, x, k)
      BY <1>0, <2>1, <2>3, <3>2, <3>3 DEF At, Replying
    <3> QED
      BY <2>1, <2>4, <2>7, <3>4, <3>5, AskLess
  <2> QED
    BY <2>5, <2>6, <2>7
<1>5. ASSUME NEW s \in Streams, Recv(s) PROVE AskInv'
  <2> DEFINE a == Head(msgChan[s])
  <2>1. /\ UNCHANGED <<mq, private, wmsg, wreply, strays, hold, recvChan>>
        /\ spc[s] = "recv" /\ msgChan[s] \in Seq(Reply) /\ msgChan[s] # <<>> /\ a \in Reply
        /\ \A r \in Streams \ {s} : /\ spc'[r] = spc[r] /\ out'[r] = out[r]
                                   /\ msgNil'[r] = msgNil[r] /\ msgChan'[r] = msgChan[r]
        /\ msgChan'[s] = Tail(msgChan[s])
    BY <1>5, TailFacts DEF Recv, workV, hist, TypeOK
  <2>2. \A r \in Streams : Line(ConnOf[r])' = Line(ConnOf[r])
    BY <1>0, <2>1, LineMoves
  <2>3. ASSUME NEW r \in Streams \ strays, r # s, ~msgNil[r] PROVE OneAsk(r)'
    <3>1. OneAsk(r)
      BY <2>3 DEF AskInv
    <3>2. Once(r)'
      BY <2>1, <2>3, <3>1 DEF OneAsk, Once, Replying
    <3>3. \A x \in Msg \cup Reply, k \in Stages : At(r, x, k)' => At(r, x, k)
      BY <2>1, <2>2, <2>3 DEF At, Replying
    <3> QED
      BY <2>1, <2>3, <3>1, <3>2, <3>3, AskLess
  <2>4. ASSUME s \notin strays, ~msgNil'[s] PROVE OneAsk(s)'
    <3>1. OneAsk(s)
      BY <2>1, <2>4 DEF AskInv, PlaceInv
    <3>2. a \in Answers
      <4>1. msgNil'[s] = a.err
        BY <1>5 DEF Recv, TypeOK
      <4> QED
        BY <2>1, <2>4, <4>1 DEF Answers
    <3> HIDE DEF a
    <3>3. OnceIn(msgChan[s], Answers)
      BY <3>1 DEF OneAsk, Once
    <3>4. In(a, msgChan[s]) /\ OnceIn(msgChan'[s], Answers) /\ \A x \in Answers : ~In(x, msgChan'[s])
      BY <2>1, <3>2, <3>3, TailFacts DEF a
    <3>5. At(s, a, "answer")
      BY <3>2, <3>4 DEF At
    <3>6. \A x \in Msg \cup Reply, k \in Stages : At(s, x, k) => k = "answer"
      BY <2>1, <3>1, <3>5 DEF OneAsk, Stages
    <3>7. Once(s)'
      BY <2>1, <3>1, <3>4 DEF OneAsk, Once, Replying
    <3>8. \A x \in Msg \cup Reply, k \in Stages : ~At(s, x, k)'
      <4> SUFFICES ASSUME NEW x \in Msg \cup Reply, NEW k \in Stages, At(s, x, k)' PROVE FALSE
        OBVIOUS
      <4>1. k # "answer"
        BY <3>4 DEF At
      <4>2. At(s, x, k)
        BY <2>1, <2>2, <4>1 DEF At, Replying
      <4> QED
        BY <3>6, <4>1, <4>2
    <3> QED
      BY <3>7, <3>8 DEF OneAsk
  <2> QED
    BY <2>1, <2>3, <2>4 DEF AskInv
<1>6. ASSUME NEW w \in Workers, HandlerStart(w) PROVE AskInv'
  <2> PICK m \in Msg : m = Head(mq) /\ mq \in Seq(Msg) /\ mq # <<>>
    BY <1>6, TailFacts DEF HandlerStart, TypeOK
  <2> PICK s \in Streams : s = m.s
    BY MsgFacts
  <2>1. /\ UNCHANGED <<private, msgChan, spc, out, msgNil, strays, hold, recvChan>> /\ mq' = Tail(mq)
        /\ wmsg[w] = NoMsg /\ wreply[w] = NoMsg
        /\ \A v \in Workers \ {w} : wmsg'[v] = wmsg[v] /\ wreply'[v] = wreply[v]
    BY <1>6 DEF HandlerStart, workV, clientV, hist, TypeOK, PlaceInv
  <2>2. /\ \A x : In(x, mq) <=> (x = m \/ In(x, mq'))
        /\ \A S : OnceIn(mq, S) => OnceIn(mq', S) /\ (m \in S => \A x \in S : ~In(x, mq'))
    <3>1. /\ \A x : In(x, mq) <=> (x = m \/ In(x, Tail(mq)))
          /\ \A S : OnceIn(mq, S) => OnceIn(Tail(mq), S) /\ (m \in S => \A x \in S : ~In(x, Tail(mq)))
      BY TailFacts
    <3> QED
      BY <2>1, <3>1
  <2>3. \A r \in Streams : Line(ConnOf[r])' = Line(ConnOf[r])
    BY <1>0, <2>1, LineMoves
  <2>4. wmsg'[w] # NoMsg => wmsg'[w] = m
    BY <1>6, <2>1 DEF HandlerStart, workV, TypeOK
  <2>5. wreply'[w] \in Answers => /\ m.kind = "call" /\ wreply'[w] \in Reply /\ wreply'[w].n = m.n
    <3>1. CASE wreply' = wreply
      BY <2>1, <3>1, StageFacts
    <3>2. CASE m.kind = "call" /\ \E e \in BOOLEAN : wreply' = [wreply EXCEPT ![w] = [n |-> m.n, err |-> e]]
      BY <3>2, StageFacts DEF TypeOK
    <3> QED
      BY <1>6, <3>1, <3>2 DEF HandlerStart, workV
  <2> SUFFICES ASSUME NEW r \in Streams \ strays, ~msgNil[r] PROVE OneAsk(r)'
    BY <2>1 DEF AskInv
  <2>6. OneAsk(r) /\ OnceIn(mq, Asks(r)) /\ OnceIn(private[r], Asks(r)) /\ OnceIn(msgChan[r], Answers)
    BY DEF AskInv, OneAsk, Once
  <2>7. CASE r = s /\ wreply'[w] \in Answers
    <3> DEFINE y == wreply'[w]
    <3>1. m \in Asks(s) /\ At(s, m, "queue")
      BY <2>2, <2>5, <2>7 DEF Asks, At
    <3>2. \A x \in Msg \cup Reply, k \in Stages : At(s, x, k) => k = "queue"
      BY <2>6, <2>7, <3>1 DEF OneAsk, Stages
    <3>3. \A x \in Answers : \A v \in Workers : ~Replying(v, s, x)
      <4>1. \A x \in Answers : ~At(s, x, "reply")
        BY <3>2, StageFacts
      <4> QED
        BY <4>1 DEF At
    <3>4. \A x \in Answers : \A v \in Workers : Replying(v, s, x)' => v = w /\ x = y
      BY <2>1, <3>3 DEF Replying
    <3>5. Once(s)'
      BY <2>1, <2>2, <2>6, <2>7, <3>4 DEF Once
    <3>6. \A x \in Msg \cup Reply, k \in Stages : At(s, x, k)' => x = y /\ k = "reply"
      <4> SUFFICES ASSUME NEW x \in Msg \cup Reply, NEW k \in Stages, At(s, x, k)', k # "reply"
                   PROVE  FALSE
        BY <3>4 DEF At
      <4>1. k # "queue"
        BY <2>2, <2>6, <2>7, <3>1 DEF At
      <4>2. At(s, x, k)
        BY <2>1, <2>3, <4>1 DEF At
      <4> QED
        BY <3>2, <4>1, <4>2
    <3> HIDE DEF y
    <3> QED
      BY <2>1, <2>5, <2>6, <2>7, <3>1, <3>5, <3>6, AskMoves DEF Stages, y
  <2>8. CASE r # s \/ wreply'[w] \notin Answers
    <3>1. \A x \in Answers : \A v \in Workers : Replying(v, r, x)' => Replying(v, r, x)
      BY <2>1, <2>4, <2>8 DEF Replying
    <3>2. Once(r)'
      BY <2>1, <2>2, <2>6, <3>1 DEF OneAsk, Once
    <3>3. \A x \in Msg \cup Reply, k \in Stages : At(r, x, k)' => At(r, x, k)
      BY <2>1, <2>2, <2>3, <3>1 DEF At
    <3> QED
      BY <2>1, <2>6, <3>2, <3>3, AskLess
  <2> QED
    BY <2>7, <2>8
<1>7. ASSUME NEW w \in Workers, HandlerRecv(w) PROVE AskInv'
  <2> PICK s \in Streams : s = wmsg[w].s /\ wmsg[w] # NoMsg /\ wmsg[w] \in Msg
    BY <1>7, MsgFacts DEF HandlerRecv, TypeOK
  <2>1. /\ UNCHANGED <<mq, wmsg, msgChan, spc, out, msgNil, strays, hold, recvChan>>
        /\ wreply[w] = NoMsg /\ \A v \in Workers \ {w} : wreply'[v] = wreply[v]
        /\ private[s] \in Seq(Msg)
    BY <1>7 DEF HandlerRecv, clientV, hist, TypeOK
  <2>2. \A r \in Streams : Line(ConnOf[r])' = Line(ConnOf[r])
    BY <1>0, <2>1, LineMoves
  <2>3. \/ private' = private /\ wreply'[w] \notin Answers
        \/ /\ private[s] # <<>> /\ private'[s] = Tail(private[s])
           /\ \A r \in Streams \ {s} : private'[r] = private[r]
           /\ wreply'[w] = [n |-> Head(private[s]).n, err |-> FALSE]
    <3>1. CASE wreply' = [wreply EXCEPT ![w] = [n |-> wmsg[w].n, err |-> TRUE]] /\ private' = private
      BY <3>1 DEF TypeOK, Answers
    <3>2. CASE /\ private[s] # <<>> /\ private' = [private EXCEPT ![s] = Tail(@)]
               /\ wreply' = [wreply EXCEPT ![w] = [n |-> Head(private[s]).n, err |-> FALSE]]
      BY <3>2 DEF TypeOK
    <3> QED
      BY <1>7, <3>1, <3>2 DEF HandlerRecv
  <2> SUFFICES ASSUME NEW r \in Streams \ strays, ~msgNil[r] PROVE OneAsk(r)'
    BY <2>1 DEF AskInv
  <2>4. OneAsk(r) /\ OnceIn(mq, Asks(r)) /\ OnceIn(private[r], Asks(r)) /\ OnceIn(msgChan[r], Answers)
    BY DEF AskInv, OneAsk, Once
  <2>5. CASE r # s \/ wreply'[w] \notin Answers
    <3>1. \A x \in Answers : \A v \in Workers : Replying(v, r, x)' => Replying(v, r, x)
      BY <2>1, <2>5 DEF Replying
    <3>2. \/ private'[r] = private[r]
          \/ private[r] \in Seq(Msg) /\ private[r] # <<>> /\ private'[r] = Tail(private[r])
      BY <2>1, <2>3
    <3>3. OnceIn(private'[r], Asks(r)) /\ \A x : In(x, private'[r]) => In(x, private[r])
      BY <2>4, <3>2, TailFacts
    <3>4. Once(r)'
      BY <2>1, <2>4, <3>1, <3>3 DEF OneAsk, Once
    <3>5. \A x \in Msg \cup Reply, k \in Stages : At(r, x, k)' => At(r, x, k)
      BY <2>1, <2>2, <3>1, <3>3 DEF At
    <3> QED
      BY <2>1, <2>4, <3>4, <3>5, AskLess
  <2>6. CASE r = s /\ wreply'[w] \in Answers
    <3> PICK m \in Msg : m = Head(private[s]) /\ private[s] # <<>> /\ private'[s] = Tail(private[s])
      BY <2>1, <2>3, <2>6
    <3> PICK y \in Answers : y = wreply'[w] /\ y.n = m.n
      BY <2>3, <2>6
    <3>1. m \in Asks(s)
      BY <2>1 DEF PlaceInv, Asks
    <3>2. /\ In(m, private[s]) /\ OnceIn(private'[s], Asks(s)) /\ \A x \in Asks(s) : ~In(x, private'[s])
      BY <2>1, <2>4, <2>6, <3>1, TailFacts
    <3>3. At(s, m, "private")
      BY <3>1, <3>2 DEF At
    <3>4. \A x \in Msg \cup Reply, k \in Stages : At(s, x, k) => k = "private"
      BY <2>4, <2>6, <3>3 DEF OneAsk, Stages
    <3>5. \A x \in Answers : \A v \in Workers : ~Replying(v, s, x)
      <4>1. \A x \in Answers : ~At(s, x, "reply")
        BY <3>4, StageFacts
      <4> QED
        BY <4>1 DEF At
    <3>6. \A x \in Answers : \A v \in Workers : Replying(v, s, x)' => v = w /\ x = y
      BY <2>1, <3>5 DEF Replying
    <3>7. Once(s)'
      BY <2>1, <2>4, <2>6, <3>2, <3>6 DEF Once
    <3>8. \A x \in Msg \cup Reply, k \in Stages : At(s, x, k)' => x = y /\ k = "reply"
      <4> SUFFICES ASSUME NEW x \in Msg \cup Reply, NEW k \in Stages, At(s, x, k)', k # "reply"
                   PROVE  FALSE
        BY <3>6 DEF At
      <4>1. k # "private"
        BY <3>2 DEF At
      <4>2. At(s, x, k)
        BY <2>1, <2>2, <4>1 DEF At
      <4> QED
        BY <3>4, <4>1, <4>2
    <3>9. y \in Reply
      BY StageFacts
    <3> QED
      BY <2>1, <2>4, <2>6, <3>3, <3>7, <3>8, <3>9, AskMoves DEF Stages
  <2> QED
    BY <2>5, <2>6
<1>8. ASSUME NEW w \in Workers, HandlerReply(w) PROVE AskInv'
  <2> PICK s \in Streams : s = wmsg[w].s /\ wmsg[w] # NoMsg /\ wmsg[w] \in Msg
    BY <1>8, MsgFacts DEF HandlerReply, TypeOK, PlaceInv
  <2> PICK y \in Reply : y = wreply[w]
    BY <1>8 DEF HandlerReply, TypeOK
  <2>1. /\ UNCHANGED <<mq, private, spc, out, msgNil, strays, hold, recvChan>>
        /\ wmsg'[w] = NoMsg /\ msgChan \in [Streams -> Seq(Reply)]
        /\ \A v \in Workers \ {w} : wmsg'[v] = wmsg[v] /\ wreply'[v] = wreply[v]
        /\ \A r \in Streams \ {s} : msgChan'[r] = msgChan[r]
        /\ msgChan'[s] = msgChan[s] \/ msgChan'[s] = Append(msgChan[s], y)
    BY <1>8 DEF HandlerReply, ReplyTo, clientV, hist, TypeOK
  <2>2. \A r \in Streams : Line(ConnOf[r])' = Line(ConnOf[r])
    BY <1>0, <2>1, LineMoves
  <2> SUFFICES ASSUME NEW r \in Streams \ strays, ~msgNil[r] PROVE OneAsk(r)'
    BY <2>1 DEF AskInv
  <2>3. OneAsk(r) /\ OnceIn(mq, Asks(r)) /\ OnceIn(private[r], Asks(r)) /\ OnceIn(msgChan[r], Answers)
    BY DEF AskInv, OneAsk, Once
  <2>4. \A x \in Answers : \A v \in Workers : Replying(v, r, x)' => v # w /\ Replying(v, r, x)
    BY <2>1 DEF Replying
  <2>5. CASE r # s \/ y \notin Answers \/ msgChan'[s] = msgChan[s]
    <3>1. OnceIn(msgChan'[r], Answers) /\ \A x \in Answers : In(x, msgChan'[r]) => In(x, msgChan[r])
      <4>1. CASE msgChan'[r] = msgChan[r]
        BY <2>3, <4>1
      <4>2. CASE y \notin Answers /\ msgChan'[r] = Append(msgChan[r], y)
        BY <2>1, <2>3, <4>2, AppendFacts
      <4> QED
        BY <2>1, <2>5, <4>1, <4>2
    <3>2. Once(r)'
      BY <2>1, <2>3, <2>4, <3>1 DEF OneAsk, Once
    <3>3. \A x \in Msg \cup Reply, k \in Stages : At(r, x, k)' => At(r, x, k)
      BY <2>1, <2>2, <2>4, <3>1 DEF At
    <3> QED
      BY <2>1, <2>3, <3>2, <3>3, AskLess
  <2>6. CASE r = s /\ y \in Answers /\ msgChan'[s] = Append(msgChan[s], y)
    <3>1. Replying(w, s, y) /\ At(s, y, "reply")
      BY <2>6 DEF At, Replying
    <3>2. \A x \in Msg \cup Reply, k \in Stages : At(s, x, k) => k = "reply"
      BY <2>3, <2>6, <3>1 DEF OneAsk, Stages
    <3>3. \A x \in Answers : ~In(x, msgChan[s])
      <4>1. \A x \in Answers : ~At(s, x, "answer")
        BY <3>2, StageFacts
      <4> QED
        BY <4>1 DEF At
    <3>4. OnceIn(msgChan'[s], Answers) /\ \A x \in Answers : In(x, msgChan'[s]) => x = y
      BY <2>1, <2>3, <2>6, <3>3, AppendFacts
    <3>5. \A x \in Answers : \A v \in Workers : ~Replying(v, s, x)'
      BY <2>3, <2>4, <2>6, <3>1 DEF OneAsk, Once
    <3>6. Once(s)'
      BY <2>1, <2>3, <2>6, <3>4, <3>5 DEF Once
    <3>7. \A x \in Msg \cup Reply, k \in Stages : At(s, x, k)' => x = y /\ k = "answer"
      <4> SUFFICES ASSUME NEW x \in Msg \cup Reply, NEW k \in Stages, At(s, x, k)', k # "answer"
                   PROVE  FALSE
        BY <3>4 DEF At
      <4>1. k # "reply"
        BY <3>5 DEF At
      <4>2. At(s, x, k)
        BY <2>1, <2>2, <4>1 DEF At
      <4> QED
        BY <3>2, <4>1, <4>2
    <3> QED
      BY <2>1, <2>3, <2>6, <3>1, <3>6, <3>7, AskMoves DEF Stages
  <2> QED
    BY <2>1, <2>5, <2>6
<1>9. ASSUME NEW s \in Streams, RecvTimeout(s) PROVE AskInv'
  <2>1. /\ UNCHANGED <<mq, private, msgChan, wmsg, wreply, msgNil, hold, recvChan>>
        /\ strays' = strays \cup {s} /\ \A r \in Streams \ {s} : spc'[r] = spc[r] /\ out'[r] = out[r]
    BY <1>9 DEF RecvTimeout, workV, TypeOK
  <2>2. \A r \in Streams : Line(ConnOf[r])' = Line(ConnOf[r])
    BY <1>0, <2>1, LineMoves
  <2> QED
    BY <1>0, <2>1, <2>2, AskSame DEF AskInv
<1>10. ASSUME NEW w \in Workers, HandlerRecvTimeout(w) PROVE AskInv'
  <2> PICK s \in Streams : s = wmsg[w].s /\ wmsg[w] # NoMsg
    BY <1>10, MsgFacts DEF HandlerRecvTimeout, TypeOK
  <2>1. /\ UNCHANGED <<mq, private, msgChan, wmsg, spc, out, msgNil, hold, recvChan>>
        /\ strays' = strays \cup {s} /\ \A v \in Workers \ {w} : wreply'[v] = wreply[v]
    BY <1>10 DEF HandlerRecvTimeout, clientV, TypeOK
  <2>2. \A r \in Streams : Line(ConnOf[r])' = Line(ConnOf[r])
    BY <1>0, <2>1, LineMoves
  <2> SUFFICES ASSUME NEW r \in Streams \ strays', ~msgNil[r] PROVE OneAsk(r)'
    BY <2>1 DEF AskInv
  <2>3. OneAsk(r) /\ r # s
    BY <2>1 DEF AskInv
  <2>4. \A x : \A v \in Workers : Replying(v, r, x)' => Replying(v, r, x)
    BY <2>1, <2>3 DEF Replying
  <2>5. Once(r)'
    BY <2>1, <2>3, <2>4 DEF OneAsk, Once
  <2>6. \A x \in Msg \cup Reply, k \in Stages : At(r, x, k)' => At(r, x, k)
    BY <2>1, <2>2, <2>4 DEF At
  <2> QED
    BY <2>1, <2>3, <2>5, <2>6, AskLess
<1> QED
  BY <1>1, <1>2, <1>3, <1>4, <1>5, <1>6, <1>7, <1>8, <1>9, <1>10 DEF Next

(* A stream that waits receives the answer to what it asked. *)
LEMMA OwnStep ==
    ASSUME TypeOK, PlaceInv, AskInv, OwnReply, [Next]_vars
    PROVE  OwnReply'
<1>1. ASSUME NEW s \in Streams, Recv(s) PROVE OwnReply'
  <2> PICK a \in Reply : a = Head(msgChan[s]) /\ In(a, msgChan[s])
    BY <1>1, TailFacts DEF Recv, TypeOK
  <2>1. strays' = strays /\ (wrong' = wrong \/ (wrong' = wrong \cup {s} /\ a.n # out[s].n /\ ~a.err))
    BY <1>1 DEF Recv
  <2>2. ASSUME s \notin strays, a.n # out[s].n, ~a.err PROVE FALSE
    <3>1. OneAsk(s)
      BY <1>1, <2>2 DEF Recv, PlaceInv, AskInv
    <3>2. At(s, a, "answer")
      BY <2>2 DEF At, Answers
    <3> QED
      BY <2>2, <3>1, <3>2 DEF OneAsk, Stages
  <2> QED
    BY <2>1, <2>2 DEF OwnReply
<1>2. ASSUME NEW s \in Streams, SendDone(s) PROVE OwnReply'
  BY <1>2 DEF SendDone, OwnReply
<1>3. CASE \/ ctClose \/ ReceiverEnds \/ UNCHANGED vars
           \/ \E c \in Conns : \/ lookupServiceChan(c) \/ Accept(c) \/ Close(c) \/ SeeClose(c)
                               \/ Exit(c) \/ Take(c) \/ Dispatch(c)
           \/ \E s \in Streams : (\E kind \in Kinds : Send(s, kind)) \/ SendPanics(s)
           \/ \E w \in Workers : HandlerStart(w) \/ HandlerRecv(w) \/ HandlerReply(w)
  <2>1. UNCHANGED <<wrong, strays>>
    BY <1>3 DEF ctClose, ReceiverEnds, lookupServiceChan, Accept, Close, SeeClose, Exit, Take, Dispatch,
       Send, SendPanics, HandlerStart, HandlerRecv, HandlerReply, vars, hist
  <2> QED
    BY <2>1 DEF OwnReply
<1>4. ASSUME NEW s \in Streams, RecvTimeout(s) PROVE OwnReply'
  BY <1>4 DEF RecvTimeout, OwnReply
<1>5. ASSUME NEW w \in Workers, HandlerRecvTimeout(w) PROVE OwnReply'
  BY <1>5 DEF HandlerRecvTimeout, OwnReply
<1> QED
  BY <1>1, <1>2, <1>3, <1>4, <1>5 DEF Next

-----------------------------------------------------------------------------
(* The initial states satisfy the invariant. *)
LEMMA InitIInv == Init => IInv
<1> SUFFICES ASSUME Init PROVE IInv
  OBVIOUS
<1>0. QSize \in Nat \ {0} /\ NoMsg \notin Answers
  BY ChanTransportAssumption, StageFacts
<1>1. \A x : ~In(x, <<>>)
  BY DEF In
<1>2. \A S : OnceIn(<<>>, S)
  BY DEF OnceIn
<1>3. \A c \in Conns : Line(c) = <<>>
  BY DEF Init, Line
<1>4. TypeOK
  <2>1. /\ recvChan \in [Conns -> Seq(Msg)] /\ private \in [Streams -> Seq(Msg)]
        /\ msgChan \in [Streams -> Seq(Reply)] /\ mq \in Seq(Msg)
        /\ sent \in [Streams -> Seq(Nat)] /\ dispatched \in [Streams -> Seq(Nat)]
    BY DEF Init
  <2>2. /\ \A c \in Conns : Len(recvChan[c]) <= QSize
        /\ \A s \in Streams : Len(private[s]) <= QSize /\ Len(msgChan[s]) <= QSize
    BY <1>0 DEF Init
  <2> QED
    BY <2>1, <2>2 DEF Init, TypeOK
<1>5. NumberInv
  BY DEF Init, NumberInv, Counts
<1>6. LineInv
  BY <1>3 DEF Init, LineInv, InLine, Waiting, Sorted, Complete
<1>7. PlaceInv
  BY DEF Init, PlaceInv
<1>8. AskInv
  <2> SUFFICES ASSUME NEW s \in Streams PROVE OneAsk(s)
    BY DEF AskInv
  <2>1. \A w \in Workers, x \in Answers : ~Replying(w, s, x)
    BY <1>0 DEF Init, Replying
  <2>2. Once(s)
    BY <1>2, <2>1 DEF Init, Once
  <2>3. Line(ConnOf[s]) = <<>>
    BY <1>3, ChanTransportAssumption
  <2>4. \A x \in Msg \cup Reply, k \in Stages : ~At(s, x, k)
    BY <1>1, <2>1, <2>3 DEF Init, At
  <2> QED
    BY <2>2, <2>4 DEF OneAsk
<1>9. OwnReply
  BY DEF Init, OwnReply
<1> QED
  BY <1>4, <1>5, <1>6, <1>7, <1>8, <1>9 DEF IInv

(* Every step preserves the invariant. *)
LEMMA NextIInv == IInv /\ [Next]_vars => IInv'
  BY TypeStep, PlaceStep, OrderStep, AskStep, OwnStep DEF IInv

(* IInv is an invariant of the transport. *)
THEOREM SpecIInv == Spec => []IInv
  BY InitIInv, NextIInv, PTL DEF Spec

(* What is numbered and complete up to a message is a prefix of what was sent. *)
LEMMA InOrderHere ==
    ASSUME TypeOK, NumberInv
    PROVE  InOrder
<1> SUFFICES ASSUME NEW s \in Streams
             PROVE  dispatched[s] = SubSeq(sent[s], 1, Len(dispatched[s]))
  BY DEF InOrder
<1>1. /\ sent[s] \in Seq(Nat) /\ dispatched[s] \in Seq(Nat) /\ Len(dispatched[s]) \in Nat
      /\ Len(sent[s]) \in Nat /\ Len(dispatched[s]) <= Len(sent[s])
      /\ Counts(sent[s]) /\ Counts(dispatched[s])
  BY DEF TypeOK, NumberInv
<1> DEFINE p == SubSeq(sent[s], 1, Len(dispatched[s]))
<1>2. /\ p \in Seq(Nat) /\ Len(p) = Len(dispatched[s])
      /\ \A i \in 1..Len(dispatched[s]) : p[i] = sent[s][i] /\ i \in 1..Len(sent[s])
  BY <1>1
<1> HIDE DEF p
<1>3. \A i \in 1..Len(dispatched[s]) : dispatched[s][i] = p[i]
  BY <1>1, <1>2 DEF Counts
<1>4. dispatched[s] = p
  BY <1>1, <1>2, <1>3, SeqEqual
<1> QED
  BY <1>4 DEF p

(* The goroutine of a connection dispatches the messages of a stream in the order
   they were sent, none twice and none skipped, whatever other streams share the
   connection's channel and whenever it is closed.                          *)
THEOREM SpecInOrder == Spec => []InOrder
<1>1. IInv => InOrder
  BY InOrderHere DEF IInv
<1> QED
  BY <1>1, SpecIInv, PTL

(* A call gets the answer to its own request, or EOF, for any number of streams,
   connections and workers.  The exceptions are on the same stream: stray data, or
   an earlier Recv that timed out, the client's or a handler's.             *)
THEOREM SpecOwnReply == Spec => []OwnReply
<1>1. IInv => OwnReply
  BY DEF IInv
<1> QED
  BY <1>1, SpecIInv, PTL

=============================================================================
