------------------------ MODULE StreamTransportProofs ------------------------
(***************************************************************************)
(* Proofs about one connection of the stream transport, for every number   *)
(* of streams and messages, every program of the client and all queue      *)
(* sizes: types and capacities, and that the handlers that share a server  *)
(* stream's encoder write every reply once and none in place of another.   *)
(***************************************************************************)
EXTENDS StreamTransport, FiniteSetTheorems, TLAPS

(* r is one of the messages of sequence q. *)
In(r, q) == \E i \in 1..Len(q) : q[i] = r

(* No message occurs twice in sequence q. *)
Distinct(q) == \A i, j \in 1..Len(q) : q[i] = q[j] => i = j

(* r has not been dispatched yet: its user has not sent it, is writing it, it is
   on its way, or the server's receiver has it.                             *)
Writing(r) == \E s \in Streams : cpc[s] = "write" /\ cur[s] = r
Coming(r) == In(r, todo[StreamOf[r]]) \/ Writing(r) \/ In(r, c2s) \/ sMsg = r

(* Until it is dispatched a message is in one of those places, once. *)
ComingInv ==
    /\ \A s \in Streams : Distinct(todo[s])
    /\ \A s \in Streams, r \in Reqs : In(r, todo[s]) => StreamOf[r] = s
    /\ \A s \in Streams : cpc[s] = "write" =>
         cur[s] \in Reqs /\ StreamOf[cur[s]] = s /\ ~In(cur[s], todo[s])
    /\ Distinct(c2s)
    /\ \A r \in Reqs : In(r, c2s) => ~In(r, todo[StreamOf[r]]) /\ ~Writing(r)
    /\ sMsg # None => ~In(sMsg, todo[StreamOf[sMsg]]) /\ ~Writing(sMsg) /\ ~In(sMsg, c2s)
    /\ spc = "dispatch" <=> sMsg # None

(* A handler runs only for a message that has been dispatched; the receiver is
   the handler of a message it cannot decode.                               *)
HandlerInv ==
    \A r \in Reqs : wpc[r] # "none" =>
        /\ KindOf[r] \in Handled \cup {"garbled"}
        /\ Coming(r) => r = sMsg /\ KindOf[r] = "garbled"

(* A private message is in one private channel, once, until a session handler
   has received it, and one handler receives it.                            *)
PrivateInv ==
    /\ \A x \in ServerStreams : Distinct(private[x])
    /\ \A x \in ServerStreams, r \in Reqs : In(r, private[x]) =>
         /\ KindOf[r] = "private" /\ ~Coming(r)
         /\ \A y \in ServerStreams : In(r, private[y]) => x = y
    /\ \A q, r \in Reqs : out[q] = r /\ r # q =>
         /\ wpc[q] \in {"cas", "encode", "write", "done"}
         /\ KindOf[r] = "private" /\ ~Coming(r)
         /\ \A x \in ServerStreams : ~In(r, private[x])
         /\ \A p \in Reqs : out[p] = r /\ r # p => p = q

(* At most one handler holds the main encoder of a server stream, and what it is
   about to write is what it has encoded.                                   *)
EncoderInv ==
    /\ \A q \in Reqs : mine[q] => main[ss[q]] /\ wpc[q] \in {"encode", "write", "done"}
    /\ \A p, q \in Reqs : mine[p] /\ mine[q] /\ ss[p] = ss[q] => p = q
    /\ \A q \in Reqs : mine[q] /\ wpc[q] = "write" => encBuf[ss[q]] = out[q]

(* Everything written is what some handler is done writing. *)
SentInv ==
    /\ \A r \in Reqs : In(r, sent) => \E q \in Reqs : wpc[q] = "done" /\ out[q] = r
    /\ spc = "ended" => net = "closed"

(* The server stream of s has been replaced at most once for each streamCloseMsg
   that has been dispatched.                                                *)
Closes == {q \in Reqs : KindOf[q] = "close"}
Closed(s) == {q \in Closes : StreamOf[q] = s /\ ~Coming(q)}
GenInv == \A s \in Streams : gen[s] <= Cardinality(Closed(s))

(* The inductive invariant. *)
IInv ==
    /\ TypeOK /\ ComingInv /\ HandlerInv /\ PrivateInv /\ EncoderInv /\ SentInv /\ GenInv
    /\ RepliesIntact

(* r has been written to the server, and is somewhere on its way through it, or
   its reply has been written back.                                         *)
Written(r) ==
    \/ In(r, c2s) \/ sMsg = r \/ wpc[r] # "none" \/ In(r, sent)
    \/ \E x \in ServerStreams : In(r, private[x])
    \/ \E q \in Reqs : q # r /\ out[q] = r

(* A user has one call under way, and a call returns once. *)
CallInv ==
    /\ \A s \in Streams : cpc[s] # "idle" =>
         cur[s] \in Reqs /\ StreamOf[cur[s]] = s /\ ~In(cur[s], todo[s]) /\ got[cur[s]] = "nothing"
    /\ \A r \in Reqs : In(r, todo[StreamOf[r]]) => got[r] = "nothing"
    /\ cEnded => net = "closed"

(* A reply that was written is in one place, once, until a call on its stream
   returns it.                                                              *)
Arriving(r) == In(r, s2c) \/ inHand = r \/ \E s \in Streams : In(r, msgChan[s])
DeliverInv ==
    /\ Distinct(s2c) /\ (inHand # None => ~In(inHand, s2c))
    /\ \A s \in Streams : Distinct(msgChan[s])
    /\ \A s \in Streams, r \in Reqs : In(r, msgChan[s]) => StreamOf[r] = s /\ ~In(r, s2c) /\ inHand # r
    /\ \A r \in Reqs : Arriving(r) => In(r, sent)
    /\ \A q, r \in Reqs : got[q] = r => In(r, sent) /\ ~Arriving(r) /\ StreamOf[r] = StreamOf[q]

(* The user of a message that was written waits for its reply, or will never
   receive on its stream again, unless its reply is or will be unread.      *)
AwaitInv ==
    \A r \in Reqs : Written(r) =>
        \/ r \in OneWay \/ got[r] \in Reqs \/ got[r] = "timeout"
        \/ cpc[StreamOf[r]] = "recv" /\ cur[StreamOf[r]] = r
        \/ got[r] = "error" /\ cEnded /\ cpc[StreamOf[r]] # "recv"

-----------------------------------------------------------------------------
(* What removing the first message of a sequence leaves. *)
LEMMA TailFacts ==
    ASSUME NEW q \in Seq(Reqs), q # <<>>
    PROVE  /\ Head(q) \in Reqs /\ Tail(q) \in Seq(Reqs) /\ Len(Tail(q)) < Len(q)
           /\ \A r : In(r, q) <=> (r = Head(q) \/ In(r, Tail(q)))
           /\ Distinct(q) => Distinct(Tail(q)) /\ ~In(Head(q), Tail(q))
<1>1. /\ Head(q) \in Reqs /\ Tail(q) \in Seq(Reqs) /\ Len(q) \in Nat \ {0} /\ Head(q) = q[1]
      /\ Len(Tail(q)) = Len(q) - 1 /\ \A i \in 1..Len(Tail(q)) : Tail(q)[i] = q[i + 1]
  OBVIOUS
<1>2. ASSUME NEW r PROVE In(r, q) <=> (r = Head(q) \/ In(r, Tail(q)))
  <2>1. ASSUME In(r, q), r # Head(q) PROVE In(r, Tail(q))
    <3> PICK i \in 1..Len(q) : q[i] = r
      BY <2>1 DEF In
    <3>1. i - 1 \in 1..Len(Tail(q)) /\ Tail(q)[i - 1] = r
      BY <1>1, <2>1
    <3> QED
      BY <3>1 DEF In
  <2>2. ASSUME In(r, Tail(q)) PROVE In(r, q)
    <3> PICK i \in 1..Len(Tail(q)) : Tail(q)[i] = r
      BY <2>2 DEF In
    <3>1. i + 1 \in 1..Len(q) /\ q[i + 1] = r
      BY <1>1
    <3> QED
      BY <3>1 DEF In
  <2>3. In(Head(q), q)
    BY <1>1 DEF In
  <2> QED
    BY <2>1, <2>2, <2>3
<1>3. ASSUME Distinct(q) PROVE Distinct(Tail(q)) /\ ~In(Head(q), Tail(q))
  <2>1. ASSUME NEW i \in 1..Len(Tail(q)), NEW j \in 1..Len(Tail(q)), Tail(q)[i] = Tail(q)[j]
        PROVE  i = j
    <3>1. i + 1 \in 1..Len(q) /\ j + 1 \in 1..Len(q) /\ q[i + 1] = q[j + 1]
      BY <1>1, <2>1
    <3>2. i + 1 = j + 1
      BY <1>3, <3>1 DEF Distinct
    <3> QED
      BY <3>2
  <2>2. ASSUME NEW i \in 1..Len(Tail(q)) PROVE Tail(q)[i] # Head(q)
    BY <1>1, <1>3 DEF Distinct
  <2> QED
    BY <2>1, <2>2 DEF Distinct, In
<1> QED
  BY <1>1, <1>2, <1>3

(* What appending a message to a sequence adds. *)
LEMMA AppendFacts ==
    ASSUME NEW q \in Seq(Reqs), NEW x \in Reqs
    PROVE  /\ Append(q, x) \in Seq(Reqs) /\ Len(Append(q, x)) = Len(q) + 1
           /\ \A r : In(r, Append(q, x)) <=> (r = x \/ In(r, q))
           /\ Distinct(q) /\ ~In(x, q) => Distinct(Append(q, x))
<1>1. /\ Append(q, x) \in Seq(Reqs) /\ Len(Append(q, x)) = Len(q) + 1 /\ Len(q) \in Nat
      /\ \A i \in 1..Len(q) : Append(q, x)[i] = q[i]
      /\ Append(q, x)[Len(q) + 1] = x
  OBVIOUS
<1>2. ASSUME NEW r PROVE In(r, Append(q, x)) <=> (r = x \/ In(r, q))
  <2>1. ASSUME In(r, Append(q, x)), r # x PROVE In(r, q)
    <3> PICK i \in 1..(Len(q) + 1) : Append(q, x)[i] = r
      BY <1>1, <2>1 DEF In
    <3>1. i \in 1..Len(q)
      BY <1>1, <2>1
    <3> QED
      BY <1>1, <3>1 DEF In
  <2>2. In(r, q) => In(r, Append(q, x))
    BY <1>1 DEF In
  <2>3. In(x, Append(q, x))
    BY <1>1 DEF In
  <2> QED
    BY <2>1, <2>2, <2>3
<1>3. ASSUME Distinct(q), ~In(x, q) PROVE Distinct(Append(q, x))
  BY <1>1, <1>3 DEF Distinct, In
<1> QED
  BY <1>1, <1>2, <1>3

-----------------------------------------------------------------------------
(* Every step keeps messages that are not dispatched in one place, and none
   becomes one again.                                                       *)
LEMMA ComingStep ==
    ASSUME TypeOK, ComingInv, [Next]_vars
    PROVE  ComingInv' /\ \A r \in Reqs : Coming(r)' => Coming(r)
<1> DEFINE Goal == ComingInv' /\ \A r \in Reqs : Coming(r)' => Coming(r)
<1> None \notin Reqs /\ StreamOf \in [Reqs -> Streams]
  BY StreamAssumption
<1>1. ASSUME NEW s \in Streams, Send(s) PROVE Goal
  <2>0. /\ todo[s] \in Seq(Reqs) /\ todo[s] # <<>> /\ cpc[s] = "idle"
        /\ UNCHANGED <<c2s, sMsg, spc>>
        /\ todo'[s] = Tail(todo[s]) /\ \A t \in Streams \ {s} : todo'[t] = todo[t]
        /\ \A t \in Streams \ {s} : cpc'[t] = cpc[t] /\ cur'[t] = cur[t]
        /\ cpc'[s] = "write" => cur'[s] = Head(todo[s])
    BY <1>1 DEF Send, TypeOK, serverVars
  <2>1. /\ Head(todo[s]) \in Reqs
        /\ \A r : In(r, todo[s]) <=> (r = Head(todo[s]) \/ In(r, todo'[s]))
        /\ Distinct(todo'[s]) /\ ~In(Head(todo[s]), todo'[s])
    BY <2>0, TailFacts DEF ComingInv
  <2>2. StreamOf[Head(todo[s])] = s
    BY <2>1 DEF ComingInv
  <2>3. \A t \in Streams, r \in Reqs : In(r, todo'[t]) => In(r, todo[t])
    BY <2>0, <2>1
  <2>4. \A r \in Reqs : Writing(r)' => Writing(r) \/ r = Head(todo[s])
    BY <2>0 DEF Writing
  <2>5. ComingInv'
    <3>1. /\ \A t \in Streams : Distinct(todo'[t])
          /\ \A t \in Streams, r \in Reqs : In(r, todo'[t]) => StreamOf[r] = t
      BY <2>0, <2>1, <2>3 DEF ComingInv
    <3>2. \A t \in Streams : cpc'[t] = "write" =>
             cur'[t] \in Reqs /\ StreamOf[cur'[t]] = t /\ ~In(cur'[t], todo'[t])
      BY <2>0, <2>1, <2>2 DEF ComingInv
    <3>3. \A r \in Reqs : In(r, c2s) => ~In(r, todo'[StreamOf[r]]) /\ ~Writing(r)'
      BY <2>1, <2>2, <2>3, <2>4 DEF ComingInv
    <3>4. sMsg # None => ~In(sMsg, todo'[StreamOf[sMsg]]) /\ ~In(sMsg, c2s)
      BY <2>1, <2>2, <2>3, <2>4 DEF ComingInv, TypeOK
    <3>5. sMsg # None => ~Writing(sMsg)'
      BY <2>0, <2>1, <2>2, <2>3, <2>4 DEF ComingInv, TypeOK
    <3> QED
      BY <2>0, <3>1, <3>2, <3>3, <3>4, <3>5 DEF ComingInv
  <2>6. \A r \in Reqs : Coming(r)' => Coming(r)
    BY <2>0, <2>1, <2>2, <2>3, <2>4 DEF Coming
  <2> QED
    BY <2>5, <2>6
<1>2. ASSUME NEW s \in Streams, SendWrite(s) PROVE Goal
  <2> PICK x \in Reqs : x = cur[s]
    BY <1>2 DEF SendWrite, ComingInv
  <2>0. /\ cpc[s] = "write" /\ c2s \in Seq(Reqs)
        /\ UNCHANGED <<todo, sMsg, spc>> /\ (c2s' = c2s \/ c2s' = Append(c2s, x))
        /\ cpc'[s] # "write" /\ \A t \in Streams \ {s} : cpc'[t] = cpc[t] /\ cur'[t] = cur[t]
    BY <1>2 DEF SendWrite, TypeOK, ComingInv, serverVars
  <2>1. Writing(x) /\ ~Writing(x)' /\ \A r \in Reqs : Writing(r)' => Writing(r)
    <3>1. \A t \in Streams : cpc[t] = "write" /\ cur[t] = x => t = s
      BY <2>0 DEF ComingInv
    <3>2. \A t \in Streams : cpc'[t] = "write" => t # s /\ cpc[t] = "write" /\ cur'[t] = cur[t]
      BY <2>0
    <3> QED
      BY <2>0, <3>1, <3>2 DEF Writing
  <2>2. \A r \in Reqs : In(r, c2s') => In(r, c2s) \/ r = x
    BY <2>0, AppendFacts, ZenonT(30)
  <2>3. Distinct(c2s') /\ ~In(x, todo[StreamOf[x]]) /\ (sMsg # None => sMsg \in Reqs /\ sMsg # x)
    <3>1. ~In(x, c2s) /\ Distinct(c2s) /\ ~In(x, todo[StreamOf[x]])
      BY <2>0, <2>1 DEF ComingInv
    <3>2. sMsg # None => sMsg \in Reqs /\ sMsg # x
      <4>1. sMsg # None => sMsg \in Reqs
        BY DEF TypeOK
      <4>2. sMsg # None => ~(cpc[s] = "write" /\ cur[s] = sMsg)
        BY DEF ComingInv, Writing
      <4> QED
        BY <2>0, <4>1, <4>2
    <3>3. Distinct(Append(c2s, x))
      BY <2>0, <3>1, AppendFacts
    <3>4. Distinct(c2s')
      BY <2>0, <3>1, <3>3 DEF Distinct
    <3> QED
      BY <3>1, <3>2, <3>4
  <2>4. ComingInv'
    <3>1. \A t \in Streams : cpc'[t] = "write" =>
             cur'[t] \in Reqs /\ StreamOf[cur'[t]] = t /\ ~In(cur'[t], todo[t])
      BY <2>0 DEF ComingInv
    <3>2. \A r \in Reqs : In(r, c2s') => ~In(r, todo[StreamOf[r]]) /\ ~Writing(r)'
      BY <2>1, <2>2, <2>3 DEF ComingInv
    <3>3. sMsg # None => ~In(sMsg, todo[StreamOf[sMsg]]) /\ ~In(sMsg, c2s')
      BY <2>2, <2>3 DEF ComingInv
    <3>4. sMsg # None => ~Writing(sMsg)'
      BY <2>0, <2>1, <2>3 DEF ComingInv
    <3> QED
      BY <2>0, <2>3, <3>1, <3>2, <3>3, <3>4 DEF ComingInv
  <2>5. \A r \in Reqs : Coming(r)' => Coming(r)
    BY <2>0, <2>1, <2>2 DEF Coming
  <2> QED
    BY <2>4, <2>5
<1>3. ASSUME NEW s \in Streams, RecvMsg(s) \/ RecvClosed(s) \/ RecvTimeout(s) PROVE Goal
  <2>0. /\ UNCHANGED <<todo, c2s, sMsg, spc>>
        /\ \A t \in Streams : cpc[t] = "write" <=> cpc'[t] = "write"
        /\ \A t \in Streams : cpc[t] = "write" => cur'[t] = cur[t]
    BY <1>3 DEF RecvMsg, RecvClosed, RecvTimeout, Return, TypeOK, serverVars
  <2>1. \A r \in Reqs : Writing(r)' <=> Writing(r)
    BY <2>0 DEF Writing
  <2> QED
    BY <2>0, <2>1 DEF ComingInv, Coming, TypeOK
<1>4. CASE ServerRead
  <2>0. /\ c2s \in Seq(Reqs) /\ c2s # <<>> /\ spc = "read" /\ spc' = "dispatch"
        /\ UNCHANGED <<todo, cur, cpc>> /\ c2s' = Tail(c2s) /\ sMsg' = Head(c2s)
    BY <1>4 DEF ServerRead, TypeOK, clientVars
  <2>1. /\ sMsg' \in Reqs /\ sMsg' # None
        /\ \A r : In(r, c2s) <=> (r = sMsg' \/ In(r, c2s'))
        /\ Distinct(c2s') /\ ~In(sMsg', c2s')
    BY <2>0, TailFacts DEF ComingInv
  <2>2. \A r \in Reqs : Writing(r)' <=> Writing(r)
    BY <2>0 DEF Writing
  <2> QED
    BY <2>0, <2>1, <2>2 DEF ComingInv, Coming
<1>5. CASE DispatchClose \/ DispatchGarbled \/ DispatchKnown \/ DispatchPrivate
  <2>0. /\ UNCHANGED <<todo, cur, cpc, c2s>>
        /\ \/ UNCHANGED <<sMsg, spc>>
           \/ sMsg' = None /\ spc' = "top"
    BY <1>5 DEF DispatchClose, DispatchGarbled, DispatchKnown, DispatchPrivate, clientVars
  <2>1. CASE UNCHANGED <<sMsg, spc>>
    BY <2>0, <2>1 DEF ComingInv, Coming, Writing
  <2>2. CASE sMsg' = None /\ spc' = "top"
    BY <2>0, <2>2 DEF ComingInv, Coming, Writing
  <2> QED
    BY <2>0, <2>1, <2>2
<1>6. CASE ServerTop \/ ServerEnd
  <2>0. /\ UNCHANGED <<todo, cur, cpc, c2s, sMsg>> /\ spc # "dispatch" /\ spc' # "dispatch"
    BY <1>6 DEF ServerTop, ServerEnd, clientVars
  <2> QED
    BY <2>0 DEF ComingInv, Coming, Writing
<1>7. CASE receiver \/ Close \/ TransportClose \/ (\E q \in Reqs : handler(q) \/ HandlerRecvTimeout(q)) \/ UNCHANGED vars
  <2>0. UNCHANGED <<todo, cur, cpc, c2s, sMsg, spc>>
    BY <1>7 DEF receiver, ClientRead, ClientDeliver, ClientEnd, Close, TransportClose, handler,
       HandlerRecv, HandlerRecvClosed, HandlerRecvTimeout, TakeEncoder, Encode, WriteFrame, vars, clientVars, serverVars
  <2> QED
    BY <2>0 DEF ComingInv, Coming, Writing
<1> QED
  BY <1>1, <1>2, <1>3, <1>4, <1>5, <1>6, <1>7 DEF Next, user, serverReceiver

(* Every step keeps the number of closed server streams of a stream within the
   close messages that have been dispatched.                                *)
LEMMA GenStep ==
    ASSUME TypeOK, ComingInv, GenInv, [Next]_vars
    PROVE  GenInv' /\ gen' \in [Streams -> Gens]
<1>0. /\ IsFiniteSet(Closes) /\ None \notin Reqs /\ StreamOf \in [Reqs -> Streams]
      /\ Gens = 0..Cardinality(Closes) /\ Cardinality(Closes) \in Nat
  <2>1. IsFiniteSet(Closes) /\ None \notin Reqs /\ StreamOf \in [Reqs -> Streams]
    BY StreamAssumption, FS_Subset DEF Closes
  <2> QED
    BY <2>1, FS_CardinalityType DEF Closes, Gens
<1>1. \A s \in Streams : /\ IsFiniteSet(Closed(s)) /\ IsFiniteSet(Closed(s)')
                         /\ Cardinality(Closed(s)) \in Nat /\ Cardinality(Closed(s)') \in Nat
                         /\ Cardinality(Closed(s)') <= Cardinality(Closes)
                         /\ Closed(s) \subseteq Closed(s)'
                         /\ Cardinality(Closed(s)) <= Cardinality(Closed(s)')
  <2> SUFFICES ASSUME NEW s \in Streams
               PROVE  /\ IsFiniteSet(Closed(s)) /\ IsFiniteSet(Closed(s)')
                      /\ Cardinality(Closed(s)) \in Nat /\ Cardinality(Closed(s)') \in Nat
                      /\ Cardinality(Closed(s)') <= Cardinality(Closes)
                      /\ Closed(s) \subseteq Closed(s)'
                      /\ Cardinality(Closed(s)) <= Cardinality(Closed(s)')
    OBVIOUS
  <2>1. Closed(s)' \in SUBSET Closes /\ Closed(s) \in SUBSET Closed(s)'
    BY ComingStep DEF Closed, Closes
  <2>2. IsFiniteSet(Closed(s)') /\ Cardinality(Closed(s)') <= Cardinality(Closes)
    BY <1>0, <2>1, FS_Subset
  <2>3. IsFiniteSet(Closed(s)) /\ Cardinality(Closed(s)) <= Cardinality(Closed(s)')
    BY <2>1, <2>2, FS_Subset
  <2> QED
    BY <2>1, <2>2, <2>3, FS_CardinalityType
<1>2. \A s \in Streams : gen'[s] \in Nat /\ gen'[s] <= Cardinality(Closed(s)')
  <2>1. CASE DispatchClose
    <3> PICK c \in Reqs : c = sMsg
      BY <2>1 DEF DispatchClose, ComingInv, TypeOK
    <3>1. /\ KindOf[c] = "close" /\ StreamOf[c] \in Streams
          /\ gen' = [gen EXCEPT ![StreamOf[c]] = @ + 1]
          /\ UNCHANGED <<todo, cur, cpc, c2s>> /\ sMsg' = None
      BY <1>0, <2>1 DEF DispatchClose, clientVars
    <3>2. Coming(c) /\ ~Coming(c)'
      <4>1. ~In(c, todo[StreamOf[c]]) /\ ~Writing(c) /\ ~In(c, c2s)
        BY <1>0 DEF ComingInv, Writing
      <4> QED
        BY <1>0, <3>1, <4>1 DEF Coming, Writing
    <3>3. c \notin Closed(StreamOf[c]) /\ c \in Closed(StreamOf[c])'
      BY <3>1, <3>2 DEF Closed, Closes
    <3>4. Closed(StreamOf[c]) \cup {c} \in SUBSET Closed(StreamOf[c])'
      BY <1>1, <3>1, <3>3
    <3>5. Cardinality(Closed(StreamOf[c]) \cup {c}) = Cardinality(Closed(StreamOf[c])) + 1
      BY <1>1, <3>1, <3>3, FS_AddElement
    <3>6. Cardinality(Closed(StreamOf[c])) + 1 <= Cardinality(Closed(StreamOf[c])')
      BY <1>1, <3>1, <3>4, <3>5, FS_Subset
    <3>7. \A s \in Streams : gen[s] \in Nat /\ gen[s] <= Cardinality(Closed(s))
      BY <1>0 DEF GenInv, TypeOK
    <3>8. /\ gen'[StreamOf[c]] = gen[StreamOf[c]] + 1
          /\ \A s \in Streams \ {StreamOf[c]} : gen'[s] = gen[s]
      BY <3>1 DEF TypeOK
    <3> QED
      BY <1>1, <3>1, <3>6, <3>7, <3>8
  <2>2. CASE gen' = gen
    BY <1>0, <1>1, <2>2 DEF GenInv, TypeOK
  <2>3. DispatchClose \/ gen' = gen
    BY DEF Next, user, Send, SendWrite, RecvMsg, RecvClosed, RecvTimeout, receiver, ClientRead,
       ClientDeliver, ClientEnd, Close, serverReceiver, ServerTop, ServerEnd, ServerRead,
       DispatchGarbled, DispatchKnown, DispatchPrivate, TransportClose, handler, HandlerRecv,
       HandlerRecvClosed, HandlerRecvTimeout, TakeEncoder, Encode, WriteFrame, vars, serverVars
  <2> QED
    BY <2>1, <2>2, <2>3
<1>3. gen' \in [Streams -> Gens]
  <2>1. DOMAIN gen' = Streams /\ gen' = [s \in Streams |-> gen'[s]]
    BY DEF TypeOK, Next, user, Send, SendWrite, RecvMsg, RecvClosed, RecvTimeout, receiver, ClientRead,
       ClientDeliver, ClientEnd, Close, serverReceiver, ServerTop, ServerEnd, ServerRead, DispatchClose,
       DispatchGarbled, DispatchKnown, DispatchPrivate, TransportClose, handler, HandlerRecv,
       HandlerRecvClosed, HandlerRecvTimeout, TakeEncoder, Encode, WriteFrame, vars, serverVars
  <2> QED
    BY <1>0, <1>1, <1>2, <2>1
<1> QED
  BY <1>2, <1>3 DEF GenInv

(* A message that the server's receiver has dispatched is not coming any more. *)
LEMMA DispatchedOnce ==
    ASSUME ComingInv, NEW r \in Reqs, sMsg = r, sMsg' = None, UNCHANGED <<todo, cur, cpc, c2s>>
    PROVE  Coming(r) /\ ~Coming(r)'
<1>1. None \notin Reqs
  BY StreamAssumption
<1>2. ~In(r, todo[StreamOf[r]]) /\ ~Writing(r) /\ ~In(r, c2s)
  BY <1>1 DEF ComingInv, Writing
<1> QED
  BY <1>1, <1>2 DEF Coming, Writing

(* Where a worker begins with a message it was given. *)
LEMMA DispatchedTo ==
    ASSUME NEW k \in Handled
    PROVE  /\ AfterDispatch[k] \in {"cas", "wait", "done"}
           /\ k \notin Silent => AfterDispatch[k] # "done"
  BY DEF Handled, AfterDispatch, Silent

(* Every step starts a handler only for a message that is dispatched. *)
LEMMA HandlerStep ==
    ASSUME TypeOK, ComingInv, HandlerInv, [Next]_vars
    PROVE  HandlerInv'
<1>0. None \notin Reqs /\ \A r \in Reqs : Coming(r)' => Coming(r)
  BY StreamAssumption, ComingStep
<1> SUFFICES ASSUME NEW r \in Reqs, wpc'[r] # "none"
             PROVE  /\ KindOf[r] \in Handled \cup {"garbled"}
                    /\ Coming(r)' => r = sMsg' /\ KindOf[r] = "garbled"
  BY DEF HandlerInv
<1>1. CASE DispatchKnown
  <2> PICK x \in Reqs : x = sMsg
    BY <1>1 DEF DispatchKnown, ComingInv, TypeOK
  <2>1. /\ KindOf[x] \in Handled /\ KindOf[x] # "garbled" /\ ~Coming(x)'
        /\ \A q \in Reqs \ {x} : wpc'[q] = wpc[q]
    BY <1>1, DispatchedOnce DEF DispatchKnown, Handled, TypeOK, clientVars
  <2> QED
    BY <1>0, <2>1 DEF HandlerInv
<1>2. CASE DispatchGarbled
  <2> PICK x \in Reqs : x = sMsg
    BY <1>2 DEF DispatchGarbled, ComingInv, TypeOK
  <2>1. /\ KindOf[x] = "garbled" /\ \A q \in Reqs \ {x} : wpc'[q] = wpc[q]
        /\ sMsg' = None => ~Coming(x)'
        /\ sMsg' = None \/ sMsg' = sMsg
    BY <1>2, DispatchedOnce DEF DispatchGarbled, TypeOK, clientVars
  <2> QED
    BY <1>0, <2>1 DEF HandlerInv
<1>3. CASE DispatchClose \/ DispatchPrivate
  <2> PICK x \in Reqs : x = sMsg
    BY <1>3 DEF DispatchClose, DispatchPrivate, ComingInv, TypeOK
  <2>1. KindOf[x] # "garbled" /\ wpc' = wpc
    BY <1>3 DEF DispatchClose, DispatchPrivate, sendVars
  <2> QED
    BY <1>0, <2>1 DEF HandlerInv
<1>4. CASE ServerRead
  BY <1>0, <1>4 DEF ServerRead, HandlerInv, ComingInv
<1>5. ASSUME NEW q \in Reqs, handler(q) \/ HandlerRecvTimeout(q) PROVE wpc[r] # "none" /\ sMsg' = sMsg
  BY <1>5 DEF handler, HandlerRecv, HandlerRecvClosed, HandlerRecvTimeout, TakeEncoder, Encode, WriteFrame, serverVars,
     TypeOK
<1>6. ASSUME \/ \E s \in Streams : user(s) \/ RecvTimeout(s)
             \/ receiver \/ Close \/ ServerTop \/ ServerEnd \/ TransportClose \/ UNCHANGED vars
      PROVE  wpc' = wpc /\ sMsg' = sMsg
  BY <1>6 DEF user, Send, SendWrite, RecvMsg, RecvClosed, RecvTimeout, receiver, ClientRead,
     ClientDeliver, ClientEnd, Close, ServerTop, ServerEnd, TransportClose, vars, serverVars, sendVars
<1>7. CASE wpc[r] # "none" /\ sMsg' = sMsg
  BY <1>0, <1>7 DEF HandlerInv
<1> QED
  BY <1>1, <1>2, <1>3, <1>4, <1>5, <1>6, <1>7 DEF Next, serverReceiver

(* Every step keeps each private message in one channel or with the handler that
   has received it.                                                         *)
LEMMA PrivateStep ==
    ASSUME TypeOK, ComingInv, HandlerInv, PrivateInv, [Next]_vars
    PROVE  PrivateInv'
<1>0. None \notin Reqs /\ \A r \in Reqs : Coming(r)' => Coming(r)
  BY StreamAssumption, ComingStep
<1>1. CASE DispatchPrivate
  <2> PICK x \in Reqs : x = sMsg
    BY <1>1 DEF DispatchPrivate, ComingInv, TypeOK
  <2> PICK y \in ServerStreams : y = ss[x]
    BY DEF TypeOK
  <2>0. /\ KindOf[x] = "private" /\ UNCHANGED <<wpc, out>> /\ private[y] \in Seq(Reqs)
        /\ private'[y] = Append(private[y], x)
        /\ \A z \in ServerStreams \ {y} : private'[z] = private[z]
    BY <1>1 DEF DispatchPrivate, TypeOK, sendVars
  <2>1. Coming(x) /\ ~Coming(x)'
    BY <1>1, DispatchedOnce DEF DispatchPrivate, clientVars
  <2>2. \A z \in ServerStreams : ~In(x, private[z])
    BY <2>1 DEF PrivateInv
  <2>3. \A q \in Reqs : out[q] = x => q = x
    BY <2>1 DEF PrivateInv
  <2>4. /\ \A r : In(r, private'[y]) <=> (r = x \/ In(r, private[y]))
        /\ Distinct(private'[y])
    BY <2>0, <2>2, AppendFacts DEF PrivateInv
  <2>5. \A z \in ServerStreams : Distinct(private'[z])
    BY <2>0, <2>4 DEF PrivateInv
  <2>6. \A z \in ServerStreams, r \in Reqs :
           In(r, private'[z]) => In(r, private[z]) \/ (r = x /\ z = y)
    BY <2>0, <2>4
  <2>7. \A z \in ServerStreams, r \in Reqs : In(r, private'[z]) =>
         /\ KindOf[r] = "private" /\ ~Coming(r)'
         /\ \A v \in ServerStreams : In(r, private'[v]) => z = v
    BY <1>0, <2>0, <2>1, <2>2, <2>6 DEF PrivateInv
  <2>8. \A q, r \in Reqs : out[q] = r /\ r # q =>
         /\ wpc[q] \in {"cas", "encode", "write", "done"}
         /\ KindOf[r] = "private" /\ ~Coming(r)'
         /\ \A z \in ServerStreams : ~In(r, private'[z])
         /\ \A p \in Reqs : out[p] = r /\ r # p => p = q
    BY <1>0, <2>3, <2>6 DEF PrivateInv
  <2> QED
    BY <2>0, <2>5, <2>7, <2>8 DEF PrivateInv
<1>2. ASSUME NEW h \in Reqs, HandlerRecv(h) PROVE PrivateInv'
  <2> PICK y \in ServerStreams : y = ss[h]
    BY DEF TypeOK
  <2> PICK x \in Reqs : x = Head(private[y]) /\ private[y] \in Seq(Reqs) /\ private[y] # <<>>
    BY <1>2, TailFacts DEF HandlerRecv, TypeOK
  <2>0. /\ wpc[h] = "wait" /\ wpc' = [wpc EXCEPT ![h] = "cas"]
        /\ out' = [out EXCEPT ![h] = x]
        /\ private'[y] = Tail(private[y])
        /\ \A z \in ServerStreams \ {y} : private'[z] = private[z]
    BY <1>2 DEF HandlerRecv, TypeOK
  <2>1. /\ \A r : In(r, private[y]) <=> (r = x \/ In(r, private'[y]))
        /\ Distinct(private'[y]) /\ ~In(x, private'[y])
    BY <2>0, TailFacts DEF PrivateInv
  <2>2. \A z \in ServerStreams : ~In(x, private'[z])
    BY <2>0, <2>1 DEF PrivateInv
  <2>3. KindOf[x] = "private" /\ ~Coming(x)'
    BY <1>0, <2>1 DEF PrivateInv
  <2>4. \A q \in Reqs : out[q] = x => q = x
    BY <2>1 DEF PrivateInv
  <2>5. out[h] = h /\ h # x
    <3>1. out[h] \in Reqs
      BY DEF TypeOK
    <3>2. out[h] = h
      BY <2>0, <3>1 DEF PrivateInv
    <3>3. KindOf[h] # "private"
      BY <2>0 DEF HandlerInv, Handled
    <3> QED
      BY <2>3, <3>2, <3>3
  <2>6. \A z \in ServerStreams : Distinct(private'[z])
    BY <2>0, <2>1 DEF PrivateInv
  <2>7. \A z \in ServerStreams, r \in Reqs : In(r, private'[z]) => In(r, private[z])
    BY <2>0, <2>1
  <2>8. \A z \in ServerStreams, r \in Reqs : In(r, private'[z]) =>
         /\ KindOf[r] = "private" /\ ~Coming(r)'
         /\ \A v \in ServerStreams : In(r, private'[v]) => z = v
    BY <1>0, <2>7 DEF PrivateInv
  <2>9. ASSUME NEW q \in Reqs, NEW r \in Reqs, out'[q] = r, r # q
        PROVE  /\ wpc'[q] \in {"cas", "encode", "write", "done"}
               /\ KindOf[r] = "private" /\ ~Coming(r)'
               /\ \A z \in ServerStreams : ~In(r, private'[z])
               /\ \A p \in Reqs : out'[p] = r /\ r # p => p = q
    <3>1. CASE q = h
      <4>1. r = x
        BY <2>0, <2>9, <3>1 DEF TypeOK
      <4>2. \A p \in Reqs \ {h} : out'[p] = out[p]
        BY <2>0 DEF TypeOK
      <4>3. wpc'[h] = "cas"
        BY <2>0 DEF TypeOK
      <4> QED
        BY <2>2, <2>3, <2>4, <3>1, <4>1, <4>2, <4>3
    <3>2. CASE q # h
      <4>1. out[q] = r /\ wpc'[q] = wpc[q]
        BY <2>0, <2>9, <3>2 DEF TypeOK
      <4>2. out'[h] = x /\ \A p \in Reqs \ {h} : out'[p] = out[p]
        BY <2>0 DEF TypeOK
      <4>3. r # x
        BY <2>4, <2>9, <4>1
      <4>4. /\ wpc[q] \in {"cas", "encode", "write", "done"}
            /\ KindOf[r] = "private" /\ ~Coming(r)
            /\ \A z \in ServerStreams : ~In(r, private[z])
            /\ \A p \in Reqs : out[p] = r /\ r # p => p = q
        BY <2>9, <4>1 DEF PrivateInv
      <4> QED
        BY <1>0, <2>7, <4>1, <4>2, <4>3, <4>4
    <3> QED
      BY <3>1, <3>2
  <2> QED
    BY <2>6, <2>8, <2>9 DEF PrivateInv
<1>3. ASSUME UNCHANGED <<private, out>>,
             \A q \in Reqs : wpc[q] \in {"cas", "encode", "write", "done"}
                               => wpc'[q] \in {"cas", "encode", "write", "done"}
      PROVE  PrivateInv'
  BY <1>0, <1>3 DEF PrivateInv
<1>4. ASSUME NEW q \in Reqs, handler(q) \/ HandlerRecvTimeout(q), ~HandlerRecv(q) PROVE PrivateInv'
  <2>1. /\ UNCHANGED <<private, out>>
        /\ \A p \in Reqs : wpc[p] \in {"cas", "encode", "write", "done"}
                               => wpc'[p] \in {"cas", "encode", "write", "done"}
    BY <1>4 DEF handler, HandlerRecvClosed, HandlerRecvTimeout, TakeEncoder, Encode, WriteFrame, serverVars, TypeOK
  <2> QED
    BY <1>3, <2>1
<1>5. CASE DispatchKnown
  <2> PICK x \in Reqs : x = sMsg
    BY <1>5 DEF DispatchKnown, ComingInv, TypeOK
  <2>1. /\ KindOf[x] \in Handled /\ KindOf[x] # "garbled" /\ Coming(x)
        /\ UNCHANGED <<private, out>> /\ \A q \in Reqs \ {x} : wpc'[q] = wpc[q]
    BY <1>5 DEF DispatchKnown, Handled, TypeOK, Coming
  <2>2. wpc[x] = "none"
    BY <2>1 DEF HandlerInv
  <2> QED
    BY <1>3, <2>1, <2>2
<1>6. CASE DispatchGarbled
  <2>1. /\ UNCHANGED <<private, out>>
        /\ \A q \in Reqs : wpc'[q] = wpc[q] \/ wpc'[q] = "cas"
    BY <1>6 DEF DispatchGarbled, TypeOK
  <2> QED
    BY <1>3, <2>1
<1>7. CASE \/ \E s \in Streams : user(s) \/ RecvTimeout(s)
           \/ receiver \/ Close \/ ServerTop \/ ServerEnd \/ ServerRead \/ DispatchClose
           \/ TransportClose \/ UNCHANGED vars
  <2>1. UNCHANGED <<private, out, wpc>>
    BY <1>7 DEF user, Send, SendWrite, RecvMsg, RecvClosed, RecvTimeout, receiver, ClientRead,
       ClientDeliver, ClientEnd, Close, ServerTop, ServerEnd, ServerRead, DispatchClose,
       TransportClose, vars, serverVars, sendVars
  <2> QED
    BY <1>3, <2>1
<1> QED
  BY <1>1, <1>2, <1>4, <1>5, <1>6, <1>7 DEF Next, serverReceiver, handler

(* Every step keeps the main encoder of a server stream with one handler. *)
LEMMA EncoderStep ==
    ASSUME TypeOK, ComingInv, HandlerInv, PrivateInv, EncoderInv, [Next]_vars
    PROVE  EncoderInv'
<1> USE DEF EncoderInv
<1>0. None \notin Reqs
  BY StreamAssumption
<1>1. CASE ServerRead
  <2> PICK x \in Reqs : x = Head(c2s) /\ c2s \in Seq(Reqs) /\ c2s # <<>>
    BY <1>1, TailFacts DEF ServerRead, TypeOK
  <2>1. Coming(x) /\ sMsg = None
    BY <1>1, TailFacts DEF ServerRead, ComingInv, Coming
  <2>2. wpc[x] = "none" /\ ~mine[x]
    BY <1>0, <2>1 DEF HandlerInv
  <2>3. UNCHANGED <<main, encBuf, wpc, out, mine>> /\ \A q \in Reqs \ {x} : ss'[q] = ss[q]
    BY <1>1 DEF ServerRead, TypeOK
  <2> QED
    BY <2>2, <2>3
<1>2. CASE DispatchKnown \/ DispatchGarbled
  <2> PICK x \in Reqs : x = sMsg
    BY <1>2 DEF DispatchKnown, DispatchGarbled, ComingInv, TypeOK
  <2>1. UNCHANGED <<main, encBuf, ss, out, mine>> /\ \A q \in Reqs \ {x} : wpc'[q] = wpc[q]
    BY <1>2 DEF DispatchKnown, DispatchGarbled, TypeOK
  <2>2. wpc[x] = "none" \/ wpc' = wpc
    <3>1. CASE DispatchKnown
      BY <3>1 DEF DispatchKnown, HandlerInv, Coming, Handled
    <3>2. CASE DispatchGarbled
      BY <3>2 DEF DispatchGarbled
    <3> QED
      BY <1>2, <3>1, <3>2
  <2> QED
    BY <2>1, <2>2
<1>3. ASSUME NEW q \in Reqs, HandlerRecv(q) \/ HandlerRecvClosed(q) \/ HandlerRecvTimeout(q) PROVE EncoderInv'
  <2>1. /\ UNCHANGED <<main, encBuf, ss, mine>> /\ wpc[q] = "wait"
        /\ \A p \in Reqs \ {q} : wpc'[p] = wpc[p] /\ out'[p] = out[p]
    BY <1>3 DEF HandlerRecv, HandlerRecvClosed, HandlerRecvTimeout, TypeOK
  <2> QED
    BY <2>1
<1>4. ASSUME NEW q \in Reqs, TakeEncoder(q) PROVE EncoderInv'
  <2>1. ~mine[q]
    BY <1>4 DEF TakeEncoder
  <2>2. CASE spc = "ended"
    <3>1. /\ UNCHANGED <<main, encBuf, ss, out, mine>> /\ wpc'[q] = "done"
          /\ \A p \in Reqs \ {q} : wpc'[p] = wpc[p]
      BY <1>4, <2>2 DEF TakeEncoder, TypeOK
    <3> QED
      BY <2>1, <3>1
  <2>3. CASE spc # "ended"
    <3>1. /\ UNCHANGED <<encBuf, ss, out>> /\ wpc'[q] = "encode" /\ (mine'[q] => ~main[ss[q]])
          /\ \A p \in Reqs \ {q} : wpc'[p] = wpc[p] /\ mine'[p] = mine[p]
          /\ ss \in [Reqs -> ServerStreams]
      BY <1>4, <2>3, ZenonT(30) DEF TakeEncoder, TypeOK
    <3>2. \A y \in ServerStreams : (main[y] \/ y = ss[q]) => main'[y]
      BY <1>4, <2>3, ZenonT(60) DEF TakeEncoder, TypeOK
    <3>3. \A p \in Reqs : mine'[p] => main'[ss[p]] /\ wpc'[p] \in {"encode", "write", "done"}
      BY <3>1, <3>2
    <3>4. \A p, r \in Reqs : mine'[p] /\ mine'[r] /\ ss[p] = ss[r] => p = r
      BY <3>1
    <3>5. \A p \in Reqs : mine'[p] /\ wpc'[p] = "write" => encBuf[ss[p]] = out[p]
      BY <3>1
    <3> QED
      BY <3>1, <3>3, <3>4, <3>5
  <2> QED
    BY <2>2, <2>3
<1>5. ASSUME NEW q \in Reqs, Encode(q) PROVE EncoderInv'
  <2>1. /\ UNCHANGED <<main, ss, out, mine>> /\ wpc[q] = "encode" /\ wpc'[q] \in {"done", "write"}
        /\ \A p \in Reqs \ {q} : wpc'[p] = wpc[p]
        /\ ss \in [Reqs -> ServerStreams]
        /\ mine[q] => encBuf'[ss[q]] = out[q]
        /\ ~mine[q] => encBuf' = encBuf
        /\ \A y \in ServerStreams \ {ss[q]} : encBuf'[y] = encBuf[y]
    BY <1>5 DEF Encode, TypeOK
  <2>2. \A p \in Reqs : mine[p] /\ wpc'[p] = "write" => encBuf'[ss[p]] = out[p]
    BY <2>1
  <2> QED
    BY <2>1, <2>2
<1>6. ASSUME NEW q \in Reqs, WriteFrame(q) PROVE EncoderInv'
  <2>1. /\ UNCHANGED <<encBuf, ss, out>> /\ ~mine'[q] /\ ss \in [Reqs -> ServerStreams]
        /\ \A p \in Reqs \ {q} : wpc'[p] = wpc[p] /\ mine'[p] = mine[p]
        /\ \A y \in ServerStreams : main[y] => main'[y] \/ (mine[q] /\ y = ss[q])
    BY <1>6 DEF WriteFrame, TypeOK
  <2> QED
    BY <2>1
<1>7. CASE \/ \E s \in Streams : user(s) \/ RecvTimeout(s)
           \/ receiver \/ Close \/ ServerTop \/ ServerEnd \/ DispatchClose \/ DispatchPrivate
           \/ TransportClose \/ UNCHANGED vars
  <2>1. UNCHANGED <<main, encBuf, wpc, ss, out, mine>>
    BY <1>7 DEF user, Send, SendWrite, RecvMsg, RecvClosed, RecvTimeout, receiver, ClientRead,
       ClientDeliver, ClientEnd, Close, ServerTop, ServerEnd, DispatchClose, DispatchPrivate,
       TransportClose, vars, sendVars
  <2> QED
    BY <2>1
<1> QED
  BY <1>1, <1>2, <1>3, <1>4, <1>5, <1>6, <1>7 DEF Next, serverReceiver, handler

(* Different handlers send different messages. *)
LEMMA OutUnique ==
    ASSUME TypeOK, HandlerInv, PrivateInv, NEW p \in Reqs, NEW q \in Reqs,
           wpc[p] # "none", wpc[q] # "none", out[p] = out[q]
    PROVE  p = q
<1>1. KindOf[p] # "private" /\ KindOf[q] # "private" /\ out[p] \in Reqs /\ out[q] \in Reqs
  BY DEF HandlerInv, Handled, TypeOK
<1> QED
  BY <1>1 DEF PrivateInv

(* The frame a handler writes is the message it was to send. *)
LEMMA FrameIsOut ==
    ASSUME TypeOK, EncoderInv, NEW q \in Reqs, wpc[q] = "write"
    PROVE  Frame(q) = out[q] /\ Frame(q) \in Reqs
  BY DEF Frame, EncoderInv, TypeOK

(* Every step keeps the frames written distinct and complete. *)
LEMMA SentStep ==
    ASSUME TypeOK, ComingInv, HandlerInv, PrivateInv, EncoderInv, SentInv, RepliesIntact, [Next]_vars
    PROVE  SentInv' /\ RepliesIntact'
<1> DEFINE Goal == SentInv' /\ RepliesIntact'
<1>0. /\ Distinct(sent) /\ sent \in Seq(Reqs)
      /\ \A q \in Reqs : wpc[q] = "done" /\ KindOf[q] \notin Silent /\ net = "open" => In(out[q], sent)
  BY DEF RepliesIntact, Distinct, In, TypeOK
<1>r. ASSUME Distinct(sent'),
             \A q \in Reqs : wpc'[q] = "done" /\ KindOf[q] \notin Silent /\ net' = "open" => In(out'[q], sent')
      PROVE  RepliesIntact'
  BY <1>r DEF RepliesIntact, Distinct, In
<1>1. ASSUME NEW q \in Reqs, WriteFrame(q) PROVE Goal
  <2>0. /\ wpc[q] = "write" /\ wpc'[q] = "done" /\ \A p \in Reqs \ {q} : wpc'[p] = wpc[p]
        /\ UNCHANGED <<out, net, spc>>
        /\ \/ net = "closed" /\ sent' = sent
           \/ net = "open" /\ sent' = Append(sent, out[q])
    BY <1>1, FrameIsOut DEF WriteFrame, TypeOK, serverVars
  <2>1. out[q] \in Reqs /\ ~In(out[q], sent)
    <3> SUFFICES ASSUME In(out[q], sent) PROVE FALSE
      BY DEF TypeOK
    <3>1. PICK p \in Reqs : wpc[p] = "done" /\ out[p] = out[q]
      BY DEF SentInv, TypeOK
    <3> QED
      BY <2>0, <3>1, OutUnique
  <2>2. CASE sent' = sent /\ net = "closed"
    <3>1. SentInv'
      BY <2>0, <2>2 DEF SentInv
    <3>2. RepliesIntact'
      BY <1>0, <1>r, <2>0, <2>2
    <3> QED
      BY <3>1, <3>2
  <2>3. CASE sent' = Append(sent, out[q])
    <3>1. Distinct(sent') /\ \A r : In(r, sent') <=> (r = out[q] \/ In(r, sent))
      BY <1>0, <2>1, <2>3, AppendFacts
    <3>2. SentInv'
      <4>1. \A r \in Reqs : In(r, sent') => \E p \in Reqs : wpc'[p] = "done" /\ out'[p] = r
        <5> SUFFICES ASSUME NEW r \in Reqs, In(r, sent')
                     PROVE  \E p \in Reqs : wpc'[p] = "done" /\ out'[p] = r
          OBVIOUS
        <5>1. CASE r = out[q]
          BY <2>0, <5>1
        <5>2. CASE In(r, sent)
          <6>1. PICK p \in Reqs : wpc[p] = "done" /\ out[p] = r
            BY <5>2 DEF SentInv
          <6> QED
            BY <2>0, <6>1
        <5> QED
          BY <3>1, <5>1, <5>2
      <4> QED
        BY <2>0, <4>1 DEF SentInv
    <3>3. RepliesIntact'
      BY <1>0, <1>r, <2>0, <3>1
    <3> QED
      BY <3>2, <3>3
  <2> QED
    BY <2>0, <2>2, <2>3
<1>2. ASSUME sent' = sent, net = "closed" => net' = "closed", spc' = "ended" => net' = "closed",
             \A q \in Reqs : wpc[q] = "done" => wpc'[q] = "done" /\ out'[q] = out[q],
             \A q \in Reqs : wpc'[q] = "done" /\ KindOf[q] \notin Silent /\ net' = "open" => wpc[q] = "done"
      PROVE  Goal
  <2>1. SentInv'
    BY <1>2 DEF SentInv
  <2>2. ASSUME NEW q \in Reqs, wpc'[q] = "done", KindOf[q] \notin Silent, net' = "open"
        PROVE  In(out'[q], sent')
    BY <1>0, <1>2, <2>2 DEF TypeOK
  <2>3. RepliesIntact'
    BY <1>0, <1>2, <1>r, <2>2
  <2> QED
    BY <2>1, <2>3
<1>3. ASSUME NEW q \in Reqs, HandlerRecv(q) PROVE Goal
  BY <1>2, <1>3 DEF HandlerRecv, SentInv, TypeOK
<1>4. ASSUME NEW q \in Reqs, HandlerRecvClosed(q) \/ HandlerRecvTimeout(q) PROVE Goal
  BY <1>2, <1>4 DEF HandlerRecvClosed, HandlerRecvTimeout, SentInv, TypeOK, serverVars
<1>5. ASSUME NEW q \in Reqs, TakeEncoder(q) PROVE Goal
  BY <1>2, <1>5 DEF TakeEncoder, SentInv, TypeOK, serverVars
<1>6. ASSUME NEW q \in Reqs, Encode(q) PROVE Goal
  BY <1>2, <1>6 DEF Encode, SentInv, TypeOK, serverVars, Silent
<1>7. CASE DispatchKnown
  <2> PICK x \in Reqs : x = sMsg
    BY <1>7 DEF DispatchKnown, ComingInv, TypeOK
  <2>1. wpc[x] = "none"
    BY <1>7 DEF DispatchKnown, HandlerInv, Coming, Handled
  <2> QED
    BY <1>2, <1>7, <2>1, DispatchedTo DEF DispatchKnown, SentInv, TypeOK
<1>8. CASE DispatchGarbled
  BY <1>2, <1>8 DEF DispatchGarbled, SentInv, TypeOK
<1>9. CASE \/ \E s \in Streams : user(s) \/ RecvTimeout(s)
           \/ receiver \/ Close \/ ServerTop \/ ServerEnd \/ ServerRead \/ DispatchClose
           \/ DispatchPrivate \/ TransportClose \/ UNCHANGED vars
  <2>1. UNCHANGED <<wpc, out, sent>>
    BY <1>9 DEF user, Send, SendWrite, RecvMsg, RecvClosed, RecvTimeout, receiver, ClientRead,
       ClientDeliver, ClientEnd, Close, ServerTop, ServerEnd, ServerRead, DispatchClose,
       DispatchPrivate, TransportClose, vars, sendVars
  <2>2. (net = "closed" => net' = "closed") /\ (spc' = "ended" => net' = "closed")
    BY <1>9 DEF user, Send, SendWrite, RecvMsg, RecvClosed, RecvTimeout, receiver, ClientRead,
       ClientDeliver, ClientEnd, Close, ServerTop, ServerEnd, ServerRead, DispatchClose,
       DispatchPrivate, TransportClose, vars, serverVars, SentInv
  <2> QED
    BY <1>2, <2>1, <2>2
<1> QED
  BY <1>1, <1>3, <1>4, <1>5, <1>6, <1>7, <1>8, <1>9 DEF Next, serverReceiver, handler

(* Every step keeps the types and capacities. *)
LEMMA TypeStep ==
    ASSUME TypeOK, ComingInv, EncoderInv, GenInv, [Next]_vars
    PROVE  TypeOK'
<1>0. /\ None \notin Reqs /\ StreamOf \in [Reqs -> Streams] /\ gen' \in [Streams -> Gens]
      /\ NetCap \in Nat /\ ClientQ \in Nat /\ ServerQ \in Nat
  BY StreamAssumption, GenStep
<1>1. ASSUME NEW s \in Streams, Send(s) PROVE TypeOK'
  <2>1. Head(todo[s]) \in Reqs /\ Tail(todo[s]) \in Seq(Reqs)
    BY <1>1, TailFacts DEF Send, TypeOK
  <2> QED
    BY <1>1, <2>1, ZenonT(30) DEF Send, TypeOK, serverVars, sendVars
<1>2. ASSUME NEW s \in Streams, SendWrite(s) PROVE TypeOK'
  <2> PICK x \in Reqs : x = cur[s]
    BY <1>2 DEF SendWrite, ComingInv
  <2>1. c2s' \in Seq(Reqs) /\ Len(c2s') <= NetCap
    <3>1. Append(c2s, x) \in Seq(Reqs) /\ Len(Append(c2s, x)) = Len(c2s) + 1 /\ Len(c2s) \in Nat
      BY AppendFacts DEF TypeOK
    <3>2. c2s' = c2s \/ (c2s' = Append(c2s, x) /\ Len(c2s) < NetCap)
      BY <1>2 DEF SendWrite
    <3>3. c2s \in Seq(Reqs) /\ Len(c2s) <= NetCap
      BY DEF TypeOK
    <3> QED
      BY <1>0, <3>1, <3>2, <3>3
  <2>2. /\ got' \in [Reqs -> Reqs \cup {"nothing", "error", "timeout"}]
        /\ cpc' \in [Streams -> {"idle", "write", "recv"}] /\ cur' \in [Streams -> Reqs \cup {None}]
    BY <1>2 DEF SendWrite, TypeOK
  <2> QED
    BY <1>2, <2>1, <2>2 DEF SendWrite, TypeOK, serverVars, sendVars
<1>3. ASSUME NEW s \in Streams, RecvMsg(s) PROVE TypeOK'
  <2>1. /\ Head(msgChan[s]) \in Reqs /\ Tail(msgChan[s]) \in Seq(Reqs)
        /\ Len(Tail(msgChan[s])) <= ClientQ
    <3>1. msgChan[s] \in Seq(Reqs) /\ msgChan[s] # <<>> /\ Len(msgChan[s]) <= ClientQ
      BY <1>3 DEF RecvMsg, TypeOK
    <3> QED
      BY <1>0, <3>1, TailFacts
  <2>2. \A t \in Streams : msgChan'[t] \in Seq(Reqs) /\ Len(msgChan'[t]) <= ClientQ
    BY <1>3, <2>1 DEF RecvMsg, TypeOK
  <2> QED
    BY <1>3, <2>1, <2>2 DEF RecvMsg, Return, TypeOK, serverVars, sendVars
<1>4. ASSUME NEW s \in Streams, RecvClosed(s) \/ RecvTimeout(s) PROVE TypeOK'
  BY <1>4 DEF RecvClosed, RecvTimeout, Return, TypeOK, serverVars, sendVars
<1>5. CASE ClientRead
  <2>1. Head(s2c) \in Reqs /\ Tail(s2c) \in Seq(Reqs) /\ Len(Tail(s2c)) <= NetCap
    BY <1>0, <1>5, TailFacts DEF ClientRead, TypeOK
  <2> QED
    BY <1>0, <1>5, <2>1 DEF ClientRead, TypeOK, serverVars, sendVars
<1>6. CASE ClientDeliver
  <2> PICK x \in Reqs : x = inHand
    BY <1>6 DEF ClientDeliver, TypeOK
  <2> DEFINE q == msgChan[StreamOf[x]]
  <2>1. Append(q, x) \in Seq(Reqs) /\ Len(Append(q, x)) <= ClientQ
    BY <1>0, <1>6, AppendFacts DEF ClientDeliver, TypeOK
  <2>2. \A t \in Streams : msgChan'[t] \in Seq(Reqs) /\ Len(msgChan'[t]) <= ClientQ
    BY <1>0, <1>6, <2>1 DEF ClientDeliver, TypeOK
  <2> QED
    BY <1>6, <2>2 DEF ClientDeliver, TypeOK, serverVars, sendVars
<1>7. CASE ClientEnd \/ Close \/ TransportClose \/ UNCHANGED vars
  BY <1>7 DEF ClientEnd, Close, TransportClose, vars, TypeOK, clientVars, serverVars, sendVars
<1>8. CASE ServerTop \/ ServerEnd
  BY <1>8 DEF ServerTop, ServerEnd, TypeOK, clientVars, sendVars
<1>9. CASE ServerRead
  <2> PICK x \in Reqs : x = Head(c2s) /\ Tail(c2s) \in Seq(Reqs) /\ Len(Tail(c2s)) <= NetCap
    BY <1>0, <1>9, TailFacts DEF ServerRead, TypeOK
  <2>1. <<StreamOf[x], gen[StreamOf[x]]>> \in ServerStreams
    BY <1>0 DEF TypeOK, ServerStreams
  <2> QED
    BY <1>9, <2>1 DEF ServerRead, TypeOK, clientVars
<1>10. CASE DispatchClose
  BY <1>0, <1>10 DEF DispatchClose, TypeOK, clientVars, sendVars
<1>11. CASE DispatchGarbled \/ DispatchKnown
  <2>1. CASE DispatchGarbled
    BY <1>11, <2>1 DEF DispatchGarbled, TypeOK, clientVars
  <2>2. CASE DispatchKnown
    <3>1. AfterDispatch[KindOf[sMsg]] \in {"cas", "wait", "done"}
      BY <2>2, DispatchedTo DEF DispatchKnown
    <3> QED
      BY <2>2, <3>1 DEF DispatchKnown, TypeOK, clientVars
  <2> QED
    BY <1>11, <2>1, <2>2
<1>12. CASE DispatchPrivate
  <2> PICK x \in Reqs : x = sMsg
    BY <1>12 DEF DispatchPrivate, ComingInv, TypeOK
  <2> DEFINE q == private[ss[x]]
  <2>1. Append(q, x) \in Seq(Reqs) /\ Len(Append(q, x)) <= ServerQ
    BY <1>0, <1>12, AppendFacts DEF DispatchPrivate, TypeOK
  <2>2. \A y \in ServerStreams : private'[y] \in Seq(Reqs) /\ Len(private'[y]) <= ServerQ
    BY <1>0, <1>12, <2>1 DEF DispatchPrivate, TypeOK
  <2> QED
    BY <1>12, <2>2 DEF DispatchPrivate, TypeOK, clientVars, sendVars
<1>13. ASSUME NEW h \in Reqs, HandlerRecv(h) PROVE TypeOK'
  <2> DEFINE q == private[ss[h]]
  <2>1. Head(q) \in Reqs /\ Tail(q) \in Seq(Reqs) /\ Len(Tail(q)) <= ServerQ
    <3>1. q \in Seq(Reqs) /\ q # <<>> /\ Len(q) <= ServerQ
      BY <1>13 DEF HandlerRecv, TypeOK
    <3> QED
      BY <1>0, <3>1, TailFacts
  <2>2. \A y \in ServerStreams : private'[y] \in Seq(Reqs) /\ Len(private'[y]) <= ServerQ
    BY <1>13, <2>1 DEF HandlerRecv, TypeOK
  <2> QED
    BY <1>13, <2>1, <2>2 DEF HandlerRecv, TypeOK, clientVars
<1>14. ASSUME NEW h \in Reqs, HandlerRecvClosed(h) \/ HandlerRecvTimeout(h) PROVE TypeOK'
  BY <1>14 DEF HandlerRecvClosed, HandlerRecvTimeout, TypeOK, clientVars, serverVars
<1>15. ASSUME NEW h \in Reqs, TakeEncoder(h) PROVE TypeOK'
  BY <1>15, ZenonT(30) DEF TakeEncoder, TypeOK, clientVars, serverVars
<1>16. ASSUME NEW h \in Reqs, Encode(h) PROVE TypeOK'
  BY <1>16 DEF Encode, TypeOK, clientVars, serverVars
<1>17. ASSUME NEW h \in Reqs, WriteFrame(h) PROVE TypeOK'
  <2>1. Frame(h) \in Reqs
    BY <1>17, FrameIsOut DEF WriteFrame
  <2>2. s2c' \in Seq(Reqs) /\ Len(s2c') <= NetCap /\ sent' \in Seq(Reqs)
    <3> DEFINE f == Frame(h)
    <3>1. /\ Append(s2c, f) \in Seq(Reqs) /\ Len(Append(s2c, f)) = Len(s2c) + 1
          /\ Append(sent, f) \in Seq(Reqs) /\ Len(s2c) \in Nat
      BY <2>1, AppendFacts DEF TypeOK
    <3>2. \/ UNCHANGED <<s2c, sent>>
          \/ s2c' = Append(s2c, f) /\ Len(s2c) < NetCap /\ sent' = Append(sent, f)
      BY <1>17 DEF WriteFrame
    <3>3. s2c \in Seq(Reqs) /\ Len(s2c) <= NetCap /\ sent \in Seq(Reqs)
      BY DEF TypeOK
    <3>4. CASE UNCHANGED <<s2c, sent>>
      BY <3>3, <3>4
    <3>5. CASE s2c' = Append(s2c, f) /\ Len(s2c) < NetCap /\ sent' = Append(sent, f)
      <4> HIDE DEF f
      <4> QED
        BY <1>0, <3>1, <3>5
    <3> QED
      BY <3>2, <3>4, <3>5
  <2>3. /\ main' \in [ServerStreams -> BOOLEAN] /\ mine' \in [Reqs -> BOOLEAN]
        /\ wpc' \in [Reqs -> {"none", "wait", "cas", "encode", "write", "done"}]
    BY <1>17 DEF WriteFrame, TypeOK
  <2> QED
    BY <1>17, <2>2, <2>3 DEF WriteFrame, TypeOK, clientVars, serverVars
<1> QED
  BY <1>1, <1>2, <1>3, <1>4, <1>5, <1>6, <1>7, <1>8, <1>9, <1>10, <1>11, <1>12, <1>13, <1>14,
     <1>15, <1>16, <1>17 DEF Next, user, receiver, serverReceiver, handler

-----------------------------------------------------------------------------
(* The initial states satisfy the invariant. *)
LEMMA InitIInv == Init => IInv
<1> SUFFICES ASSUME Init PROVE IInv
  OBVIOUS
<1>0. /\ None \notin Reqs /\ StreamOf \in [Reqs -> Streams] /\ Scripts \subseteq [Streams -> Seq(Reqs)]
      /\ NetCap \in Nat /\ ClientQ \in Nat /\ ServerQ \in Nat /\ IsFiniteSet(Reqs)
  BY StreamAssumption
<1>1. Cardinality(Closes) \in Nat /\ \A s \in Streams : Cardinality(Closed(s)) \in Nat
  <2>1. IsFiniteSet(Closes) /\ \A s \in Streams : IsFiniteSet(Closed(s))
    BY <1>0, FS_Subset DEF Closes, Closed
  <2> QED
    BY <2>1, FS_CardinalityType
<1>2. 0 \in Gens
  BY <1>1 DEF Gens, Closes
<1>3. todo \in [Streams -> Seq(Reqs)]
  BY <1>0 DEF Init
<1>4. \A s \in Streams : Distinct(todo[s]) /\ \A i \in 1..Len(todo[s]) : StreamOf[todo[s][i]] = s
  <2> SUFFICES ASSUME NEW s \in Streams
               PROVE  Distinct(todo[s]) /\ \A i \in 1..Len(todo[s]) : StreamOf[todo[s][i]] = s
    OBVIOUS
  <2>1. IsInjective(todo[s]) /\ \A i \in 1..Len(todo[s]) : StreamOf[todo[s][i]] = s
    BY StreamAssumption DEF Init
  <2>2. DOMAIN todo[s] = 1..Len(todo[s])
    BY <1>3
  <2> QED
    BY <2>1, <2>2 DEF IsInjective, Distinct
<1>5. TypeOK
  <2>1. ss \in [Reqs -> ServerStreams]
    BY <1>0, <1>2 DEF Init, ServerStreams
  <2>2. gen \in [Streams -> Gens]
    BY <1>2 DEF Init
  <2>3. <<>> \in Seq(Reqs) /\ Len(<<>>) = 0
    OBVIOUS
  <2>4. /\ \A s \in Streams : Len(msgChan[s]) <= ClientQ
        /\ \A x \in ServerStreams : Len(private[x]) <= ServerQ
        /\ Len(c2s) <= NetCap /\ Len(s2c) <= NetCap
    BY <1>0, <2>3 DEF Init
  <2>5. /\ msgChan \in [Streams -> Seq(Reqs)] /\ private \in [ServerStreams -> Seq(Reqs)]
        /\ c2s \in Seq(Reqs) /\ s2c \in Seq(Reqs) /\ sent \in Seq(Reqs)
    BY <2>3 DEF Init
  <2>6. /\ eof \in [Streams -> BOOLEAN] /\ main \in [ServerStreams -> BOOLEAN]
        /\ mine \in [Reqs -> BOOLEAN] /\ toNil \in BOOLEAN /\ cEnded \in BOOLEAN
        /\ stClosed \in BOOLEAN
    BY DEF Init
  <2>7. /\ cur \in [Streams -> Reqs \cup {None}] /\ cpc \in [Streams -> {"idle", "write", "recv"}]
        /\ got \in [Reqs -> Reqs \cup {"nothing", "error", "timeout"}]
        /\ encBuf \in [ServerStreams -> Reqs \cup {None}] /\ out \in [Reqs -> Reqs]
        /\ wpc \in [Reqs -> {"none", "wait", "cas", "encode", "write", "done"}]
    BY DEF Init
  <2>8. /\ inHand \in Reqs \cup {None} /\ net \in {"open", "closed"}
        /\ spc \in {"top", "read", "dispatch", "ended"} /\ sMsg \in Reqs \cup {None}
    BY DEF Init
  <2> QED
    BY <1>3, <2>1, <2>2, <2>4, <2>5, <2>6, <2>7, <2>8 DEF TypeOK
<1>6. \A r : ~In(r, <<>>)
  BY DEF In
<1>7. Distinct(<<>>)
  BY DEF Distinct
<1>8. ComingInv
  BY <1>4, <1>6, <1>7 DEF Init, ComingInv, Writing, In
<1>9. HandlerInv /\ EncoderInv
  BY DEF Init, HandlerInv, EncoderInv
<1>10. PrivateInv
  BY <1>6, <1>7 DEF Init, PrivateInv
<1>11. SentInv /\ RepliesIntact
  BY <1>6 DEF Init, SentInv, RepliesIntact
<1>12. GenInv
  BY <1>1 DEF Init, GenInv
<1> QED
  BY <1>5, <1>8, <1>9, <1>10, <1>11, <1>12 DEF IInv

(* Every step preserves the invariant. *)
LEMMA NextIInv == IInv /\ [Next]_vars => IInv'
  BY ComingStep, HandlerStep, PrivateStep, EncoderStep, SentStep, GenStep, TypeStep DEF IInv

(* IInv is an invariant of the connection. *)
THEOREM SpecIInv == Spec => []IInv
  BY InitIInv, NextIInv, PTL DEF Spec

(* The connection's variables keep their types and no queue exceeds its capacity:
   the socket's buffers, the client's msgChan and the server's privateChan.  *)
THEOREM SpecTypeOK == Spec => []TypeOK
<1>1. IInv => TypeOK
  BY DEF IInv
<1> QED
  BY <1>1, SpecIInv, PTL

(* However many handlers of one server stream reply at once, sharing its encoder
   (streamServerStream.Send), no reply is written twice or in place of another,
   and none is missing while the connection lasts.                          *)
THEOREM SpecRepliesIntact == Spec => []RepliesIntact
<1>1. IInv => RepliesIntact
  BY DEF IInv
<1> QED
  BY <1>1, SpecIInv, PTL

-----------------------------------------------------------------------------
(* The client's side.                                                      *)

(* What the user has not written yet is nowhere on the server. *)
LEMMA NotWritten ==
    ASSUME IInv, NEW r \in Reqs, In(r, todo[StreamOf[r]]) \/ Writing(r)
    PROVE  ~Written(r)
<1>1. Coming(r) /\ ~In(r, c2s) /\ sMsg # r
  <2>1. ~In(r, c2s)
    BY DEF IInv, ComingInv
  <2>2. sMsg # r
    BY StreamAssumption DEF IInv, ComingInv
  <2> QED
    BY <2>1, <2>2 DEF Coming
<1>2. wpc[r] = "none"
  BY <1>1 DEF IInv, HandlerInv
<1>3. \A q \in Reqs : q # r => out[q] # r
  BY <1>1 DEF IInv, PrivateInv
<1>4. \A x \in ServerStreams : ~In(r, private[x])
  BY <1>1 DEF IInv, PrivateInv
<1>5. ~In(r, sent)
  <2> SUFFICES ASSUME In(r, sent) PROVE FALSE
    OBVIOUS
  <2>1. PICK q \in Reqs : wpc[q] = "done" /\ out[q] = r
    BY DEF IInv, SentInv
  <2> QED
    BY <1>2, <1>3, <2>1
<1> QED
  BY <1>1, <1>2, <1>3, <1>4, <1>5 DEF Written

(* Only the user's write brings a message to the server. *)
LEMMA WrittenStep ==
    ASSUME IInv, [Next]_vars
    PROVE  \A r \in Reqs : Written(r)' =>
             \/ Written(r)
             \/ \E s \in Streams : SendWrite(s) /\ net # "closed" /\ cur[s] = r
<1> USE DEF IInv
<1>0. /\ None \notin Reqs /\ TypeOK
  BY StreamAssumption
<1>1. ASSUME NEW s \in Streams, SendWrite(s), net # "closed", NEW r \in Reqs, Written(r)', ~Written(r)
      PROVE  cur[s] = r
  <2>1. /\ c2s \in Seq(Reqs) /\ cur[s] \in Reqs /\ c2s' = Append(c2s, cur[s])
        /\ UNCHANGED <<sMsg, wpc, sent, private, out>>
    BY <1>0, <1>1 DEF SendWrite, serverVars, sendVars, TypeOK, ComingInv
  <2>2. In(r, c2s') => In(r, c2s) \/ r = cur[s]
    BY <2>1, AppendFacts
  <2> QED
    BY <1>1, <2>1, <2>2 DEF Written
<1>2. ASSUME UNCHANGED <<c2s, sMsg, wpc, sent, private, out>>, NEW r \in Reqs, Written(r)' PROVE Written(r)
  BY <1>2 DEF Written
<1>3. ASSUME NEW s \in Streams,
             Send(s) \/ (SendWrite(s) /\ net = "closed") \/ RecvMsg(s) \/ RecvClosed(s) \/ RecvTimeout(s)
      PROVE  UNCHANGED <<c2s, sMsg, wpc, sent, private, out>>
  BY <1>3 DEF Send, SendWrite, RecvMsg, RecvClosed, RecvTimeout, serverVars, sendVars
<1>4. ASSUME receiver \/ Close \/ TransportClose \/ ServerTop \/ ServerEnd \/ DispatchClose \/ UNCHANGED vars,
             NEW r \in Reqs, Written(r)'
      PROVE  Written(r)
  <2>1. UNCHANGED <<c2s, wpc, sent, private, out>> /\ (sMsg' = sMsg \/ sMsg' = None)
    BY <1>4 DEF receiver, ClientRead, ClientDeliver, ClientEnd, Close, TransportClose, ServerTop,
       ServerEnd, DispatchClose, vars, serverVars, sendVars
  <2> QED
    BY <1>0, <1>4, <2>1 DEF Written
<1>5. ASSUME ServerRead, NEW r \in Reqs, Written(r)' PROVE Written(r)
  <2>1. /\ c2s \in Seq(Reqs) /\ c2s # <<>> /\ c2s' = Tail(c2s) /\ sMsg' = Head(c2s)
        /\ UNCHANGED <<wpc, sent, private, out>>
    BY <1>0, <1>5 DEF ServerRead, TypeOK
  <2>2. In(r, c2s') \/ sMsg' = r => In(r, c2s)
    BY <2>1, TailFacts
  <2> QED
    BY <1>5, <2>1, <2>2 DEF Written
<1>6. ASSUME DispatchGarbled \/ DispatchKnown, NEW r \in Reqs, Written(r)' PROVE Written(r)
  <2>1. /\ UNCHANGED <<c2s, sent, private, out>> /\ (sMsg' = sMsg \/ sMsg' = None)
        /\ r # sMsg => wpc'[r] = wpc[r]
    BY <1>0, <1>6 DEF DispatchGarbled, DispatchKnown, TypeOK
  <2> QED
    BY <1>0, <1>6, <2>1 DEF Written
<1>7. ASSUME DispatchPrivate, NEW r \in Reqs, Written(r)' PROVE Written(r)
  <2>1. /\ UNCHANGED <<c2s, sent, wpc, out>> /\ sMsg' = None /\ sMsg \in Reqs
        /\ ss[sMsg] \in ServerStreams /\ private[ss[sMsg]] \in Seq(Reqs)
        /\ private'[ss[sMsg]] = Append(private[ss[sMsg]], sMsg)
        /\ \A x \in ServerStreams \ {ss[sMsg]} : private'[x] = private[x]
    BY <1>0, <1>7 DEF DispatchPrivate, TypeOK, ComingInv, sendVars
  <2>2. \A x \in ServerStreams : In(r, private'[x]) => In(r, private[x]) \/ r = sMsg
    <3> SUFFICES ASSUME NEW x \in ServerStreams, In(r, private'[x]) PROVE In(r, private[x]) \/ r = sMsg
      OBVIOUS
    <3>1. CASE x = ss[sMsg]
      <4>1. \A q : In(q, Append(private[ss[sMsg]], sMsg)) => In(q, private[ss[sMsg]]) \/ q = sMsg
        BY <2>1, AppendFacts
      <4> QED
        BY <2>1, <3>1, <4>1
    <3>2. CASE x # ss[sMsg]
      BY <2>1, <3>2
    <3> QED
      BY <3>1, <3>2
  <2> QED
    BY <1>0, <1>7, <2>1, <2>2 DEF Written
<1>8. ASSUME NEW q \in Reqs, HandlerRecv(q), NEW r \in Reqs, Written(r)' PROVE Written(r)
  <2>1. /\ UNCHANGED <<c2s, sMsg, sent>> /\ wpc[q] = "wait" /\ \A p \in Reqs \ {q} : wpc'[p] = wpc[p]
        /\ ss[q] \in ServerStreams /\ private[ss[q]] \in Seq(Reqs) /\ private[ss[q]] # <<>>
        /\ private'[ss[q]] = Tail(private[ss[q]])
        /\ \A x \in ServerStreams \ {ss[q]} : private'[x] = private[x]
        /\ out'[q] = Head(private[ss[q]]) /\ \A p \in Reqs \ {q} : out'[p] = out[p]
    BY <1>0, <1>8 DEF HandlerRecv, TypeOK
  <2>2. /\ In(Head(private[ss[q]]), private[ss[q]])
        /\ \A x \in ServerStreams : In(r, private'[x]) => In(r, private[x])
    BY <2>1, TailFacts
  <2>3. wpc'[r] # "none" => wpc[r] # "none"
    BY <2>1
  <2>4. ASSUME NEW p \in Reqs, p # r, out'[p] = r PROVE Written(r)
    BY <2>1, <2>2, <2>4 DEF Written
  <2> QED
    BY <1>8, <2>1, <2>2, <2>3, <2>4 DEF Written
<1>9. ASSUME NEW q \in Reqs, HandlerRecvClosed(q) \/ HandlerRecvTimeout(q) \/ TakeEncoder(q) \/ Encode(q), NEW r \in Reqs, Written(r)'
      PROVE  Written(r)
  <2>1. /\ UNCHANGED <<c2s, sMsg, sent, private, out>> /\ wpc[q] # "none"
        /\ \A p \in Reqs \ {q} : wpc'[p] = wpc[p]
    BY <1>0, <1>9 DEF HandlerRecvClosed, HandlerRecvTimeout, TakeEncoder, Encode, TypeOK, serverVars
  <2> QED
    BY <1>9, <2>1 DEF Written
<1>10. ASSUME NEW q \in Reqs, WriteFrame(q), NEW r \in Reqs, Written(r)' PROVE Written(r)
  <2>1. /\ UNCHANGED <<c2s, sMsg, private, out>> /\ wpc[q] = "write" /\ out[q] \in Reqs /\ sent \in Seq(Reqs)
        /\ \A p \in Reqs \ {q} : wpc'[p] = wpc[p]
        /\ sent' = sent \/ sent' = Append(sent, out[q])
    BY <1>0, <1>10, FrameIsOut DEF WriteFrame, TypeOK, serverVars
  <2>2. In(r, sent') => In(r, sent) \/ r = out[q]
    BY <2>1, AppendFacts
  <2>3. out[q] = r => Written(r)
    BY <2>1 DEF Written
  <2> QED
    BY <1>10, <2>1, <2>2, <2>3 DEF Written
<1> QED
  BY <1>1, <1>2, <1>3, <1>4, <1>5, <1>6, <1>7, <1>8, <1>9, <1>10 DEF Next, user, serverReceiver, handler

(* Every step that is not a user's leaves the calls alone. *)
LEMMA OthersFrame ==
    ASSUME receiver \/ Close \/ serverReceiver \/ TransportClose \/ (\E q \in Reqs : handler(q) \/ HandlerRecvTimeout(q)) \/ UNCHANGED vars
    PROVE  UNCHANGED <<todo, cur, cpc, got>>
  BY DEF receiver, ClientRead, ClientDeliver, ClientEnd, Close, serverReceiver, ServerTop, ServerEnd,
     ServerRead, DispatchClose, DispatchGarbled, DispatchKnown, DispatchPrivate, TransportClose, handler,
     HandlerRecv, HandlerRecvClosed, HandlerRecvTimeout, TakeEncoder, Encode, WriteFrame, vars, clientVars

(* Every step keeps a user to one call, and what a call has returned. *)
LEMMA CallStep ==
    ASSUME IInv, CallInv, [Next]_vars
    PROVE  CallInv' /\ \A r \in Reqs : got[r] # "nothing" => got'[r] = got[r]
<1> DEFINE Goal == CallInv' /\ \A r \in Reqs : got[r] # "nothing" => got'[r] = got[r]
<1> USE DEF IInv
<1>0. None \notin Reqs /\ StreamOf \in [Reqs -> Streams]
  BY StreamAssumption
<1>e. (cEnded => net = "closed")'
  BY DEF CallInv, Next, user, Send, SendWrite, RecvMsg, RecvClosed, RecvTimeout, receiver, ClientRead,
     ClientDeliver, ClientEnd, Close, serverReceiver, ServerTop, ServerEnd,
     ServerRead, DispatchClose, DispatchGarbled, DispatchKnown, DispatchPrivate, TransportClose, handler,
     HandlerRecv, HandlerRecvClosed, HandlerRecvTimeout, TakeEncoder, Encode, WriteFrame, vars, clientVars
<1>1. ASSUME NEW s \in Streams, Send(s) PROVE Goal
  <2> DEFINE h == Head(todo[s])
  <2>0. /\ todo[s] \in Seq(Reqs) /\ todo[s] # <<>> /\ cpc[s] = "idle"
        /\ todo'[s] = Tail(todo[s]) /\ \A t \in Streams \ {s} : todo'[t] = todo[t]
        /\ \A t \in Streams \ {s} : cpc'[t] = cpc[t] /\ cur'[t] = cur[t]
        /\ \A r \in Reqs \ {h} : got'[r] = got[r]
        /\ \/ cpc'[s] = "idle"
           \/ cur'[s] = h /\ got' = got
    BY <1>1 DEF Send, TypeOK
  <2>1. /\ h \in Reqs /\ \A r : In(r, todo[s]) <=> (r = h \/ In(r, todo'[s]))
        /\ ~In(h, todo'[s])
    BY <2>0, TailFacts DEF ComingInv
  <2>2. StreamOf[h] = s /\ got[h] = "nothing"
    BY <2>1 DEF ComingInv, CallInv
  <2> HIDE DEF h
  <2>3. ASSUME NEW r \in Reqs, In(r, todo'[StreamOf[r]]) PROVE got'[r] = "nothing"
    <3>1. In(r, todo[StreamOf[r]]) /\ r # h
      BY <1>0, <2>0, <2>1, <2>2, <2>3
    <3> QED
      BY <2>0, <3>1 DEF CallInv
  <2>4. ASSUME NEW t \in Streams, cpc'[t] # "idle"
        PROVE  cur'[t] \in Reqs /\ StreamOf[cur'[t]] = t /\ ~In(cur'[t], todo'[t]) /\ got'[cur'[t]] = "nothing"
    <3>1. CASE t = s
      BY <2>0, <2>1, <2>2, <2>4, <3>1
    <3>2. CASE t # s
      <4>1. cur[t] \in Reqs /\ StreamOf[cur[t]] = t /\ ~In(cur[t], todo[t]) /\ got[cur[t]] = "nothing"
        BY <2>0, <2>4, <3>2 DEF CallInv
      <4> QED
        BY <2>0, <2>2, <3>2, <4>1
    <3> QED
      BY <3>1, <3>2
  <2>5. CallInv'
    BY <1>e, <2>3, <2>4 DEF CallInv
  <2> QED
    BY <2>0, <2>2, <2>5
<1>2. ASSUME NEW s \in Streams, SendWrite(s) \/ RecvMsg(s) \/ RecvClosed(s) \/ RecvTimeout(s) PROVE Goal
  <2>0. /\ cpc[s] # "idle" /\ UNCHANGED todo
        /\ \A t \in Streams \ {s} : cpc'[t] = cpc[t] /\ cur'[t] = cur[t]
        /\ \A r \in Reqs \ {cur[s]} : got'[r] = got[r]
        /\ \/ cpc'[s] = "idle"
           \/ cur'[s] = cur[s] /\ got' = got
    BY <1>2 DEF SendWrite, RecvMsg, RecvClosed, RecvTimeout, Return, TypeOK
  <2>1. cur[s] \in Reqs /\ StreamOf[cur[s]] = s /\ ~In(cur[s], todo[s]) /\ got[cur[s]] = "nothing"
    BY <2>0 DEF CallInv
  <2>2. ASSUME NEW t \in Streams, cpc'[t] # "idle"
        PROVE  cur'[t] \in Reqs /\ StreamOf[cur'[t]] = t /\ ~In(cur'[t], todo'[t]) /\ got'[cur'[t]] = "nothing"
    <3>1. CASE t = s
      BY <2>0, <2>1, <2>2, <3>1
    <3>2. CASE t # s
      <4>1. cur[t] \in Reqs /\ StreamOf[cur[t]] = t /\ ~In(cur[t], todo[t]) /\ got[cur[t]] = "nothing"
        BY <2>0, <2>2, <3>2 DEF CallInv
      <4> QED
        BY <2>0, <2>1, <3>2, <4>1
    <3> QED
      BY <3>1, <3>2
  <2>3. ASSUME NEW r \in Reqs, In(r, todo'[StreamOf[r]]) PROVE got'[r] = "nothing"
    <3>1. r # cur[s] /\ got[r] = "nothing"
      BY <2>0, <2>1, <2>3 DEF CallInv
    <3> QED
      BY <2>0, <3>1
  <2>4. CallInv'
    BY <1>e, <2>2, <2>3 DEF CallInv
  <2> QED
    BY <2>0, <2>1, <2>4
<1>3. ASSUME UNCHANGED <<todo, cur, cpc, got>> PROVE Goal
  <2>1. CallInv'
    BY <1>3, <1>e DEF CallInv
  <2> QED
    BY <1>3, <2>1
<1> QED
  BY <1>1, <1>2, <1>3, OthersFrame DEF Next, user

(* A frame that is about to be written has not been written before. *)
LEMMA FreshFrame ==
    ASSUME IInv, NEW q \in Reqs, wpc[q] = "write"
    PROVE  out[q] \in Reqs /\ ~In(out[q], sent)
<1>1. out[q] \in Reqs
  BY DEF IInv, TypeOK
<1>2. ASSUME In(out[q], sent) PROVE FALSE
  <2>1. PICK p \in Reqs : wpc[p] = "done" /\ out[p] = out[q]
    BY <1>1, <1>2 DEF IInv, SentInv
  <2> QED
    BY <2>1, OutUnique DEF IInv
<1> QED
  BY <1>1, <1>2

(* Every step keeps replies in one place until a call returns them. *)
LEMMA DeliverStep ==
    ASSUME IInv, CallInv, DeliverInv, [Next]_vars
    PROVE  DeliverInv'
<1>0. /\ None \notin Reqs /\ StreamOf \in [Reqs -> Streams] /\ {"nothing", "error", "timeout"} \cap Reqs = {}
      /\ TypeOK
  BY StreamAssumption DEF IInv
<1>a. /\ s2c \in Seq(Reqs) /\ sent \in Seq(Reqs) /\ inHand \in Reqs \cup {None}
      /\ \A s \in Streams : msgChan[s] \in Seq(Reqs)
  BY <1>0 DEF TypeOK
<1>1. ASSUME UNCHANGED <<s2c, inHand, msgChan, sent>>,
             \A q \in Reqs : got'[q] \in Reqs => got'[q] = got[q]
      PROVE  DeliverInv'
  <2>1. \A r \in Reqs : Arriving(r)' <=> Arriving(r)
    BY <1>1 DEF Arriving
  <2> QED
    BY <1>1, <2>1 DEF DeliverInv
<1>2. ASSUME NEW s \in Streams, Send(s) \/ SendWrite(s) \/ RecvClosed(s) \/ RecvTimeout(s) PROVE DeliverInv'
  <2>1. UNCHANGED <<s2c, inHand, msgChan, sent>>
    BY <1>2 DEF Send, SendWrite, RecvClosed, RecvTimeout, sendVars
  <2>2. \A q \in Reqs : got'[q] = got[q] \/ got'[q] \in {"error", "timeout"}
    BY <1>0, <1>2 DEF Send, SendWrite, RecvClosed, RecvTimeout, Return, TypeOK
  <2> QED
    BY <1>0, <1>1, <2>1, <2>2
<1>3. ASSUME NEW s \in Streams, RecvMsg(s) PROVE DeliverInv'
  <2>0. msgChan[s] # <<>>
    BY <1>3 DEF RecvMsg
  <2> PICK h \in Reqs : h = Head(msgChan[s])
    BY <1>a, <2>0, TailFacts
  <2>1. /\ cur[s] \in Reqs /\ StreamOf[cur[s]] = s /\ msgChan[s] # <<>>
        /\ UNCHANGED <<s2c, inHand, sent>>
        /\ got'[cur[s]] = h /\ \A q \in Reqs \ {cur[s]} : got'[q] = got[q]
        /\ msgChan'[s] = Tail(msgChan[s]) /\ \A t \in Streams \ {s} : msgChan'[t] = msgChan[t]
    BY <1>0, <1>3 DEF RecvMsg, Return, TypeOK, CallInv, sendVars
  <2>2. /\ \A r : In(r, msgChan[s]) <=> (r = h \/ In(r, msgChan'[s]))
        /\ Distinct(msgChan'[s]) /\ ~In(h, msgChan'[s])
    BY <1>a, <2>1, TailFacts DEF DeliverInv
  <2>3. StreamOf[h] = s /\ ~In(h, s2c) /\ inHand # h /\ In(h, sent)
    BY <2>2 DEF DeliverInv, Arriving
  <2>4. \A t \in Streams, r \in Reqs : In(r, msgChan'[t]) => In(r, msgChan[t])
    BY <2>1, <2>2
  <2>5. \A r \in Reqs : Arriving(r)' => Arriving(r)
    BY <2>1, <2>4 DEF Arriving
  <2>6. ~Arriving(h)'
    <3>1. \A t \in Streams : ~In(h, msgChan'[t])
      BY <2>1, <2>2, <2>3 DEF DeliverInv
    <3> QED
      BY <2>1, <2>3, <3>1 DEF Arriving
  <2>7. ASSUME NEW q \in Reqs, NEW r \in Reqs, got'[q] = r
        PROVE  In(r, sent') /\ ~Arriving(r)' /\ StreamOf[r] = StreamOf[q]
    <3>1. CASE q = cur[s]
      BY <2>1, <2>3, <2>6, <2>7, <3>1
    <3>2. CASE q # cur[s]
      <4>1. got[q] = r
        BY <2>1, <2>7, <3>2
      <4> QED
        BY <2>1, <2>5, <4>1 DEF DeliverInv
    <3> QED
      BY <3>1, <3>2
  <2>8. \A t \in Streams : Distinct(msgChan'[t])
    BY <2>1, <2>2 DEF DeliverInv
  <2> QED
    BY <2>1, <2>4, <2>5, <2>7, <2>8 DEF DeliverInv
<1>4. CASE ClientRead
  <2>1. /\ s2c # <<>> /\ inHand = None /\ inHand' = Head(s2c) /\ s2c' = Tail(s2c)
        /\ UNCHANGED <<msgChan, got, sent>>
    BY <1>4 DEF ClientRead, sendVars
  <2>2. /\ inHand' \in Reqs /\ \A r : In(r, s2c) <=> (r = inHand' \/ In(r, s2c'))
        /\ Distinct(s2c') /\ ~In(inHand', s2c')
    BY <1>a, <2>1, TailFacts DEF DeliverInv
  <2>3. \A r \in Reqs : Arriving(r)' <=> Arriving(r)
    BY <1>0, <2>1, <2>2 DEF Arriving
  <2>4. \A s \in Streams, r \in Reqs : In(r, msgChan'[s]) => StreamOf[r] = s /\ ~In(r, s2c') /\ inHand' # r
    BY <2>1, <2>2 DEF DeliverInv
  <2>5. \A q, r \in Reqs : got'[q] = r => In(r, sent') /\ ~Arriving(r)' /\ StreamOf[r] = StreamOf[q]
    BY <2>1, <2>3 DEF DeliverInv
  <2> QED
    BY <2>1, <2>2, <2>3, <2>4, <2>5 DEF DeliverInv
<1>5. CASE ClientDeliver
  <2> PICK x \in Reqs : x = inHand
    BY <1>5, <1>a DEF ClientDeliver
  <2> DEFINE t == StreamOf[x]
  <2>1. /\ t \in Streams /\ inHand' = None /\ msgChan'[t] = Append(msgChan[t], x)
        /\ \A s \in Streams \ {t} : msgChan'[s] = msgChan[s]
        /\ UNCHANGED <<s2c, got, sent>>
    BY <1>0, <1>5 DEF ClientDeliver, TypeOK, sendVars
  <2>2. ~In(x, s2c) /\ \A s \in Streams : ~In(x, msgChan[s])
    BY <1>0 DEF DeliverInv
  <2> HIDE DEF t
  <2>3. /\ \A r : In(r, msgChan'[t]) <=> (r = x \/ In(r, msgChan[t]))
        /\ Distinct(msgChan'[t])
    <3>1. msgChan[t] \in Seq(Reqs) /\ Distinct(msgChan[t]) /\ ~In(x, msgChan[t])
      BY <1>a, <2>1, <2>2 DEF DeliverInv
    <3> QED
      BY <2>1, <3>1, AppendFacts
  <2>4. \A s \in Streams, r \in Reqs : In(r, msgChan'[s]) => In(r, msgChan[s]) \/ (r = x /\ s = t)
    BY <2>1, <2>3
  <2>5. \A r \in Reqs : Arriving(r)' => Arriving(r)
    BY <1>0, <2>1, <2>4 DEF Arriving
  <2>6. \A s \in Streams, r \in Reqs : In(r, msgChan'[s]) => StreamOf[r] = s /\ ~In(r, s2c') /\ inHand' # r
    BY <1>0, <2>1, <2>2, <2>4 DEF DeliverInv, t
  <2>7. \A q, r \in Reqs : got'[q] = r => In(r, sent') /\ ~Arriving(r)' /\ StreamOf[r] = StreamOf[q]
    BY <2>1, <2>5 DEF DeliverInv
  <2>8. \A s \in Streams : Distinct(msgChan'[s])
    BY <2>1, <2>3 DEF DeliverInv
  <2>9. \A r \in Reqs : Arriving(r)' => In(r, sent')
    BY <2>1, <2>5 DEF DeliverInv
  <2>10. Distinct(s2c') /\ (inHand' # None => ~In(inHand', s2c'))
    BY <2>1 DEF DeliverInv
  <2> QED
    BY <2>6, <2>7, <2>8, <2>9, <2>10 DEF DeliverInv
<1>6. ASSUME NEW p \in Reqs, WriteFrame(p) PROVE DeliverInv'
  <2> PICK x \in Reqs : x = out[p] /\ ~In(x, sent)
    BY <1>6, FreshFrame DEF WriteFrame
  <2>1. /\ UNCHANGED <<msgChan, inHand, got>>
        /\ \/ UNCHANGED <<s2c, sent>>
           \/ s2c' = Append(s2c, x) /\ sent' = Append(sent, x)
    BY <1>6, FrameIsOut DEF WriteFrame, clientVars, IInv
  <2>2. CASE UNCHANGED <<s2c, sent>>
    BY <1>1, <2>1, <2>2
  <2>3. CASE s2c' = Append(s2c, x) /\ sent' = Append(sent, x)
    <3>1. ~Arriving(x) /\ \A q \in Reqs : got[q] # x
      BY DEF DeliverInv
    <3>2. /\ \A r : In(r, s2c') <=> (r = x \/ In(r, s2c))
          /\ \A r : In(r, sent') <=> (r = x \/ In(r, sent))
          /\ Distinct(s2c')
      <4>1. ~In(x, s2c) /\ Distinct(s2c)
        BY <3>1 DEF Arriving, DeliverInv
      <4> QED
        BY <1>a, <2>3, <4>1, AppendFacts
    <3>3. \A r \in Reqs : Arriving(r)' <=> Arriving(r) \/ r = x
      BY <2>1, <3>2 DEF Arriving
    <3>4. inHand' # None => ~In(inHand', s2c')
      BY <1>a, <2>1, <3>1, <3>2 DEF DeliverInv, Arriving
    <3>5. \A s \in Streams, r \in Reqs : In(r, msgChan'[s]) => StreamOf[r] = s /\ ~In(r, s2c') /\ inHand' # r
      BY <2>1, <3>1, <3>2 DEF DeliverInv, Arriving
    <3>6. \A q, r \in Reqs : got'[q] = r => In(r, sent') /\ ~Arriving(r)' /\ StreamOf[r] = StreamOf[q]
      BY <2>1, <3>1, <3>2, <3>3 DEF DeliverInv
    <3>7. \A r \in Reqs : Arriving(r)' => In(r, sent')
      BY <3>2, <3>3 DEF DeliverInv
    <3>8. \A s \in Streams : Distinct(msgChan'[s])
      BY <2>1 DEF DeliverInv
    <3> QED
      BY <3>2, <3>4, <3>5, <3>6, <3>7, <3>8 DEF DeliverInv
  <2> QED
    BY <2>1, <2>2, <2>3
<1>7. CASE \/ ClientEnd \/ Close \/ serverReceiver \/ TransportClose \/ UNCHANGED vars
           \/ \E q \in Reqs : HandlerRecv(q) \/ HandlerRecvClosed(q) \/ HandlerRecvTimeout(q) \/ TakeEncoder(q) \/ Encode(q)
  <2>1. UNCHANGED <<s2c, inHand, msgChan, sent, got>>
    BY <1>7 DEF ClientEnd, Close, serverReceiver, ServerTop, ServerEnd, ServerRead, DispatchClose,
       DispatchGarbled, DispatchKnown, DispatchPrivate, TransportClose, HandlerRecv, HandlerRecvClosed, HandlerRecvTimeout,
       TakeEncoder, Encode, vars, clientVars, sendVars
  <2> QED
    BY <1>1, <2>1
<1> QED
  BY <1>2, <1>3, <1>4, <1>5, <1>6, <1>7 DEF Next, user, receiver, handler

(* Every step keeps written messages awaited, or their streams' users away. *)
LEMMA AwaitStep ==
    ASSUME IInv, IInv', CallInv, CallInv', AwaitInv, [Next]_vars
    PROVE  AwaitInv'
<1>0. /\ StreamOf \in [Reqs -> Streams] /\ TypeOK /\ TypeOK' /\ "nothing" \notin Reqs
      /\ \A r \in Reqs : got[r] # "nothing" => got'[r] = got[r]
  BY StreamAssumption, CallStep DEF IInv
<1>t. /\ todo \in [Streams -> Seq(Reqs)] /\ cur \in [Streams -> Reqs \cup {None}]
      /\ cpc \in [Streams -> {"idle", "write", "recv"}]
      /\ got \in [Reqs -> Reqs \cup {"nothing", "error", "timeout"}]
  BY <1>0 DEF TypeOK
<1> SUFFICES ASSUME NEW r \in Reqs, Written(r)', r \notin OneWay, got'[r] \notin Reqs, got'[r] # "timeout"
             PROVE  \/ cpc'[StreamOf[r]] = "recv" /\ cur'[StreamOf[r]] = r
                    \/ got'[r] = "error" /\ cEnded' /\ cpc'[StreamOf[r]] # "recv"
  BY DEF AwaitInv
<1> DEFINE s == StreamOf[r]
<1>1. ASSUME NEW t \in Streams, SendWrite(t), net # "closed", cur[t] = r
      PROVE  cpc'[s] = "recv" /\ cur'[s] = r
  <2>1. cpc[t] = "write" /\ cpc'[t] = "recv" /\ cur'[t] = r
    BY <1>0, <1>1 DEF SendWrite, TypeOK
  <2>2. s = t
    BY <1>1, <2>1 DEF CallInv
  <2> QED
    BY <2>1, <2>2
<1>2. CASE Written(r)
  <2>1. \/ cpc[s] = "recv" /\ cur[s] = r
        \/ got[r] = "error" /\ cEnded /\ cpc[s] # "recv"
    BY <1>0, <1>2 DEF AwaitInv
  <2>c. cEnded => cEnded' /\ net = "closed"
    BY DEF CallInv, Next, user, Send, SendWrite, RecvMsg, RecvClosed, RecvTimeout, receiver, ClientRead,
     ClientDeliver, ClientEnd, Close, serverReceiver, ServerTop, ServerEnd,
     ServerRead, DispatchClose, DispatchGarbled, DispatchKnown, DispatchPrivate, TransportClose, handler,
     HandlerRecv, HandlerRecvClosed, HandlerRecvTimeout, TakeEncoder, Encode, WriteFrame, vars, clientVars
  <2>2. CASE UNCHANGED <<cur, cpc, got>>
    BY <2>1, <2>2, <2>c
  <2>3. ASSUME NEW t \in Streams, user(t) \/ RecvTimeout(t), t # s, got'[r] = got[r]
        PROVE  cur'[s] = cur[s] /\ cpc'[s] = cpc[s]
    <3>1. s \in Streams
      BY <1>0
    <3> HIDE DEF s
    <3>2. \/ UNCHANGED <<cur, cpc>>
          \/ \E x, y : cur' = [cur EXCEPT ![t] = x] /\ cpc' = [cpc EXCEPT ![t] = y]
      BY <2>3 DEF user, Send, SendWrite, RecvMsg, RecvClosed, RecvTimeout, Return
    <3> QED
      BY <1>t, <2>3, <3>1, <3>2
  <2>4. ASSUME NEW t \in Streams, user(t) \/ RecvTimeout(t), t # s PROVE got'[r] = got[r]
    <3>1. CASE Send(t)
      <4>1. /\ todo[t] \in Seq(Reqs) /\ todo[t] # <<>> /\ \A q \in Reqs \ {Head(todo[t])} : got'[q] = got[q]
        BY <1>t, <3>1 DEF Send
      <4>2. Head(todo[t]) \in Reqs /\ In(Head(todo[t]), todo[t])
        BY <4>1, TailFacts
      <4>3. StreamOf[Head(todo[t])] = t
        BY <4>2 DEF IInv, ComingInv
      <4> QED
        BY <2>4, <4>1, <4>3
    <3>2. CASE SendWrite(t) \/ RecvMsg(t) \/ RecvClosed(t) \/ RecvTimeout(t)
      <4>1. cpc[t] # "idle" /\ \A q \in Reqs \ {cur[t]} : got'[q] = got[q]
        BY <1>t, <3>2 DEF SendWrite, RecvMsg, RecvClosed, RecvTimeout, Return
      <4>2. StreamOf[cur[t]] = t
        BY <4>1 DEF CallInv
      <4> QED
        BY <2>4, <4>1, <4>2
    <3> QED
      BY <2>4, <3>1, <3>2 DEF user
  <2>5. CASE cpc[s] = "recv" /\ cur[s] = r
    <3>1. ~Send(s) /\ ~SendWrite(s)
      BY <2>5 DEF Send, SendWrite
    <3>2. ~RecvMsg(s) /\ ~RecvTimeout(s)
      <4>1. ASSUME RecvTimeout(s) PROVE FALSE
        BY <1>0, <2>5, <4>1 DEF RecvTimeout, Return, TypeOK
      <4>2. ASSUME RecvMsg(s) PROVE FALSE
        <5>1. got'[r] = Head(msgChan[s]) /\ msgChan[s] \in Seq(Reqs) /\ msgChan[s] # <<>>
          BY <1>0, <2>5, <4>2 DEF RecvMsg, Return, TypeOK
        <5> QED
          BY <5>1, TailFacts
      <4> QED
        BY <4>1, <4>2
    <3>3. RecvClosed(s) => got'[r] = "error" /\ cEnded' /\ cpc'[s] # "recv"
      BY <1>0, <2>5 DEF RecvClosed, Return, TypeOK
    <3> QED
      BY <2>2, <2>3, <2>4, <2>5, <3>1, <3>2, <3>3, OthersFrame DEF Next, user
  <2>6. CASE got[r] = "error" /\ cEnded /\ cpc[s] # "recv"
    <3>1. got'[r] = "error" /\ cEnded' /\ net = "closed"
      BY <1>0, <2>6, <2>c
    <3>2. (user(s) \/ RecvTimeout(s)) => cpc'[s] # "recv"
      BY <1>0, <2>6, <3>1 DEF user, Send, SendWrite, RecvMsg, RecvClosed, RecvTimeout, TypeOK
    <3>3. cpc'[s] # "recv"
      BY <2>2, <2>3, <2>4, <2>6, <3>2, OthersFrame DEF Next
    <3> QED
      BY <3>1, <3>3
  <2> QED
    BY <2>1, <2>5, <2>6
<1> QED
  BY <1>1, <1>2, WrittenStep

(* Every step keeps what the calls return: RecvMsg returns the call's own reply,
   or there is an unread one.                                               *)
LEMMA ReplyStep ==
    ASSUME IInv, CallInv, DeliverInv, AwaitInv, SendRecvGetsItsReply, [Next]_vars
    PROVE  SendRecvGetsItsReply'
<1>0. /\ StreamOf \in [Reqs -> Streams] /\ TypeOK /\ {"nothing", "error", "timeout"} \cap Reqs = {}
      /\ \A r \in Reqs : got[r] # "nothing" => got'[r] = got[r]
  BY StreamAssumption, CallStep DEF IInv
<1>a. /\ sent \in Seq(Reqs) /\ \A r \in Reqs : r \in Range(sent) <=> In(r, sent)
  BY <1>0, SMTT(30) DEF TypeOK, Range, In
<1>b. \A p \in Reqs : Unread(p) => Unread(p)'
  <2>1. sent' = sent \/ \E x \in Reqs : sent' = Append(sent, x)
    BY <1>0, FrameIsOut DEF IInv, Next, user, Send, SendWrite, RecvMsg, RecvClosed, RecvTimeout, receiver,
     ClientRead, ClientDeliver, ClientEnd, Close, serverReceiver, ServerTop, ServerEnd,
     ServerRead, DispatchClose, DispatchGarbled, DispatchKnown, DispatchPrivate, TransportClose, handler,
     HandlerRecv, HandlerRecvClosed, HandlerRecvTimeout, TakeEncoder, Encode, WriteFrame, vars, sendVars
  <2>2. Range(sent) \subseteq Range(sent')
    <3>1. ASSUME NEW x \in Reqs, sent' = Append(sent, x) PROVE Range(sent) \subseteq Range(sent')
      BY <1>a, <3>1 DEF Range
    <3> QED
      BY <2>1, <3>1
  <2> QED
    BY <1>0, <2>2 DEF Unread
<1>1. ASSUME \A q \in Reqs : got'[q] \in Reqs => got'[q] = got[q] PROVE SendRecvGetsItsReply'
  BY <1>1, <1>b DEF SendRecvGetsItsReply
<1>2. ASSUME NEW s \in Streams, RecvMsg(s) PROVE SendRecvGetsItsReply'
  <2> DEFINE h == Head(msgChan[s])
             c == cur[s]
  <2>1. /\ cpc[s] = "recv" /\ c \in Reqs /\ StreamOf[c] = s /\ msgChan[s] # <<>> /\ msgChan[s] \in Seq(Reqs)
        /\ got'[c] = h /\ \A q \in Reqs \ {c} : got'[q] = got[q]
    BY <1>0, <1>2 DEF RecvMsg, Return, TypeOK, CallInv
  <2>2. h \in Reqs /\ In(h, msgChan[s])
    BY <2>1, TailFacts
  <2> HIDE DEF h, c
  <2>3. StreamOf[h] = s /\ In(h, sent) /\ \A q \in Reqs : got[q] # h
    BY <2>2 DEF DeliverInv, Arriving
  <2>4. ASSUME h # c PROVE \E p \in Reqs : StreamOf[p] = s /\ Unread(p)
    <3>1. Written(h)
      BY <2>3 DEF Written
    <3>2. h \in OneWay \/ got[h] \in Reqs \/ got[h] = "timeout"
      BY <2>1, <2>2, <2>3, <2>4, <3>1 DEF AwaitInv, c
    <3>3. CASE h \in OneWay \/ got[h] = "timeout"
      BY <1>a, <2>2, <2>3, <3>3 DEF Unread
    <3>4. CASE got[h] \in Reqs
      BY <2>2, <2>3, <3>4 DEF SendRecvGetsItsReply
    <3> QED
      BY <3>2, <3>3, <3>4
  <2>5. \A p, q \in Reqs : got'[p] \in Reqs /\ got'[p] = got'[q] => p = q
    BY <2>1, <2>3 DEF SendRecvGetsItsReply
  <2>6. ASSUME NEW q \in Reqs, got'[q] \in Reqs, got'[q] # q
        PROVE  StreamOf[got'[q]] = StreamOf[q] /\ \E p \in Reqs : StreamOf[p] = StreamOf[q] /\ Unread(p)
    <3>1. CASE q = c
      BY <2>1, <2>3, <2>4, <2>6, <3>1
    <3>2. CASE q # c
      BY <2>1, <2>6, <3>2 DEF SendRecvGetsItsReply
    <3> QED
      BY <3>1, <3>2
  <2> QED
    BY <1>b, <2>5, <2>6 DEF SendRecvGetsItsReply
<1>3. ASSUME NEW s \in Streams, Send(s) \/ SendWrite(s) \/ RecvClosed(s) \/ RecvTimeout(s)
      PROVE  SendRecvGetsItsReply'
  <2>1. \A q \in Reqs : got'[q] = got[q] \/ got'[q] \in {"error", "timeout"}
    BY <1>0, <1>3 DEF Send, SendWrite, RecvClosed, RecvTimeout, Return, TypeOK
  <2> QED
    BY <1>0, <1>1, <2>1
<1> QED
  BY <1>1, <1>2, <1>3, OthersFrame DEF Next, user

(* The client's invariant. *)
ClientInv == CallInv /\ DeliverInv /\ AwaitInv /\ SendRecvGetsItsReply

LEMMA InitClientInv == Init => ClientInv
<1> SUFFICES ASSUME Init PROVE ClientInv
  OBVIOUS
<1>0. {"nothing", "error", "timeout"} \cap Reqs = {} /\ None \notin Reqs /\ IInv
  BY StreamAssumption, InitIInv
<1>1. (\A r : ~In(r, <<>>)) /\ Distinct(<<>>)
  BY DEF In, Distinct
<1>2. \A q \in Reqs : got[q] = "nothing" /\ got[q] \notin Reqs
  BY <1>0 DEF Init
<1>3. \A r \in Reqs : ~Arriving(r) /\ ~Written(r)
  BY <1>0, <1>1 DEF Init, Arriving, Written
<1>4. CallInv
  BY <1>2 DEF Init, CallInv
<1>5. DeliverInv
  BY <1>1, <1>2, <1>3 DEF Init, DeliverInv
<1>6. AwaitInv /\ SendRecvGetsItsReply
  BY <1>2, <1>3 DEF AwaitInv, SendRecvGetsItsReply
<1> QED
  BY <1>4, <1>5, <1>6 DEF ClientInv

(* No reply is returned to two calls of SendRecv, and a call returns the reply to
   its own message unless a reply on its stream was left unread by a timeout or
   was sent to a one-way message (streamClientStream.SendRecv, Recv), whatever
   is interleaved on however many streams of the connection.                *)
THEOREM SpecSendRecv == Spec => []SendRecvGetsItsReply
<1>1. Init => IInv /\ ClientInv
  BY InitIInv, InitClientInv
<1>2. IInv /\ ClientInv /\ [Next]_vars => (IInv /\ ClientInv)'
  BY NextIInv, CallStep, DeliverStep, AwaitStep, ReplyStep DEF ClientInv
<1>3. ClientInv => SendRecvGetsItsReply
  BY DEF ClientInv
<1> QED
  BY <1>1, <1>2, <1>3, PTL DEF Spec

=============================================================================
