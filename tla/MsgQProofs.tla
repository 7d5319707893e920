------------------------------ MODULE MsgQProofs ------------------------------
(***************************************************************************)
(* Proofs about the message queue, for every number of messages,           *)
(* receivers and workers and every queue size: type correctness, that no   *)
(* message is lost or duplicated, that reorder's drain loops on the high   *)
(* and low channels never block, and that the queue implements Dispatch.   *)
(***************************************************************************)
EXTENDS MsgQ, TLAPS

(* What each goroutine's local variable holds at each point of its program. *)
HandsInv ==
    /\ \A r \in Receivers : rpc[r] = "idle" <=> hold[r] = None
    /\ \A w \in Workers : wpc[w] = "handle" <=> hold[w] # None
    /\ stage \in {"off", "loop", "select", "stopped"} => hold["picked"] = None
    /\ (stage = "normal" /\ hold["picked"] # None) => PriorityOf[hold["picked"]] # "high"
    /\ (stage = "low" /\ hold["picked"] # None) => PriorityOf[hold["picked"]] = "low"

(* A channel is used only after it has been made, and reorder runs only after
   the egress channel has been made.                                        *)
MadeInv ==
    /\ \A q \in Priority : q \notin made => queue[q] = <<>>
    /\ \A r \in Receivers : rpc[r] = "send" => PriorityOf[hold[r]] \in made
    /\ ~egressMade => stage = "off"

(* The counters are zero outside the drain loops, and zero for the priorities
   that have been drained.                                                  *)
LeftInv ==
    /\ stage \in {"off", "loop", "select", "stopped", "lenLow"} => \A q \in Priority : left[q] = 0
    /\ stage \in {"normal", "low"} => left["high"] = 0
    /\ stage = "low" => left["normal"] = 0

IInv == TypeOK /\ HandsInv /\ MadeInv /\ LeftInv /\ DrainNeverBlocks

-----------------------------------------------------------------------------
(* The hands of receivers, workers and reorder are distinct places, distinct
   from the channels.                                                       *)
LEMMA HandsDistinct ==
    /\ "picked" \in Hands /\ "carry" \in Hands
    /\ Receivers \subseteq Hands /\ Workers \subseteq Hands /\ Receivers \cap Workers = {}
    /\ "picked" \notin Receivers \cup Workers
    /\ "carry" \notin Receivers \cup Workers
    /\ Hands \cap Chans = {}
    /\ "net" \notin Hands \cup Chans /\ "handled" \notin Hands \cup Chans
  BY GoroutinesAssumption DEF Hands, Chans, Priority

(* Initially the invariant holds: newMsgQ makes only the normal channel. *)
LEMMA InitIInv == Init => IInv
<1> SUFFICES ASSUME Init PROVE IInv
  OBVIOUS
<1> USE QSizeAssumption, MsgsAssumption, GoroutinesAssumption
<1>1. TypeOK
  <2>1. queue \in [Chans -> Seq(Msgs)] /\ \A c \in Chans : Len(queue[c]) <= QSize
    BY DEF Init
  <2>2. made \subseteq Priority /\ sel \subseteq Priority \cup {"done"}
    BY DEF Init, Priority
  <2>3. rpc \in [Receivers -> {"idle", "init", "send"}] /\ left \in [Priority -> Nat]
    BY DEF Init
  <2>4. wpc \in [Workers -> {"unborn", "eval", "recv", "handle"}]
    BY DEF Init
  <2>5. src \in [Workers -> {"normal", "egress"}] /\ stop \in [Workers -> BOOLEAN]
    BY DEF Init
  <2>6. hold \in [Hands -> Msgs \cup {None}] /\ putLog \in Seq(Msgs)
    BY DEF Init
  <2> QED
    BY <2>1, <2>2, <2>3, <2>4, <2>5, <2>6 DEF Init, TypeOK
<1>2. HandsInv
  BY HandsDistinct DEF Init, HandsInv
<1>3. MadeInv
  BY HandsDistinct DEF Init, MadeInv, Chans, Priority
<1>4. LeftInv /\ DrainNeverBlocks
  BY DEF Init, LeftInv, DrainNeverBlocks, Chans, Priority
<1> QED
  BY <1>1, <1>2, <1>3, <1>4 DEF IInv
-----------------------------------------------------------------------------
(* Every step keeps the types and the capacity of the channels. *)
LEMMA TypeStep ==
    ASSUME IInv, [Next]_vars
    PROVE  TypeOK'
<1> USE QSizeAssumption, MsgsAssumption, HandsDistinct
    DEF receiverVars, reorderVars, workerVars, IInv, TypeOK, HandsInv, MadeInv, Chans, Priority, LenStages
<1>1. ASSUME NEW r \in Receivers, NEW m \in Msgs, putMetaMsg(r, m) PROVE TypeOK'
  BY <1>1 DEF putMetaMsg
<1>2. ASSUME NEW r \in Receivers, initChan(r) PROVE TypeOK'
  <2>1. hold[r] \in Msgs /\ PriorityOf[hold[r]] \in Priority
    BY <1>2 DEF initChan
  <2>2. queue' \in [Chans -> Seq(Msgs)] /\ \A c \in Chans : Len(queue'[c]) <= QSize
    <3>1. CASE PriorityOf[hold[r]] \in made
      BY <1>2, <3>1 DEF initChan
    <3>2. CASE PriorityOf[hold[r]] \notin made
      <4>1. queue' = [queue EXCEPT ![PriorityOf[hold[r]]] = <<>>]
        BY <1>2, <3>2 DEF initChan
      <4> QED
        BY <4>1, <2>1
    <3> QED
      BY <3>1, <3>2
  <2>3. made' \subseteq Priority
    BY <1>2, <2>1 DEF initChan
  <2> QED
    BY <1>2, <2>2, <2>3 DEF initChan
<1>3. ASSUME NEW r \in Receivers, Enqueue(r) PROVE TypeOK'
  <2>1. hold[r] \in Msgs /\ PriorityOf[hold[r]] \in Priority
    BY <1>3 DEF Enqueue, HasRoom, SendFrom
  <2>2. queue' \in [Chans -> Seq(Msgs)] /\ \A c \in Chans : Len(queue'[c]) <= QSize
    BY <1>3, <2>1 DEF Enqueue, HasRoom, SendFrom
  <2>3. putLog' \in Seq(Msgs) /\ hold' \in [Hands -> Msgs \cup {None}]
    BY <1>3, <2>1 DEF Enqueue, HasRoom, SendFrom
  <2> QED
    BY <1>3, <2>2, <2>3 DEF Enqueue, HasRoom, SendFrom
<1>4. CASE ReorderEnter
  BY <1>4 DEF ReorderEnter
<1>5. ASSUME NEW q \in Priority, ReorderPick(q) PROVE TypeOK'
  BY <1>5 DEF ReorderPick, RecvInto
<1>6. CASE ReorderStop
  BY <1>6 DEF ReorderStop
<1>7. CASE ReorderLen
  BY <1>7 DEF ReorderLen, LenStages, Sampled, AfterSample
<1>8. CASE ReorderSendPicked
  BY <1>8 DEF ReorderSendPicked, PickedDue, HasRoom, SendFrom
<1>9. CASE ReorderRecv
  <2>1. stage \in Chans /\ Head(queue[stage]) \in Msgs /\ Tail(queue[stage]) \in Seq(Msgs)
    BY <1>9 DEF ReorderRecv, PickedDue, RecvInto
  <2>2. queue' \in [Chans -> Seq(Msgs)] /\ \A c \in Chans : Len(queue'[c]) <= QSize
    BY <1>9, <2>1 DEF ReorderRecv, PickedDue, RecvInto
  <2>3. left' \in [Priority -> Nat]
    <3>1. left \in [Priority -> Nat] /\ left[stage] - 1 \in Nat
      BY <1>9 DEF ReorderRecv, PickedDue, RecvInto
    <3> QED
      BY <1>9, <3>1 DEF ReorderRecv, PickedDue, RecvInto
  <2> QED
    BY <1>9, <2>1, <2>2, <2>3 DEF ReorderRecv, PickedDue, RecvInto
<1>10. CASE ReorderSendCarry
  BY <1>10 DEF ReorderSendCarry, HasRoom, SendFrom
<1>11. CASE ReorderNext
  BY <1>11 DEF ReorderNext, PickedDue, AfterDrain
<1>12. ASSUME NEW w \in Workers, WorkerEnter(w) PROVE TypeOK'
  BY <1>12 DEF WorkerEnter, getEgressChan
<1>13. ASSUME NEW w \in Workers, WorkerTake(w) PROVE TypeOK'
  BY <1>13 DEF WorkerTake, RecvInto
<1>14. ASSUME NEW w \in Workers, WorkerHandle(w) PROVE TypeOK'
  BY <1>14 DEF WorkerHandle
<1>15. ASSUME NEW w \in Workers, WorkerExit(w) PROVE TypeOK'
  BY <1>15 DEF WorkerExit
<1>16. CASE ScalerCheck
  BY <1>16 DEF ScalerCheck
<1>17. ASSUME NEW w \in Workers, ScalerAdd(w) PROVE TypeOK'
  BY <1>17 DEF ScalerAdd
<1>18. ASSUME NEW w \in Workers, ScalerRemove(w) PROVE TypeOK'
  BY <1>18 DEF ScalerRemove
<1>19. CASE ScalerKeep
  BY <1>19 DEF ScalerKeep
<1>20. CASE CloseDone
  BY <1>20 DEF CloseDone
<1>21. CASE CloseSetNil
  BY <1>21 DEF CloseSetNil
<1>22. CASE CloseWorkers
  BY <1>22 DEF CloseWorkers
<1>23. CASE CloseReturn
  BY <1>23 DEF CloseReturn
<1>24. CASE UNCHANGED vars
  BY <1>24 DEF vars
<1> QED
  BY <1>1, <1>2, <1>3, <1>4, <1>5, <1>6, <1>7, <1>8, <1>9, <1>10, <1>11,
     <1>12, <1>13, <1>14, <1>15, <1>16, <1>17, <1>18, <1>19, <1>20, <1>21,
     <1>22, <1>23, <1>24
  DEF Next, receiver, reorder, worker, autoScaler, close

(* Every step keeps what the goroutines hold in step with where they are. *)
LEMMA HandsStep ==
    ASSUME IInv, [Next]_vars
    PROVE  HandsInv'
<1> USE QSizeAssumption, MsgsAssumption, HandsDistinct
    DEF receiverVars, reorderVars, workerVars, IInv, TypeOK, HandsInv, MadeInv, LenStages, Priority
<1>1. ASSUME NEW r \in Receivers, NEW m \in Msgs, putMetaMsg(r, m) PROVE HandsInv'
  BY <1>1 DEF putMetaMsg
<1>2. ASSUME NEW r \in Receivers, initChan(r) PROVE HandsInv'
  BY <1>2 DEF initChan
<1>3. ASSUME NEW r \in Receivers, Enqueue(r) PROVE HandsInv'
  BY <1>3 DEF Enqueue, HasRoom, SendFrom
<1>4. CASE ReorderEnter
  BY <1>4 DEF ReorderEnter
<1>5. ASSUME NEW q \in Priority, ReorderPick(q) PROVE HandsInv'
  BY <1>5 DEF ReorderPick, RecvInto
<1>6. CASE ReorderStop
  BY <1>6 DEF ReorderStop
<1>7. CASE ReorderLen
  BY <1>7 DEF ReorderLen, LenStages, Sampled, AfterSample
<1>8. CASE ReorderSendPicked
  BY <1>8 DEF ReorderSendPicked, PickedDue, HasRoom, SendFrom
<1>9. CASE ReorderRecv
  BY <1>9 DEF ReorderRecv, PickedDue, RecvInto
<1>10. CASE ReorderSendCarry
  BY <1>10 DEF ReorderSendCarry, HasRoom, SendFrom
<1>11. CASE ReorderNext
  BY <1>11 DEF ReorderNext, PickedDue, AfterDrain
<1>12. ASSUME NEW w \in Workers, WorkerEnter(w) PROVE HandsInv'
  BY <1>12 DEF WorkerEnter, getEgressChan
<1>13. ASSUME NEW w \in Workers, WorkerTake(w) PROVE HandsInv'
  <2>1. src[w] \in Chans /\ Head(queue[src[w]]) \in Msgs
    BY <1>13 DEF WorkerTake, RecvInto, Chans
  <2> QED
    BY <1>13, <2>1 DEF WorkerTake, RecvInto
<1>14. ASSUME NEW w \in Workers, WorkerHandle(w) PROVE HandsInv'
  BY <1>14 DEF WorkerHandle
<1>15. ASSUME NEW w \in Workers, WorkerExit(w) PROVE HandsInv'
  BY <1>15 DEF WorkerExit
<1>16. CASE ScalerCheck
  BY <1>16 DEF ScalerCheck
<1>17. ASSUME NEW w \in Workers, ScalerAdd(w) PROVE HandsInv'
  BY <1>17 DEF ScalerAdd
<1>18. ASSUME NEW w \in Workers, ScalerRemove(w) PROVE HandsInv'
  BY <1>18 DEF ScalerRemove
<1>19. CASE ScalerKeep
  BY <1>19 DEF ScalerKeep
<1>20. CASE CloseDone
  BY <1>20 DEF CloseDone
<1>21. CASE CloseSetNil
  BY <1>21 DEF CloseSetNil
<1>22. CASE CloseWorkers
  BY <1>22 DEF CloseWorkers
<1>23. CASE CloseReturn
  BY <1>23 DEF CloseReturn
<1>24. CASE UNCHANGED vars
  BY <1>24 DEF vars
<1> QED
  BY <1>1, <1>2, <1>3, <1>4, <1>5, <1>6, <1>7, <1>8, <1>9, <1>10, <1>11,
     <1>12, <1>13, <1>14, <1>15, <1>16, <1>17, <1>18, <1>19, <1>20, <1>21,
     <1>22, <1>23, <1>24
  DEF Next, receiver, reorder, worker, autoScaler, close

(* Every step keeps unmade channels empty and unused: the nil test outside the
   mutex is repeated inside it.                                             *)
LEMMA MadeStep ==
    ASSUME IInv, [Next]_vars
    PROVE  MadeInv'
<1> USE QSizeAssumption, MsgsAssumption, HandsDistinct
    DEF receiverVars, reorderVars, workerVars, IInv, TypeOK, HandsInv, MadeInv, Chans, Priority, LenStages
<1>1. ASSUME NEW r \in Receivers, NEW m \in Msgs, putMetaMsg(r, m) PROVE MadeInv'
  BY <1>1 DEF putMetaMsg
<1>2. ASSUME NEW r \in Receivers, initChan(r) PROVE MadeInv'
  BY <1>2 DEF initChan
<1>3. ASSUME NEW r \in Receivers, Enqueue(r) PROVE MadeInv'
  BY <1>3 DEF Enqueue, HasRoom, SendFrom
<1>4. CASE ReorderEnter
  BY <1>4 DEF ReorderEnter
<1>5. ASSUME NEW q \in Priority, ReorderPick(q) PROVE MadeInv'
  BY <1>5 DEF ReorderPick, RecvInto
<1>6. CASE ReorderStop
  BY <1>6 DEF ReorderStop
<1>7. CASE ReorderLen
  BY <1>7 DEF ReorderLen, LenStages, Sampled, AfterSample
<1>8. CASE ReorderSendPicked
  BY <1>8 DEF ReorderSendPicked, PickedDue, HasRoom, SendFrom
<1>9. CASE ReorderRecv
  BY <1>9 DEF ReorderRecv, PickedDue, RecvInto
<1>10. CASE ReorderSendCarry
  BY <1>10 DEF ReorderSendCarry, HasRoom, SendFrom
<1>11. CASE ReorderNext
  BY <1>11 DEF ReorderNext, PickedDue, AfterDrain
<1>12. ASSUME NEW w \in Workers, WorkerEnter(w) PROVE MadeInv'
  BY <1>12 DEF WorkerEnter, getEgressChan
<1>13. ASSUME NEW w \in Workers, WorkerTake(w) PROVE MadeInv'
  BY <1>13 DEF WorkerTake, RecvInto
<1>14. ASSUME NEW w \in Workers, WorkerHandle(w) PROVE MadeInv'
  BY <1>14 DEF WorkerHandle
<1>15. ASSUME NEW w \in Workers, WorkerExit(w) PROVE MadeInv'
  BY <1>15 DEF WorkerExit
<1>16. CASE ScalerCheck
  BY <1>16 DEF ScalerCheck
<1>17. ASSUME NEW w \in Workers, ScalerAdd(w) PROVE MadeInv'
  BY <1>17 DEF ScalerAdd
<1>18. ASSUME NEW w \in Workers, ScalerRemove(w) PROVE MadeInv'
  BY <1>18 DEF ScalerRemove
<1>19. CASE ScalerKeep
  BY <1>19 DEF ScalerKeep
<1>20. CASE CloseDone
  BY <1>20 DEF CloseDone
<1>21. CASE CloseSetNil
  BY <1>21 DEF CloseSetNil
<1>22. CASE CloseWorkers
  BY <1>22 DEF CloseWorkers
<1>23. CASE CloseReturn
  BY <1>23 DEF CloseReturn
<1>24. CASE UNCHANGED vars
  BY <1>24 DEF vars
<1> QED
  BY <1>1, <1>2, <1>3, <1>4, <1>5, <1>6, <1>7, <1>8, <1>9, <1>10, <1>11,
     <1>12, <1>13, <1>14, <1>15, <1>16, <1>17, <1>18, <1>19, <1>20, <1>21,
     <1>22, <1>23, <1>24
  DEF Next, receiver, reorder, worker, autoScaler, close

(* Every step keeps reorder's counters covered by what the channels hold. *)
LEMMA LeftStep ==
    ASSUME IInv, [Next]_vars
    PROVE  (LeftInv /\ DrainNeverBlocks)'
<1> USE QSizeAssumption, MsgsAssumption, HandsDistinct
    DEF receiverVars, reorderVars, workerVars, IInv, TypeOK, HandsInv, MadeInv, LeftInv, DrainNeverBlocks, Chans, Priority, LenStages
<1>1. ASSUME NEW r \in Receivers, NEW m \in Msgs, putMetaMsg(r, m) PROVE (LeftInv /\ DrainNeverBlocks)'
  BY <1>1 DEF putMetaMsg
<1>2. ASSUME NEW r \in Receivers, initChan(r) PROVE (LeftInv /\ DrainNeverBlocks)'
  BY <1>2 DEF initChan
<1>3. ASSUME NEW r \in Receivers, Enqueue(r) PROVE (LeftInv /\ DrainNeverBlocks)'
  BY <1>3 DEF Enqueue, HasRoom, SendFrom
<1>4. CASE ReorderEnter
  BY <1>4 DEF ReorderEnter
<1>5. ASSUME NEW q \in Priority, ReorderPick(q) PROVE (LeftInv /\ DrainNeverBlocks)'
  BY <1>5 DEF ReorderPick, RecvInto
<1>6. CASE ReorderStop
  BY <1>6 DEF ReorderStop
<1>7. CASE ReorderLen
  BY <1>7 DEF ReorderLen, LenStages, Sampled, AfterSample
<1>8. CASE ReorderSendPicked
  BY <1>8 DEF ReorderSendPicked, PickedDue, HasRoom, SendFrom
<1>9. CASE ReorderRecv
  BY <1>9 DEF ReorderRecv, PickedDue, RecvInto
<1>10. CASE ReorderSendCarry
  BY <1>10 DEF ReorderSendCarry, HasRoom, SendFrom
<1>11. CASE ReorderNext
  BY <1>11 DEF ReorderNext, PickedDue, AfterDrain
<1>12. ASSUME NEW w \in Workers, WorkerEnter(w) PROVE (LeftInv /\ DrainNeverBlocks)'
  BY <1>12 DEF WorkerEnter, getEgressChan
<1>13. ASSUME NEW w \in Workers, WorkerTake(w) PROVE (LeftInv /\ DrainNeverBlocks)'
  BY <1>13 DEF WorkerTake, RecvInto
<1>14. ASSUME NEW w \in Workers, WorkerHandle(w) PROVE (LeftInv /\ DrainNeverBlocks)'
  BY <1>14 DEF WorkerHandle
<1>15. ASSUME NEW w \in Workers, WorkerExit(w) PROVE (LeftInv /\ DrainNeverBlocks)'
  BY <1>15 DEF WorkerExit
<1>16. CASE ScalerCheck
  BY <1>16 DEF ScalerCheck
<1>17. ASSUME NEW w \in Workers, ScalerAdd(w) PROVE (LeftInv /\ DrainNeverBlocks)'
  BY <1>17 DEF ScalerAdd
<1>18. ASSUME NEW w \in Workers, ScalerRemove(w) PROVE (LeftInv /\ DrainNeverBlocks)'
  BY <1>18 DEF ScalerRemove
<1>19. CASE ScalerKeep
  BY <1>19 DEF ScalerKeep
<1>20. CASE CloseDone
  BY <1>20 DEF CloseDone
<1>21. CASE CloseSetNil
  BY <1>21 DEF CloseSetNil
<1>22. CASE CloseWorkers
  BY <1>22 DEF CloseWorkers
<1>23. CASE CloseReturn
  BY <1>23 DEF CloseReturn
<1>24. CASE UNCHANGED vars
  BY <1>24 DEF vars
<1> QED
  BY <1>1, <1>2, <1>3, <1>4, <1>5, <1>6, <1>7, <1>8, <1>9, <1>10, <1>11,
     <1>12, <1>13, <1>14, <1>15, <1>16, <1>17, <1>18, <1>19, <1>20, <1>21,
     <1>22, <1>23, <1>24
  DEF Next, receiver, reorder, worker, autoScaler, close

(* The inductive invariant holds in every reachable state. *)
THEOREM SpecIInv == Spec => []IInv
<1>1. IInv /\ [Next]_vars => IInv'
  BY TypeStep, HandsStep, MadeStep, LeftStep DEF IInv
<1> QED
  BY InitIInv, <1>1, PTL DEF Spec

-----------------------------------------------------------------------------
(* A send on channel c moves the sent message from the hand h to c and leaves
   every other message where it is.                                         *)
LEMMA SendMoves ==
    ASSUME TypeOK, ExactlyOnce, NEW h \in Hands, NEW c \in Chans,
           NEW m \in Msgs, hold[h] = m, SendFrom(h, c), UNCHANGED <<net, handled>>
    PROVE  ExactlyOnce'
<1> USE MsgsAssumption, HandsDistinct
<1>0. queue \in [Chans -> Seq(Msgs)] /\ hold \in [Hands -> Msgs \cup {None}]
  BY DEF TypeOK
<1>1. /\ queue'[c] = Append(queue[c], m)
      /\ Len(queue'[c]) = Len(queue[c]) + 1
      /\ queue'[c][Len(queue[c]) + 1] = m
      /\ \A i \in 1..Len(queue[c]) : queue'[c][i] = queue[c][i]
      /\ \A d \in Chans \ {c} : queue'[d] = queue[d]
      /\ Len(queue[c]) \in Nat
  BY <1>0 DEF SendFrom
<1>2. hold'[h] = None /\ \A k \in Hands \ {h} : hold'[k] = hold[k]
  BY <1>0 DEF SendFrom
<1>3. IsAt(m, h) /\ \A p \in Places : IsAt(m, p) => p = h
  <2>1. IsAt(m, h) /\ h \in Places
    BY DEF IsAt, Places
  <2> QED
    BY <2>1 DEF ExactlyOnce
<1>4. ~\E i \in 1..Len(queue[c]) : queue[c][i] = m
  BY <1>3 DEF IsAt, Places
<1>5. \A p \in Places : IsAt(m, p)' <=> p = c
  <2> SUFFICES ASSUME NEW p \in Places PROVE IsAt(m, p)' <=> p = c
    OBVIOUS
  <2>1. CASE p = "net" \/ p = "handled"
    BY <2>1, <1>3 DEF IsAt, Places
  <2>2. CASE p \in Chans \ {c}
    BY <2>2, <1>1, <1>3 DEF IsAt
  <2>3. CASE p = c
    BY <2>3, <1>1 DEF IsAt
  <2>4. CASE p \in Hands
    BY <2>4, <1>2, <1>3 DEF IsAt
  <2> QED
    BY <2>1, <2>2, <2>3, <2>4 DEF Places
<1>6. \A x \in Msgs \ {m}, p \in Places : IsAt(x, p)' <=> IsAt(x, p)
  <2> SUFFICES ASSUME NEW x \in Msgs \ {m}, NEW p \in Places PROVE IsAt(x, p)' <=> IsAt(x, p)
    OBVIOUS
  <2>1. CASE p = "net" \/ p = "handled"
    BY <2>1 DEF IsAt
  <2>2. CASE p \in Chans \ {c}
    BY <2>2, <1>1 DEF IsAt
  <2>3. CASE p = c
    BY <2>3, <1>1 DEF IsAt
  <2>4. CASE p \in Hands
    BY <2>4, <1>2 DEF IsAt
  <2> QED
    BY <2>1, <2>2, <2>3, <2>4 DEF Places
<1>7. \A d \in Chans : \A i, j \in 1..Len(queue'[d]) : queue'[d][i] = queue'[d][j] => i = j
  <2> SUFFICES ASSUME NEW d \in Chans, NEW i \in 1..Len(queue'[d]), NEW j \in 1..Len(queue'[d]),
                      queue'[d][i] = queue'[d][j]
               PROVE  i = j
    OBVIOUS
  <2>1. CASE d # c
    BY <2>1, <1>1 DEF ExactlyOnce
  <2>2. CASE d = c
    BY <2>2, <1>1, <1>4 DEF ExactlyOnce
  <2> QED
    BY <2>1, <2>2
<1>8. c \in Places
  BY DEF Places
<1> QED
  BY <1>5, <1>6, <1>7, <1>8 DEF ExactlyOnce

(* The same for a receive from channel c into the empty hand h. *)
LEMMA RecvMoves ==
    ASSUME TypeOK, ExactlyOnce, NEW h \in Hands, NEW c \in Chans, hold[h] = None,
           RecvInto(c, h), UNCHANGED <<net, handled>>
    PROVE  ExactlyOnce'
<1> USE MsgsAssumption, HandsDistinct
<1>0. queue \in [Chans -> Seq(Msgs)] /\ hold \in [Hands -> Msgs \cup {None}] /\ queue[c] # <<>>
  BY DEF TypeOK, RecvInto
<1> PICK m \in Msgs : m = Head(queue[c])
  BY <1>0
<1>1. /\ Len(queue[c]) \in Nat \ {0} /\ m = queue[c][1]
      /\ Len(queue'[c]) = Len(queue[c]) - 1
      /\ \A i \in 1..(Len(queue[c]) - 1) : queue'[c][i] = queue[c][i + 1]
      /\ \A d \in Chans \ {c} : queue'[d] = queue[d]
  BY <1>0 DEF RecvInto
<1>2. hold'[h] = m /\ \A k \in Hands \ {h} : hold'[k] = hold[k]
  BY <1>0 DEF RecvInto
<1>3. \A p \in Places : IsAt(m, p) => p = c
  <2>1. IsAt(m, c) /\ c \in Places
    BY <1>1 DEF IsAt, Places
  <2> QED
    BY <2>1 DEF ExactlyOnce
<1>4. \A i \in 2..Len(queue[c]) : queue[c][i] # m
  BY <1>1 DEF ExactlyOnce
<1>5. \A p \in Places : IsAt(m, p)' <=> p = h
  <2> SUFFICES ASSUME NEW p \in Places PROVE IsAt(m, p)' <=> p = h
    OBVIOUS
  <2>1. CASE p = "net" \/ p = "handled"
    BY <2>1, <1>3 DEF IsAt, Places
  <2>2. CASE p \in Chans \ {c}
    BY <2>2, <1>1, <1>3 DEF IsAt
  <2>3. CASE p = c
    BY <2>3, <1>1, <1>4 DEF IsAt
  <2>4. CASE p \in Hands
    BY <2>4, <1>2, <1>3 DEF IsAt
  <2> QED
    BY <2>1, <2>2, <2>3, <2>4 DEF Places
<1>6. \A x \in Msgs \ {m}, p \in Places : IsAt(x, p)' <=> IsAt(x, p)
  <2> SUFFICES ASSUME NEW x \in Msgs \ {m}, NEW p \in Places PROVE IsAt(x, p)' <=> IsAt(x, p)
    OBVIOUS
  <2>1. CASE p = "net" \/ p = "handled"
    BY <2>1 DEF IsAt
  <2>2. CASE p \in Chans \ {c}
    BY <2>2, <1>1 DEF IsAt
  <2>3. CASE p = c
    <3>1. ASSUME NEW i \in 1..Len(queue'[c]), queue'[c][i] = x
          PROVE  \E j \in 1..Len(queue[c]) : queue[c][j] = x
      <4>1. i + 1 \in 1..Len(queue[c]) /\ queue[c][i + 1] = x
        BY <1>1, <3>1
      <4> QED
        BY <4>1
    <3>2. ASSUME NEW j \in 1..Len(queue[c]), queue[c][j] = x
          PROVE  \E i \in 1..Len(queue'[c]) : queue'[c][i] = x
      <4>1. j - 1 \in 1..Len(queue'[c]) /\ queue'[c][j - 1] = x
        BY <1>1, <3>2
      <4> QED
        BY <4>1
    <3> QED
      BY <2>3, <3>1, <3>2 DEF IsAt
  <2>4. CASE p \in Hands
    BY <2>4, <1>2 DEF IsAt
  <2> QED
    BY <2>1, <2>2, <2>3, <2>4 DEF Places
<1>7. \A d \in Chans : \A i, j \in 1..Len(queue'[d]) : queue'[d][i] = queue'[d][j] => i = j
  <2> SUFFICES ASSUME NEW d \in Chans, NEW i \in 1..Len(queue'[d]), NEW j \in 1..Len(queue'[d]),
                      queue'[d][i] = queue'[d][j]
               PROVE  i = j
    OBVIOUS
  <2>1. CASE d # c
    BY <2>1, <1>1 DEF ExactlyOnce
  <2>2. CASE d = c
    <3>1. queue[c][i + 1] = queue[c][j + 1] /\ i + 1 \in 1..Len(queue[c]) /\ j + 1 \in 1..Len(queue[c])
      BY <2>2, <1>1
    <3>2. i + 1 = j + 1
      BY <3>1 DEF ExactlyOnce
    <3> QED
      BY <3>2, <2>2, <1>1
  <2> QED
    BY <2>1, <2>2
<1>8. h \in Places
  BY DEF Places
<1> QED
  BY <1>5, <1>6, <1>7, <1>8 DEF ExactlyOnce

(* Every step keeps each message in exactly one place: a step that touches
   messages is a send, a receive, an arrival or the end of a Handle().      *)
LEMMA ExactlyOnceStep ==
    ASSUME IInv, ExactlyOnce, [Next]_vars
    PROVE  ExactlyOnce'
<1> USE MsgsAssumption, HandsDistinct DEF receiverVars, reorderVars, workerVars, IInv
<1>1. ASSUME NEW r \in Receivers, NEW m \in Msgs, putMetaMsg(r, m) PROVE ExactlyOnce'
  <2>1. /\ hold[r] = None /\ hold'[r] = m /\ \A k \in Hands \ {r} : hold'[k] = hold[k]
        /\ queue' = queue /\ handled' = handled /\ net' = net \ {m} /\ m \in net
    BY <1>1 DEF putMetaMsg, HandsInv, TypeOK
  <2>2. \A p \in Places : IsAt(m, p) => p = "net"
    <3>1. IsAt(m, "net") /\ "net" \in Places
      BY <2>1 DEF IsAt, Places
    <3> QED
      BY <3>1 DEF ExactlyOnce
  <2>3. \A p \in Places : IsAt(m, p)' <=> p = r
    <3> SUFFICES ASSUME NEW p \in Places PROVE IsAt(m, p)' <=> p = r
      OBVIOUS
    <3>1. CASE p \in Hands
      BY <3>1, <2>1, <2>2 DEF IsAt
    <3>2. CASE p \notin Hands
      BY <3>2, <2>1, <2>2 DEF IsAt
    <3> QED
      BY <3>1, <3>2
  <2>4. \A x \in Msgs \ {m}, p \in Places : IsAt(x, p)' <=> IsAt(x, p)
    BY <2>1 DEF IsAt, Places
  <2>5. \A c \in Chans : \A i, j \in 1..Len(queue'[c]) : queue'[c][i] = queue'[c][j] => i = j
    BY <2>1 DEF ExactlyOnce
  <2>6. r \in Places
    BY DEF Places
  <2> QED
    BY <2>3, <2>4, <2>5, <2>6 DEF ExactlyOnce
<1>2. ASSUME NEW w \in Workers, WorkerHandle(w) PROVE ExactlyOnce'
  <2>0. hold[w] \in Msgs
    BY <1>2 DEF WorkerHandle, HandsInv, TypeOK
  <2> PICK m \in Msgs : m = hold[w]
    BY <2>0
  <2>1. /\ hold'[w] = None /\ \A k \in Hands \ {w} : hold'[k] = hold[k]
        /\ queue' = queue /\ net' = net /\ handled' = handled \cup {m}
    BY <1>2 DEF WorkerHandle, TypeOK
  <2>2. \A p \in Places : IsAt(m, p) => p = w
    <3>1. IsAt(m, w) /\ w \in Places
      BY DEF IsAt, Places
    <3> QED
      BY <3>1 DEF ExactlyOnce
  <2>3. \A p \in Places : IsAt(m, p)' <=> p = "handled"
    <3> SUFFICES ASSUME NEW p \in Places PROVE IsAt(m, p)' <=> p = "handled"
      OBVIOUS
    <3>1. CASE p \in Hands
      BY <3>1, <2>1, <2>2 DEF IsAt
    <3>2. CASE p \notin Hands
      BY <3>2, <2>1, <2>2 DEF IsAt
    <3> QED
      BY <3>1, <3>2
  <2>4. \A x \in Msgs \ {m}, p \in Places : IsAt(x, p)' <=> IsAt(x, p)
    BY <2>1 DEF IsAt, Places
  <2>5. \A c \in Chans : \A i, j \in 1..Len(queue'[c]) : queue'[c][i] = queue'[c][j] => i = j
    BY <2>1 DEF ExactlyOnce
  <2>6. "handled" \in Places
    BY DEF Places
  <2> QED
    BY <2>3, <2>4, <2>5, <2>6 DEF ExactlyOnce
<1>3. ASSUME NEW r \in Receivers, Enqueue(r) PROVE ExactlyOnce'
  <2>1. hold[r] \in Msgs /\ PriorityOf[hold[r]] \in Chans
    BY <1>3 DEF Enqueue, HandsInv, TypeOK, Chans
  <2> QED
    BY <1>3, <2>1, SendMoves DEF Enqueue
<1>4. CASE ReorderSendPicked
  BY <1>4, SendMoves DEF ReorderSendPicked, PickedDue, TypeOK, Chans
<1>5. CASE ReorderSendCarry
  BY <1>5, SendMoves DEF ReorderSendCarry, TypeOK, Chans
<1>6. ASSUME NEW q \in Priority, ReorderPick(q) PROVE ExactlyOnce'
  BY <1>6, RecvMoves DEF ReorderPick, HandsInv, Chans
<1>7. CASE ReorderRecv
  BY <1>7, RecvMoves DEF ReorderRecv, Chans
<1>8. ASSUME NEW w \in Workers, WorkerTake(w) PROVE ExactlyOnce'
  <2>1. hold[w] = None /\ src[w] \in Chans
    BY <1>8 DEF WorkerTake, HandsInv, TypeOK, Chans, Priority
  <2> QED
    BY <1>8, <2>1, RecvMoves DEF WorkerTake
<1>9. CASE UNCHANGED <<net, queue, hold, handled>>
  BY <1>9 DEF ExactlyOnce, IsAt
<1>10. ASSUME NEW r \in Receivers, initChan(r) PROVE UNCHANGED <<net, queue, hold, handled>>
  <2>1. hold[r] \in Msgs /\ PriorityOf[hold[r]] \in Priority
    BY <1>10 DEF initChan, HandsInv, TypeOK
  <2> QED
    BY <1>10, <2>1 DEF initChan, MadeInv, TypeOK, Chans
<1>11. ASSUME \/ ReorderEnter \/ ReorderStop \/ ReorderLen \/ ReorderNext
              \/ \E w \in Workers : WorkerEnter(w) \/ WorkerExit(w)
              \/ autoScaler \/ close \/ UNCHANGED vars
       PROVE  UNCHANGED <<net, queue, hold, handled>>
  BY <1>11 DEF ReorderEnter, ReorderStop, ReorderLen, ReorderNext, WorkerEnter, WorkerExit,
               autoScaler, ScalerCheck, ScalerKeep, ScalerAdd, ScalerRemove,
               close, CloseDone, CloseSetNil, CloseWorkers, CloseReturn, vars
<1> QED
  BY <1>1, <1>2, <1>3, <1>4, <1>5, <1>6, <1>7, <1>8, <1>9, <1>10, <1>11
  DEF Next, receiver, reorder, worker

(* putMetaMsg, reorder and the workers neither lose nor duplicate a message,
   for any number of receivers and workers and any queue size.              *)
THEOREM NoLossNoDuplicate == Spec => []ExactlyOnce
<1>1. Init => ExactlyOnce
  <2> SUFFICES ASSUME Init PROVE ExactlyOnce
    OBVIOUS
  <2>1. \A m \in Msgs : IsAt(m, "net") /\ \A p \in Places : IsAt(m, p) => p = "net"
    BY MsgsAssumption, HandsDistinct DEF Init, IsAt, Places
  <2>2. \A c \in Chans : Len(queue[c]) = 0
    BY DEF Init
  <2>3. "net" \in Places
    BY DEF Places
  <2> QED
    BY <2>1, <2>2, <2>3 DEF ExactlyOnce
<1>2. IInv /\ ExactlyOnce /\ [Next]_vars => ExactlyOnce'
  BY ExactlyOnceStep
<1> QED
  BY <1>1, <1>2, SpecIInv, PTL DEF Spec

(* Types are kept and no channel overflows. *)
THEOREM TypeCorrect == Spec => []TypeOK
<1>1. IInv => TypeOK
  BY DEF IInv
<1> QED
  BY <1>1, SpecIInv, PTL

(* reorder never blocks while it drains the high or the low channel. *)
THEOREM DrainsDoNotBlock == Spec => []DrainNeverBlocks
<1>1. IInv => DrainNeverBlocks
  BY DEF IInv
<1> QED
  BY <1>1, SpecIInv, PTL

-----------------------------------------------------------------------------
(* The queue implements Dispatch.  What remains to be known for that is where a
   message is that another one may not overtake.

   putLog names only messages that have left the receivers' hands, each once. *)
LogInv ==
    /\ \A i \in 1..Len(putLog) : putLog[i] \notin net /\ \A r \in Receivers : hold[r] # putLog[i]
    /\ \A i, j \in 1..Len(putLog) : putLog[i] = putLog[j] => i = j

(* Each ingress channel holds messages of its priority. *)
SortedInv ==
    \A q \in Priority : \A i \in 1..Len(queue[q]) : PriorityOf[queue[q][i]] = q

(* reorder carries a message of the priority it drains, after the picked one if
   that has the same priority.                                              *)
CarryInv ==
    hold["carry"] # None =>
        stage \in Priority /\ PriorityOf[hold["carry"]] = stage /\ ~PickedDue

FlowInv == LogInv /\ SortedInv /\ CarryInv

(* o was put before m and m has to wait for it. *)
MayNotPass(m, o) ==
    /\ D!WaitsFor(m, o)
    /\ \E i, j \in 1..Len(putLog) : i < j /\ putLog[i] = o /\ putLog[j] = m

(* The message at position i of the channel is one that reorder moves in its
   current round: its length is still to be read, or covers the position.   *)
DueHigh(i) == stage \in LenStages \/ i <= left["high"]
DueNormal(i) == stage \in {"lenLow", "lenNormal"} \/ i <= left["normal"]

(* If o is in the high or the normal channel, reorder moves it in this round. *)
Due(o) ==
    /\ \A i \in 1..Len(queue["high"]) : queue["high"][i] = o => DueHigh(i)
    /\ \A i \in 1..Len(queue["normal"]) : queue["normal"][i] = o => DueNormal(i)

(* o is not in channel c; it is ahead of m there if both are. *)
NotIn(o, c) == \A i \in 1..Len(queue[c]) : queue[c][i] # o
Ahead(o, m, c) == \A i, j \in 1..Len(queue[c]) : queue[c][i] = o /\ queue[c][j] = m => i < j

(* When m is in the egress channel, o is ahead of it there or has been taken. *)
EgressOrder(m, o) ==
    /\ Ahead(o, m, "egress")
    /\ NotIn(m, "egress") \/ /\ \A q \in Priority : NotIn(o, q)
                             /\ hold["picked"] # o /\ hold["carry"] # o

(* When reorder carries m, o has left the ingress channels. *)
CarryOrder(m, o) ==
    hold["carry"] = m => hold["picked"] # o /\ \A q \in Priority : NotIn(o, q)

(* When reorder has picked m, o is due before m's stage is over. *)
PickedOrder(m, o) ==
    hold["picked"] = m => Due(o) /\ NotIn(o, PriorityOf[m])

(* In m's own channel o is ahead of it, and if reorder has counted m it moves o
   in the same round, in an earlier stage.                                  *)
IngressOrder(m, o) ==
    /\ Ahead(o, m, "high") /\ Ahead(o, m, "low")
    /\ \A j \in 1..Len(queue["low"]) : queue["low"][j] = m /\ j <= left["low"] => Due(o)

(* Wherever m is between its channel and a worker, a message o that it may not
   pass is ahead of it.                                                     *)
InOrderHere(m, o) ==
    EgressOrder(m, o) /\ CarryOrder(m, o) /\ PickedOrder(m, o) /\ IngressOrder(m, o)

OrderInv == \A m, o \in Msgs : MayNotPass(m, o) => InOrderHere(m, o)

(* What a send of the message in hand h on channel c changes. *)
LEMMA SendFacts ==
    ASSUME TypeOK, NEW h \in Hands, NEW c \in Chans, hold[h] \in Msgs, SendFrom(h, c)
    PROVE  /\ Len(queue[c]) \in Nat
           /\ Len(queue'[c]) = Len(queue[c]) + 1
           /\ queue'[c][Len(queue[c]) + 1] = hold[h]
           /\ \A i \in 1..Len(queue[c]) : queue'[c][i] = queue[c][i]
           /\ \A d \in Chans \ {c} : queue'[d] = queue[d]
           /\ hold'[h] = None /\ \A k \in Hands \ {h} : hold'[k] = hold[k]
  BY DEF TypeOK, SendFrom

(* What a receive from channel c into hand h changes. *)
LEMMA RecvFacts ==
    ASSUME TypeOK, NEW h \in Hands, NEW c \in Chans, RecvInto(c, h)
    PROVE  /\ Len(queue[c]) \in Nat \ {0}
           /\ Len(queue'[c]) = Len(queue[c]) - 1
           /\ \A i \in 1..(Len(queue[c]) - 1) : queue'[c][i] = queue[c][i + 1]
           /\ \A d \in Chans \ {c} : queue'[d] = queue[d]
           /\ hold'[h] = queue[c][1] /\ \A k \in Hands \ {h} : hold'[k] = hold[k]
           /\ queue[c][1] \in Msgs
  BY DEF TypeOK, RecvInto

(* The steps that neither move a message between channels nor read a length
   leave everything the order depends on as it is.                          *)
LEMMA QuietSteps ==
    ASSUME IInv, [Next]_vars
    PROVE  \/ \E r \in Receivers : Enqueue(r)
           \/ \E q \in Priority : ReorderPick(q)
           \/ ReorderLen \/ ReorderSendPicked \/ ReorderRecv \/ ReorderSendCarry
           \/ \E w \in Workers : WorkerTake(w)
           \/ /\ UNCHANGED <<queue, putLog, left>>
              /\ hold'["picked"] = hold["picked"] /\ hold'["carry"] = hold["carry"]
              /\ stage \in LenStages <=> stage' \in LenStages
              /\ stage \in LenStages => stage' = stage
              /\ stage' = stage \/ stage \notin Priority \/ hold["carry"] = None
<1> DEFINE Quiet ==
             /\ UNCHANGED <<queue, putLog, left>>
             /\ hold'["picked"] = hold["picked"] /\ hold'["carry"] = hold["carry"]
             /\ stage \in LenStages <=> stage' \in LenStages
             /\ stage \in LenStages => stage' = stage
             /\ stage' = stage \/ stage \notin Priority \/ hold["carry"] = None
<1> USE MsgsAssumption, HandsDistinct DEF receiverVars, reorderVars, workerVars
<1>1. ASSUME NEW r \in Receivers, NEW m \in Msgs, putMetaMsg(r, m) PROVE Quiet
  BY <1>1 DEF putMetaMsg, IInv, TypeOK
<1>2. ASSUME NEW r \in Receivers, initChan(r) PROVE Quiet
  <2>1. hold[r] \in Msgs /\ PriorityOf[hold[r]] \in Priority
    BY <1>2 DEF initChan, IInv, HandsInv, TypeOK
  <2>2. queue' = queue
    BY <1>2, <2>1 DEF initChan, IInv, MadeInv, TypeOK, Chans
  <2> QED
    BY <1>2, <2>2 DEF initChan, IInv, MadeInv, LenStages, Priority
<1>3. CASE ReorderEnter \/ ReorderStop
  BY <1>3 DEF ReorderEnter, ReorderStop, LenStages, Priority
<1>4. CASE ReorderNext
  BY <1>4 DEF ReorderNext, AfterDrain, Priority, LenStages
<1>5. ASSUME NEW w \in Workers, WorkerHandle(w) PROVE Quiet
  BY <1>5 DEF WorkerHandle, IInv, TypeOK
<1>6. ASSUME \/ \E w \in Workers : WorkerEnter(w) \/ WorkerExit(w)
             \/ autoScaler \/ close \/ UNCHANGED vars
      PROVE  Quiet
  BY <1>6 DEF WorkerEnter, WorkerExit, autoScaler, ScalerCheck, ScalerKeep, ScalerAdd,
              ScalerRemove, close, CloseDone, CloseSetNil, CloseWorkers, CloseReturn, vars
<1> QED
  BY <1>1, <1>2, <1>3, <1>4, <1>5, <1>6 DEF Next, receiver, reorder, worker

(* A message in the hand of a receiver is nowhere else. *)
LEMMA InHandOnly ==
    ASSUME ExactlyOnce, NEW h \in Hands, hold[h] \in Msgs
    PROVE  /\ hold[h] \notin net
           /\ \A k \in Hands \ {h} : hold[k] # hold[h]
           /\ \A c \in Chans : NotIn(hold[h], c)
<1> USE HandsDistinct
<1>1. IsAt(hold[h], h) /\ h \in Places
  BY DEF IsAt, Places
<1>2. \A p \in Places : IsAt(hold[h], p) => p = h
  BY <1>1 DEF ExactlyOnce
<1> QED
  BY <1>2 DEF IsAt, Places, NotIn

(* Every step keeps putLog in step with the receivers, the channels sorted by
   priority, and what reorder carries in step with where it is.             *)
LEMMA FlowStep ==
    ASSUME IInv, ExactlyOnce, FlowInv, [Next]_vars
    PROVE  FlowInv'
<1> USE MsgsAssumption, HandsDistinct
<1>0. TypeOK /\ TypeOK' /\ HandsInv
  BY TypeStep DEF IInv
<1>e. ASSUME NEW r \in Receivers, Enqueue(r)
      PROVE  hold[r] \in Msgs /\ PriorityOf[hold[r]] \in Priority
  BY <1>0, <1>e DEF Enqueue, HandsInv, TypeOK
<1>1. LogInv'
  <2> USE DEF LogInv
  <2>1. ASSUME NEW r \in Receivers, NEW m \in Msgs, putMetaMsg(r, m) PROVE LogInv'
    BY <1>0, <2>1 DEF putMetaMsg, TypeOK, FlowInv
  <2>2. ASSUME NEW r \in Receivers, Enqueue(r) PROVE LogInv'
    <3>1. hold[r] \in Msgs /\ hold'[r] = None /\ \A k \in Hands \ {r} : hold'[k] = hold[k]
      BY <1>0, <1>e, <2>2 DEF Enqueue, SendFrom, TypeOK
    <3>2. hold[r] \notin net /\ \A s \in Receivers \ {r} : hold[s] # hold[r]
      BY <3>1, InHandOnly
    <3>3. net' = net /\ putLog \in Seq(Msgs) /\ putLog' = Append(putLog, hold[r])
      BY <1>0, <2>2 DEF Enqueue, receiverVars, TypeOK
    <3>4. ASSUME NEW i \in 1..Len(putLog')
          PROVE  putLog'[i] \notin net' /\ \A s \in Receivers : hold'[s] # putLog'[i]
      <4>1. CASE i \in 1..Len(putLog)
        BY <3>1, <3>3, <4>1 DEF FlowInv
      <4>2. CASE i = Len(putLog) + 1
        BY <3>1, <3>2, <3>3, <4>2
      <4> QED
        BY <3>3, <4>1, <4>2
    <3>5. \A i \in 1..Len(putLog) : putLog[i] # hold[r]
      BY DEF FlowInv
    <3>6. ASSUME NEW i \in 1..Len(putLog'), NEW j \in 1..Len(putLog'), putLog'[i] = putLog'[j]
          PROVE  i = j
      BY <3>1, <3>3, <3>5, <3>6 DEF FlowInv
    <3> QED
      BY <3>4, <3>6
  <2>3. ASSUME UNCHANGED <<net, putLog>>, \A r \in Receivers : hold'[r] = hold[r] PROVE LogInv'
    BY <2>3 DEF FlowInv
  <2>4. ASSUME NEW r \in Receivers, initChan(r) PROVE LogInv'
    BY <2>3, <2>4 DEF initChan
  <2>5. CASE reorder
    BY <1>0, <2>3, <2>5 DEF reorder, ReorderEnter, ReorderStop, ReorderLen, ReorderNext, ReorderPick,
       ReorderSendPicked, ReorderRecv, ReorderSendCarry, SendFrom, RecvInto, receiverVars, TypeOK
  <2>6. ASSUME NEW w \in Workers, worker(w) PROVE LogInv'
    BY <1>0, <2>3, <2>6 DEF worker, WorkerEnter, WorkerTake, WorkerHandle, WorkerExit, RecvInto,
       receiverVars, TypeOK
  <2>7. CASE autoScaler \/ close \/ UNCHANGED vars
    BY <2>3, <2>7 DEF autoScaler, ScalerCheck, ScalerKeep, ScalerAdd, ScalerRemove, close,
       CloseDone, CloseSetNil, CloseWorkers, CloseReturn, vars, receiverVars
  <2> QED
    BY <2>1, <2>2, <2>4, <2>5, <2>6, <2>7 DEF Next, receiver
<1>2. SortedInv'
  <2> USE DEF SortedInv, Priority, Chans
  <2>1. ASSUME NEW r \in Receivers, Enqueue(r) PROVE SortedInv'
    <3> PICK c \in Priority : c = PriorityOf[hold[r]]
      BY <1>e, <2>1
    <3>1. SendFrom(r, c) /\ c \in Chans /\ r \in Hands /\ hold[r] \in Msgs
      BY <1>e, <2>1 DEF Enqueue
    <3> HIDE DEF Priority, Chans
    <3>2. ASSUME NEW q \in Priority, NEW i \in 1..Len(queue'[q]) PROVE PriorityOf[queue'[q][i]] = q
      BY <1>0, <3>1, SendFacts DEF FlowInv, Chans
    <3> QED
      BY <3>2
  <2>2. ASSUME NEW q \in Priority, NEW h \in Hands, RecvInto(q, h) PROVE SortedInv'
    <3>1. q \in Chans
      OBVIOUS
    <3> HIDE DEF Priority, Chans
    <3>2. ASSUME NEW p \in Priority, NEW i \in 1..Len(queue'[p]) PROVE PriorityOf[queue'[p][i]] = p
      <4>1. CASE p = q
        <5>1. i + 1 \in 1..Len(queue[q]) /\ queue'[q][i] = queue[q][i + 1]
          BY <1>0, <2>2, <3>1, <4>1, RecvFacts
        <5> QED
          BY <4>1, <5>1 DEF FlowInv
      <4>2. CASE p # q
        BY <1>0, <2>2, <3>1, <4>2, RecvFacts DEF FlowInv, Chans
      <4> QED
        BY <4>1, <4>2
    <3> QED
      BY <3>2
  <2>3. ASSUME NEW h \in Hands, hold[h] # None, SendFrom(h, "egress") PROVE SortedInv'
    BY <1>0, <2>3, SendFacts, SMTT(30) DEF FlowInv, TypeOK
  <2>4. ASSUME NEW h \in Hands, RecvInto("egress", h) PROVE SortedInv'
    <3>1. \A q \in Priority : queue'[q] = queue[q]
      BY <1>0, <2>4, RecvFacts
    <3> QED
      BY <3>1 DEF FlowInv
  <2>5. CASE UNCHANGED queue
    BY <2>5 DEF FlowInv
  <2>6. ASSUME NEW w \in Workers, WorkerTake(w) PROVE SortedInv'
    <3>1. src[w] \in {"normal", "egress"} /\ RecvInto(src[w], w)
      BY <1>0, <2>6 DEF WorkerTake, TypeOK
    <3> QED
      BY <2>2, <2>4, <3>1
  <2>7. CASE ReorderSendPicked \/ ReorderSendCarry
    BY <2>3, <2>7 DEF ReorderSendPicked, ReorderSendCarry, PickedDue
  <2>8. CASE ReorderRecv \/ \E q \in Priority : ReorderPick(q)
    BY <2>2, <2>8 DEF ReorderRecv, ReorderPick
  <2> QED
    BY <2>1, <2>5, <2>6, <2>7, <2>8, QuietSteps DEF ReorderLen
<1>3. CarryInv'
  <2> USE DEF CarryInv, PickedDue
  <2>1. ASSUME NEW r \in Receivers, Enqueue(r) PROVE CarryInv'
    BY <1>0, <2>1 DEF Enqueue, SendFrom, TypeOK, FlowInv, reorderVars
  <2>2. ASSUME NEW q \in Priority, ReorderPick(q) PROVE CarryInv'
    BY <1>0, <2>2 DEF ReorderPick, RecvInto, TypeOK, FlowInv, Priority
  <2>3. CASE ReorderLen
    BY <2>3 DEF ReorderLen, FlowInv, LenStages, Priority
  <2>4. CASE ReorderSendPicked
    BY <1>0, <2>4 DEF ReorderSendPicked, SendFrom, TypeOK, FlowInv, reorderVars
  <2>5. CASE ReorderRecv
    <3>1. stage \in Chans /\ stage \in Priority /\ RecvInto(stage, "carry") /\ stage' = stage /\ ~PickedDue
      BY <2>5 DEF ReorderRecv, Chans
    <3>2. hold'["carry"] = queue[stage][1] /\ hold'["picked"] = hold["picked"] /\ 1 \in 1..Len(queue[stage])
      BY <1>0, <3>1, RecvFacts
    <3>3. PriorityOf[hold'["carry"]] = stage
      BY <3>1, <3>2 DEF FlowInv, SortedInv
    <3> QED
      BY <3>1, <3>2, <3>3
  <2>6. CASE ReorderSendCarry
    BY <1>0, <2>6 DEF ReorderSendCarry, SendFrom, TypeOK, FlowInv, reorderVars
  <2>7. ASSUME NEW w \in Workers, WorkerTake(w) PROVE CarryInv'
    BY <1>0, <2>7 DEF WorkerTake, RecvInto, TypeOK, FlowInv, reorderVars
  <2> QED
    BY <2>1, <2>2, <2>3, <2>4, <2>5, <2>6, <2>7, QuietSteps DEF FlowInv
<1> QED
  BY <1>1, <1>2, <1>3 DEF FlowInv

(* Enqueue puts a message behind everything put before it. *)
LEMMA EnqueueOrder ==
    ASSUME IInv, ExactlyOnce, FlowInv, OrderInv, NEW r \in Receivers, Enqueue(r)
    PROVE  OrderInv'
<1> USE MsgsAssumption, HandsDistinct
<1>0. TypeOK /\ HandsInv /\ DrainNeverBlocks
  BY DEF IInv
<1>1. hold[r] \in Msgs /\ PriorityOf[hold[r]] \in Priority
  BY <1>0 DEF Enqueue, HandsInv, TypeOK
<1> PICK x \in Msgs, c \in Priority : x = hold[r] /\ c = PriorityOf[x]
  BY <1>1
<1>2. SendFrom(r, c) /\ UNCHANGED <<stage, left>> /\ putLog' = Append(putLog, x) /\ putLog \in Seq(Msgs)
  BY <1>0 DEF Enqueue, reorderVars, TypeOK
<1>3. /\ Len(queue[c]) \in Nat
      /\ Len(queue'[c]) = Len(queue[c]) + 1
      /\ queue'[c][Len(queue[c]) + 1] = x
      /\ \A i \in 1..Len(queue[c]) : queue'[c][i] = queue[c][i]
      /\ \A d \in Chans \ {c} : queue'[d] = queue[d]
      /\ hold'["picked"] = hold["picked"] /\ hold'["carry"] = hold["carry"]
  BY <1>0, <1>2, SendFacts DEF Chans
<1>4. (\A d \in Chans : NotIn(x, d)) /\ hold["picked"] # x /\ hold["carry"] # x
  BY InHandOnly
<1>5. \A i \in 1..Len(putLog) : putLog[i] # x
  BY DEF FlowInv, LogInv
<1>6. SUFFICES ASSUME NEW m \in Msgs, NEW o \in Msgs, MayNotPass(m, o)'
               PROVE  InOrderHere(m, o)'
  BY DEF OrderInv, InOrderHere
<1>7. PICK i \in 1..Len(putLog'), j \in 1..Len(putLog') : i < j /\ putLog'[i] = o /\ putLog'[j] = m
  BY <1>6 DEF MayNotPass
<1>8. D!WaitsFor(m, o) /\ i \in 1..Len(putLog) /\ putLog[i] = o /\ o # x
  BY <1>2, <1>5, <1>6, <1>7 DEF MayNotPass, D!WaitsFor
<1>9. CASE m = x
  <2>0. ASSUME NEW d \in Chans, NEW k \in 1..Len(queue'[d]), queue'[d][k] = x
        PROVE  d = c /\ k = Len(queue[c]) + 1
    <3>1. CASE d # c
      <4>1. queue'[d] = queue[d] /\ NotIn(x, d)
        BY <1>3, <1>4, <3>1
      <4> QED
        BY <2>0, <4>1 DEF NotIn
    <3>2. CASE d = c
      <4>1. k \notin 1..Len(queue[c])
        BY <1>3, <1>4, <2>0, <3>2 DEF NotIn
      <4> QED
        BY <1>3, <3>2, <4>1
    <3> QED
      BY <3>1, <3>2
  <2>1. ASSUME NEW d \in Chans PROVE Ahead(o, m, d)'
    <3> SUFFICES ASSUME NEW n \in 1..Len(queue'[d]), NEW k \in 1..Len(queue'[d]),
                        queue'[d][n] = o, queue'[d][k] = x
                 PROVE  n < k
      BY <1>9 DEF Ahead
    <3>1. d = c /\ k = Len(queue[c]) + 1
      BY <2>0
    <3> QED
      BY <1>3, <1>8, <3>1
  <2>2. NotIn(m, "egress")' /\ hold'["picked"] # m /\ hold'["carry"] # m
    BY <1>3, <1>4, <1>9 DEF NotIn, Chans, Priority
  <2>3. \A k \in 1..Len(queue'["low"]) : queue'["low"][k] = m => ~(k <= left'["low"])
    <3> SUFFICES ASSUME NEW k \in 1..Len(queue'["low"]), queue'["low"][k] = x
                 PROVE  ~(k <= left["low"])
      BY <1>2, <1>9
    <3>1. c = "low" /\ k = Len(queue[c]) + 1
      BY <2>0 DEF Chans, Priority
    <3> QED
      BY <1>0, <1>3, <3>1 DEF DrainNeverBlocks, TypeOK, Priority
  <2> QED
    BY <2>1, <2>2, <2>3
    DEF InOrderHere, EgressOrder, CarryOrder, PickedOrder, IngressOrder, Chans, Priority
<1>10. CASE m # x
  <2>1. MayNotPass(m, o)
    <3>1. j \in 1..Len(putLog) /\ putLog[j] = m
      BY <1>2, <1>7, <1>10
    <3> QED
      BY <1>7, <1>8, <3>1 DEF MayNotPass
  <2>2. InOrderHere(m, o)
    BY <2>1 DEF OrderInv, InOrderHere
  <2>3. \A d \in Chans : \A k \in 1..Len(queue'[d]) :
           (queue'[d][k] = m \/ queue'[d][k] = o) => k \in 1..Len(queue[d]) /\ queue'[d][k] = queue[d][k]
    <3> SUFFICES ASSUME NEW d \in Chans, NEW k \in 1..Len(queue'[d]),
                        queue'[d][k] = m \/ queue'[d][k] = o
                 PROVE  k \in 1..Len(queue[d]) /\ queue'[d][k] = queue[d][k]
      OBVIOUS
    <3>1. CASE d # c
      BY <1>3, <3>1
    <3>2. CASE d = c
      <4>1. k # Len(queue[c]) + 1
        BY <1>3, <1>8, <1>10, <3>2
      <4> QED
        BY <1>3, <3>2, <4>1
    <3> QED
      BY <3>1, <3>2
  <2>4. \A d \in Chans : /\ NotIn(o, d) => NotIn(o, d)'
                         /\ NotIn(m, d) => NotIn(m, d)'
                         /\ Ahead(o, m, d) => Ahead(o, m, d)'
    BY <2>3 DEF NotIn, Ahead
  <2>5. Due(o) => Due(o)'
    BY <1>2, <2>3 DEF Due, DueHigh, DueNormal, Chans, Priority
  <2>6. EgressOrder(m, o)'
    BY <1>3, <2>2, <2>4 DEF InOrderHere, EgressOrder, Chans
  <2>7. CarryOrder(m, o)' /\ PickedOrder(m, o)'
    BY <1>3, <2>2, <2>4, <2>5 DEF InOrderHere, CarryOrder, PickedOrder, Chans
  <2>8. IngressOrder(m, o)'
    BY <1>2, <2>2, <2>3, <2>4, <2>5 DEF InOrderHere, IngressOrder, Chans, Priority
  <2> QED
    BY <2>6, <2>7, <2>8 DEF InOrderHere
<1> QED
  BY <1>9, <1>10

(* A message does not have to wait for itself. *)
LEMMA PassedIsOther ==
    ASSUME TypeOK, FlowInv, NEW m \in Msgs, NEW o \in Msgs, MayNotPass(m, o)
    PROVE  m # o
  BY DEF MayNotPass, FlowInv, LogInv, TypeOK

(* A receive moves the other messages of its channel one position ahead: none
   appears anywhere else and none passes another.                           *)
LEMMA RecvShifts ==
    ASSUME TypeOK, NEW h \in Hands, NEW c \in Chans, RecvInto(c, h), NEW m \in Msgs, NEW o \in Msgs
    PROVE  /\ \A k \in 1..Len(queue'[c]) :
                k + 1 \in 1..Len(queue[c]) /\ queue'[c][k] = queue[c][k + 1]
           /\ \A d \in Chans \ {c} : queue'[d] = queue[d]
           /\ \A d \in Chans : NotIn(o, d) => NotIn(o, d)'
           /\ \A d \in Chans : NotIn(m, d) => NotIn(m, d)'
           /\ \A d \in Chans : Ahead(o, m, d) => Ahead(o, m, d)'
           /\ NotIn(o, c) => hold'[h] # o
<1>1. \A k \in 1..Len(queue'[c]) : k + 1 \in 1..Len(queue[c]) /\ queue'[c][k] = queue[c][k + 1]
  BY RecvFacts
<1>2. \A d \in Chans \ {c} : queue'[d] = queue[d]
  BY RecvFacts
<1>3. \A x \in Msgs, d \in Chans : NotIn(x, d) => NotIn(x, d)'
  BY <1>1, <1>2 DEF NotIn
<1>4. NotIn(o, c) => hold'[h] # o
  <2>1. hold'[h] = queue[c][1] /\ 1 \in 1..Len(queue[c])
    BY RecvFacts
  <2> QED
    BY <2>1 DEF NotIn
<1>5. ASSUME NEW d \in Chans, Ahead(o, m, d) PROVE Ahead(o, m, d)'
  <2>1. CASE d # c
    BY <1>2, <1>5, <2>1 DEF Ahead
  <2>2. CASE d = c
    <3> SUFFICES ASSUME NEW i \in 1..Len(queue'[c]), NEW j \in 1..Len(queue'[c]),
                        queue'[c][i] = o, queue'[c][j] = m
                 PROVE  i < j
      BY <2>2 DEF Ahead
    <3>1. /\ i + 1 \in 1..Len(queue[c]) /\ queue[c][i + 1] = o
          /\ j + 1 \in 1..Len(queue[c]) /\ queue[c][j + 1] = m
      BY <1>1
    <3>2. i + 1 < j + 1
      BY <1>5, <2>2, <3>1 DEF Ahead
    <3> QED
      BY <3>2
  <2> QED
    BY <2>1, <2>2
<1> QED
  BY <1>1, <1>2, <1>3, <1>4, <1>5

(* The first message of a channel of high or low priority is ahead of those
   that may not be passed by it.                                            *)
LEMMA HeadPassesNone ==
    ASSUME TypeOK, SortedInv, NEW q \in Priority, queue[q] # <<>>, NEW o \in Msgs,
           D!WaitsFor(queue[q][1], o), Ahead(o, queue[q][1], "high"), Ahead(o, queue[q][1], "low")
    PROVE  NotIn(o, q)
<1>1. 1 \in 1..Len(queue[q]) /\ PriorityOf[queue[q][1]] = q
  BY DEF TypeOK, SortedInv, Chans
<1>2. q \in {"high", "low"}
  BY <1>1 DEF D!WaitsFor, Priority
<1> QED
  BY <1>1, <1>2 DEF Ahead, NotIn

(* The select picks the head of its channel, and all that waits is then due. *)
LEMMA PickOrder ==
    ASSUME IInv, FlowInv, OrderInv, NEW q \in Priority, ReorderPick(q)
    PROVE  OrderInv'
<1> USE MsgsAssumption, HandsDistinct
<1>0. /\ TypeOK /\ q \in Chans /\ RecvInto(q, "picked") /\ stage' = "lenLow"
      /\ putLog' = putLog /\ left' = left /\ left["low"] = 0
      /\ hold["carry"] = None /\ queue[q] # <<>> /\ SortedInv
  BY DEF IInv, LeftInv, FlowInv, CarryInv, ReorderPick, RecvInto, Chans, Priority
<1>1. SUFFICES ASSUME NEW m \in Msgs, NEW o \in Msgs, MayNotPass(m, o)'
               PROVE  InOrderHere(m, o)'
  BY DEF OrderInv, InOrderHere
<1>2. MayNotPass(m, o) /\ D!WaitsFor(m, o) /\ InOrderHere(m, o)
  BY <1>0, <1>1 DEF MayNotPass, OrderInv, InOrderHere, D!WaitsFor
<1>3. /\ \A d \in Chans : NotIn(o, d) => NotIn(o, d)'
      /\ \A d \in Chans : NotIn(m, d) => NotIn(m, d)'
      /\ \A d \in Chans : Ahead(o, m, d) => Ahead(o, m, d)'
      /\ NotIn(o, q) => hold'["picked"] # o
  BY <1>0, RecvShifts
<1>4. hold'["carry"] = None /\ hold'["picked"] = queue[q][1] /\ PriorityOf[queue[q][1]] = q
  BY <1>0, RecvFacts DEF SortedInv
<1>5. Due(o)'
  BY <1>0 DEF Due, DueHigh, DueNormal, LenStages
<1>6. EgressOrder(m, o)'
  BY <1>0, <1>2, <1>3, <1>4 DEF InOrderHere, EgressOrder, Chans, Priority
<1>7. CarryOrder(m, o)'
  BY <1>4 DEF CarryOrder
<1>8. PickedOrder(m, o)'
  <2> SUFFICES ASSUME m = queue[q][1] PROVE NotIn(o, q)'
    BY <1>4, <1>5 DEF PickedOrder
  <2>1. NotIn(o, q)
    BY <1>0, <1>2, HeadPassesNone DEF InOrderHere, IngressOrder
  <2> QED
    BY <1>0, <1>3, <2>1
<1>9. IngressOrder(m, o)'
  BY <1>2, <1>3, <1>5 DEF InOrderHere, IngressOrder, Chans, Priority
<1> QED
  BY <1>6, <1>7, <1>8, <1>9 DEF InOrderHere

(* A message of high or low priority has nothing to wait for in the channels
   once reorder has come to its stage and it is ahead in its own channel.   *)
LEMMA StageReached ==
    ASSUME TypeOK, LeftInv, SortedInv, NEW m \in Msgs, NEW o \in Msgs, D!WaitsFor(m, o),
           PriorityOf[m] = stage, NotIn(o, stage), stage = "low" => Due(o)
    PROVE  \A q \in Priority : NotIn(o, q)
<1>1. CASE stage = "high"
  <2>1. PriorityOf[o] = "high"
    BY <1>1 DEF D!WaitsFor
  <2> QED
    BY <1>1, <2>1 DEF SortedInv, NotIn
<1>2. CASE stage = "low"
  <2>1. left["high"] = 0 /\ left["normal"] = 0 /\ stage \notin LenStages
    BY <1>2 DEF LeftInv, LenStages
  <2>2. NotIn(o, "high") /\ NotIn(o, "normal")
    BY <1>2, <2>1 DEF Due, DueHigh, DueNormal, NotIn, LenStages
  <2> QED
    BY <1>2, <2>2 DEF Priority
<1> QED
  BY <1>1, <1>2 DEF D!WaitsFor

(* A drain loop takes the head of its channel when nothing it may not pass is
   left in the channels or picked.                                          *)
LEMMA DrainOrder ==
    ASSUME IInv, FlowInv, OrderInv, ReorderRecv
    PROVE  OrderInv'
<1> USE MsgsAssumption, HandsDistinct
<1>0. /\ TypeOK /\ LeftInv /\ HandsInv /\ SortedInv /\ stage \in Chans /\ stage \in Priority
      /\ RecvInto(stage, "carry") /\ stage' = stage /\ stage \notin LenStages
      /\ putLog' = putLog /\ left[stage] \in Nat \ {0} /\ queue[stage] # <<>> /\ ~PickedDue
      /\ left' = [left EXCEPT ![stage] = @ - 1] /\ left \in [Priority -> Nat]
  BY DEF IInv, FlowInv, ReorderRecv, RecvInto, Chans, Priority, LenStages, TypeOK
<1>1. SUFFICES ASSUME NEW m \in Msgs, NEW o \in Msgs, MayNotPass(m, o)'
               PROVE  InOrderHere(m, o)'
  BY DEF OrderInv, InOrderHere
<1>2. MayNotPass(m, o) /\ D!WaitsFor(m, o) /\ InOrderHere(m, o)
  BY <1>0, <1>1 DEF MayNotPass, OrderInv, InOrderHere, D!WaitsFor
<1>3. /\ \A d \in Chans : NotIn(o, d) => NotIn(o, d)'
      /\ \A d \in Chans : NotIn(m, d) => NotIn(m, d)'
      /\ \A d \in Chans : Ahead(o, m, d) => Ahead(o, m, d)'
      /\ NotIn(o, stage) => hold'["carry"] # o
  BY <1>0, RecvShifts
<1>4. /\ \A k \in 1..Len(queue'[stage]) :
           k + 1 \in 1..Len(queue[stage]) /\ queue'[stage][k] = queue[stage][k + 1]
      /\ \A d \in Chans \ {stage} : queue'[d] = queue[d]
  BY <1>0, RecvShifts
<1>5. /\ hold'["carry"] = queue[stage][1] /\ hold'["picked"] = hold["picked"]
      /\ PriorityOf[queue[stage][1]] = stage /\ 1 \in 1..Len(queue[stage])
  BY <1>0, RecvFacts DEF SortedInv
<1>6. ASSUME Due(o) PROVE Due(o)'
  <2>1. ASSUME NEW q \in {"high", "normal"}, NEW i \in 1..Len(queue'[q]), queue'[q][i] = o,
               \A k \in 1..Len(queue[q]) : queue[q][k] = o => k <= left[q]
        PROVE  i <= left'[q]
    <3>1. CASE q = stage
      <4>1. i + 1 \in 1..Len(queue[q]) /\ queue[q][i + 1] = o
        BY <1>4, <2>1, <3>1
      <4>2. i + 1 <= left[q] /\ left'[q] = left[q] - 1 /\ left[q] \in Nat
        BY <1>0, <2>1, <3>1, <4>1 DEF Priority
      <4> QED
        BY <4>2
    <3>2. CASE q # stage
      BY <1>0, <1>4, <2>1, <3>2 DEF Chans, Priority
    <3> QED
      BY <3>1, <3>2
  <2> QED
    BY <1>0, <1>6, <2>1 DEF Due, DueHigh, DueNormal, LenStages
<1>7. EgressOrder(m, o)'
  BY <1>0, <1>2, <1>3, <1>5 DEF InOrderHere, EgressOrder, Chans
<1>8. CarryOrder(m, o)'
  <2> SUFFICES ASSUME m = queue[stage][1]
               PROVE  hold["picked"] # o /\ \A q \in Priority : NotIn(o, q)'
    BY <1>5 DEF CarryOrder
  <2>1. NotIn(o, stage)
    BY <1>0, <1>2, HeadPassesNone DEF InOrderHere, IngressOrder
  <2>2. stage = "low" => Due(o)
    BY <1>0, <1>2, <1>5 DEF InOrderHere, IngressOrder
  <2>3. \A q \in Priority : NotIn(o, q)
    BY <1>0, <1>2, <1>5, <2>1, <2>2, StageReached
  <2>4. hold["picked"] # o
    <3> SUFFICES ASSUME hold["picked"] = o PROVE FALSE
      OBVIOUS
    <3>1. o # None /\ PriorityOf[o] # stage
      BY <1>0 DEF PickedDue
    <3>2. stage = "high" => PriorityOf[o] = "high"
      BY <1>2, <1>5 DEF D!WaitsFor
    <3>3. stage = "low" => PriorityOf[o] = "low"
      BY <1>0, <3>1 DEF HandsInv
    <3> QED
      BY <1>2, <1>5, <3>1, <3>2, <3>3 DEF D!WaitsFor
  <2> QED
    BY <1>3, <2>3, <2>4 DEF Chans
<1>9. PickedOrder(m, o)'
  BY <1>2, <1>3, <1>5, <1>6 DEF InOrderHere, PickedOrder, Chans
<1>10. IngressOrder(m, o)'
  <2> SUFFICES ASSUME NEW j \in 1..Len(queue'["low"]), queue'["low"][j] = m, j <= left'["low"]
               PROVE  Due(o)
    BY <1>2, <1>3, <1>6 DEF InOrderHere, IngressOrder, Chans, Priority
  <2>1. CASE stage = "low"
    <3>1. j + 1 \in 1..Len(queue["low"]) /\ queue["low"][j + 1] = m
      BY <1>4, <2>1
    <3>2. j + 1 <= left["low"]
      BY <1>0, <2>1 DEF Priority
    <3> QED
      BY <1>2, <3>1, <3>2 DEF InOrderHere, IngressOrder
  <2>2. CASE stage # "low"
    BY <1>0, <1>2, <1>4, <2>2 DEF InOrderHere, IngressOrder, Chans, Priority
  <2> QED
    BY <2>1, <2>2
<1> QED
  BY <1>7, <1>8, <1>9, <1>10 DEF InOrderHere

(* reorder sends to the egress channel only a message that has nothing to wait
   for behind it.                                                           *)
LEMMA SendOrder ==
    ASSUME TypeOK, FlowInv, OrderInv, NEW h \in {"picked", "carry"}, NEW x \in Msgs, hold[h] = x,
           SendFrom(h, "egress"), UNCHANGED <<putLog, left, stage>>,
           \A o \in Msgs : MayNotPass(x, o) =>
               /\ \A q \in Priority : NotIn(o, q)
               /\ hold["picked"] # o /\ hold["carry"] # o
    PROVE  OrderInv'
<1> USE MsgsAssumption, HandsDistinct
<1>1. SUFFICES ASSUME NEW m \in Msgs, NEW o \in Msgs, MayNotPass(m, o)'
               PROVE  InOrderHere(m, o)'
  BY DEF OrderInv, InOrderHere
<1>2. MayNotPass(m, o) /\ InOrderHere(m, o)
  BY <1>1 DEF MayNotPass, OrderInv, InOrderHere, D!WaitsFor
<1>3. /\ Len(queue["egress"]) \in Nat
      /\ Len(queue'["egress"]) = Len(queue["egress"]) + 1
      /\ queue'["egress"][Len(queue["egress"]) + 1] = x
      /\ \A i \in 1..Len(queue["egress"]) : queue'["egress"][i] = queue["egress"][i]
      /\ \A d \in Priority : queue'[d] = queue[d]
  BY SendFacts DEF Chans, Priority
<1>4. /\ hold'["picked"] = hold["picked"] \/ hold'["picked"] = None
      /\ hold'["carry"] = hold["carry"] \/ hold'["carry"] = None
      /\ None \notin Msgs
  BY DEF SendFrom, TypeOK
<1>5. \A q \in Priority : NotIn(o, q)' <=> NotIn(o, q)
  BY <1>3 DEF NotIn
<1>6. Due(o)' <=> Due(o)
  BY <1>3 DEF Due, DueHigh, DueNormal, Priority
<1>7. EgressOrder(m, o)'
  <2>1. m # o
    BY <1>2, PassedIsOther
  <2>2. CASE m = x
    <3>1. (\A q \in Priority : NotIn(o, q)') /\ hold'["picked"] # o /\ hold'["carry"] # o
      BY <1>2, <1>4, <1>5, <2>2
    <3>2. Ahead(o, m, "egress")'
      <4> SUFFICES ASSUME NEW i \in 1..Len(queue'["egress"]), NEW j \in 1..Len(queue'["egress"]),
                          queue'["egress"][i] = o, queue'["egress"][j] = m
                   PROVE  i < j
        BY DEF Ahead
      <4>1. i \in 1..Len(queue["egress"]) /\ queue["egress"][i] = o
        BY <1>3, <2>1, <2>2
      <4>2. CASE j = Len(queue["egress"]) + 1
        BY <1>3, <4>1, <4>2
      <4>3. CASE j \in 1..Len(queue["egress"])
        <5>1. queue["egress"][j] = m
          BY <1>3, <4>3
        <5> QED
          BY <1>2, <4>1, <4>3, <5>1 DEF InOrderHere, EgressOrder, Ahead
      <4> QED
        BY <1>3, <4>2, <4>3
    <3> QED
      BY <3>1, <3>2 DEF EgressOrder
  <2>3. CASE m # x
    <3>1. CASE NotIn(m, "egress")
      <4>1. NotIn(m, "egress")'
        BY <1>3, <2>3, <3>1 DEF NotIn
      <4> QED
        BY <4>1 DEF EgressOrder, Ahead, NotIn
    <3>2. CASE ~NotIn(m, "egress")
      <4>1. (\A q \in Priority : NotIn(o, q)) /\ hold["picked"] # o /\ hold["carry"] # o
        BY <1>2, <3>2 DEF InOrderHere, EgressOrder
      <4>2. o # x
        BY <4>1
      <4>3. Ahead(o, m, "egress")'
        <5> SUFFICES ASSUME NEW i \in 1..Len(queue'["egress"]), NEW j \in 1..Len(queue'["egress"]),
                            queue'["egress"][i] = o, queue'["egress"][j] = m
                     PROVE  i < j
          BY DEF Ahead
        <5>1. /\ i \in 1..Len(queue["egress"]) /\ queue["egress"][i] = o
              /\ j \in 1..Len(queue["egress"]) /\ queue["egress"][j] = m
          BY <1>3, <2>3, <4>2, SMTT(30)
        <5> QED
          BY <1>2, <5>1 DEF InOrderHere, EgressOrder, Ahead
      <4> QED
        BY <1>4, <1>5, <4>1, <4>3 DEF EgressOrder
    <3> QED
      BY <3>1, <3>2
  <2> QED
    BY <2>2, <2>3
<1>8. CarryOrder(m, o)' /\ PickedOrder(m, o)'
  BY <1>2, <1>4, <1>5, <1>6 DEF InOrderHere, CarryOrder, PickedOrder
<1>9. IngressOrder(m, o)'
  BY <1>2, <1>3, <1>6 DEF InOrderHere, IngressOrder, Ahead, Priority
<1> QED
  BY <1>7, <1>8, <1>9 DEF InOrderHere

(* A worker takes a message from the egress or the normal ingress channel. *)
LEMMA TakeOrder ==
    ASSUME TypeOK, OrderInv, NEW w \in Workers, WorkerTake(w)
    PROVE  OrderInv'
<1> USE MsgsAssumption, HandsDistinct
<1>0. /\ src[w] \in {"egress", "normal"} /\ src[w] \in Chans /\ RecvInto(src[w], w)
      /\ UNCHANGED <<stage, left, putLog>>
  BY DEF WorkerTake, TypeOK, reorderVars, Chans, Priority
<1>1. SUFFICES ASSUME NEW m \in Msgs, NEW o \in Msgs, MayNotPass(m, o)'
               PROVE  InOrderHere(m, o)'
  BY DEF OrderInv, InOrderHere
<1>2. InOrderHere(m, o)
  BY <1>0, <1>1 DEF MayNotPass, OrderInv, InOrderHere, D!WaitsFor
<1>3. /\ \A d \in Chans : NotIn(o, d) => NotIn(o, d)'
      /\ \A d \in Chans : NotIn(m, d) => NotIn(m, d)'
      /\ \A d \in Chans : Ahead(o, m, d) => Ahead(o, m, d)'
  BY <1>0, RecvShifts
<1>4. /\ \A k \in 1..Len(queue'[src[w]]) :
           k + 1 \in 1..Len(queue[src[w]]) /\ queue'[src[w]][k] = queue[src[w]][k + 1]
      /\ \A d \in Chans \ {src[w]} : queue'[d] = queue[d]
  BY <1>0, RecvShifts
<1>5. hold'["carry"] = hold["carry"] /\ hold'["picked"] = hold["picked"]
  BY <1>0, RecvFacts
<1>6. Due(o) => Due(o)'
  <2>1. CASE src[w] = "egress"
    BY <1>0, <1>4, <2>1 DEF Due, DueHigh, DueNormal, Chans, Priority
  <2>2. CASE src[w] = "normal"
    <3> SUFFICES ASSUME Due(o), NEW i \in 1..Len(queue'["normal"]), queue'["normal"][i] = o
                 PROVE  DueNormal(i)'
      BY <1>0, <1>4, <2>2 DEF Due, DueHigh, Chans, Priority
    <3>1. i + 1 \in 1..Len(queue["normal"]) /\ queue["normal"][i + 1] = o
      BY <1>4, <2>2
    <3>2. DueNormal(i + 1)
      BY <3>1 DEF Due
    <3>3. left["normal"] \in Nat
      BY DEF TypeOK, Priority
    <3> QED
      BY <1>0, <3>2, <3>3 DEF DueNormal
  <2> QED
    BY <1>0, <2>1, <2>2
<1>7. EgressOrder(m, o)' /\ CarryOrder(m, o)' /\ PickedOrder(m, o)'
  BY <1>2, <1>3, <1>5, <1>6 DEF InOrderHere, EgressOrder, CarryOrder, PickedOrder, Chans
<1>8. IngressOrder(m, o)'
  BY <1>0, <1>2, <1>3, <1>4, <1>6 DEF InOrderHere, IngressOrder, Chans, Priority
<1> QED
  BY <1>7, <1>8 DEF InOrderHere

(* reorder reads the lengths lowest priority first: what is before a message
   that it counts is counted later.                                         *)
LEMMA LenOrder ==
    ASSUME TypeOK, OrderInv, ReorderLen
    PROVE  OrderInv'
<1> USE MsgsAssumption, HandsDistinct
<1>0. UNCHANGED <<queue, hold, putLog>> /\ left \in [Priority -> Nat] /\ stage \in LenStages
  BY DEF ReorderLen, TypeOK
<1>1. SUFFICES ASSUME NEW m \in Msgs, NEW o \in Msgs, MayNotPass(m, o)'
               PROVE  InOrderHere(m, o)'
  BY DEF OrderInv, InOrderHere
<1>2. InOrderHere(m, o)
  BY <1>0, <1>1 DEF MayNotPass, OrderInv, InOrderHere, D!WaitsFor
<1>3. Due(o) => Due(o)'
  BY <1>0 DEF ReorderLen, Due, DueHigh, DueNormal, LenStages, Sampled, AfterSample, Priority
<1>4. stage = "lenLow" => Due(o)'
  BY <1>0 DEF ReorderLen, Due, DueHigh, DueNormal, LenStages, Sampled, AfterSample, Priority
<1>5. stage # "lenLow" => left'["low"] = left["low"]
  BY <1>0 DEF ReorderLen, LenStages, Sampled, Priority
<1>6. EgressOrder(m, o)' /\ CarryOrder(m, o)'
  BY <1>0, <1>2 DEF InOrderHere, EgressOrder, CarryOrder, Ahead, NotIn
<1>7. PickedOrder(m, o)'
  BY <1>0, <1>2, <1>3 DEF InOrderHere, PickedOrder, NotIn
<1>8. IngressOrder(m, o)'
  BY <1>0, <1>2, <1>3, <1>4, <1>5 DEF InOrderHere, IngressOrder, Ahead
<1> QED
  BY <1>6, <1>7, <1>8 DEF InOrderHere

(* Every step keeps a message behind those it may not pass. *)
LEMMA OrderStep ==
    ASSUME IInv, ExactlyOnce, FlowInv, OrderInv, [Next]_vars
    PROVE  OrderInv'
<1> USE MsgsAssumption, HandsDistinct
<1>0. TypeOK /\ LeftInv /\ SortedInv
  BY DEF IInv, FlowInv
<1>1. CASE ReorderSendPicked
  <2> PICK x \in Msgs : x = hold["picked"]
    BY <1>0, <1>1 DEF ReorderSendPicked, PickedDue, TypeOK
  <2>1. /\ PriorityOf[x] = stage /\ hold["carry"] = None
        /\ SendFrom("picked", "egress") /\ UNCHANGED <<putLog, left, stage>>
    BY <1>1 DEF ReorderSendPicked, PickedDue, FlowInv, CarryInv, reorderVars
  <2>2. ASSUME NEW o \in Msgs, MayNotPass(x, o)
        PROVE  /\ \A q \in Priority : NotIn(o, q)
               /\ hold["picked"] # o /\ hold["carry"] # o
    <3>1. PickedOrder(x, o) /\ D!WaitsFor(x, o)
      BY <2>2 DEF OrderInv, InOrderHere, MayNotPass
    <3>2. \A q \in Priority : NotIn(o, q)
      BY <1>0, <2>1, <3>1, StageReached DEF PickedOrder
    <3> QED
      BY <1>0, <2>1, <2>2, <3>2, PassedIsOther
  <2> QED
    BY <1>0, <2>1, <2>2, SendOrder
<1>2. CASE ReorderSendCarry
  <2> PICK x \in Msgs : x = hold["carry"]
    BY <1>0, <1>2 DEF ReorderSendCarry, TypeOK
  <2>1. SendFrom("carry", "egress") /\ UNCHANGED <<putLog, left, stage>>
    BY <1>2 DEF ReorderSendCarry, reorderVars
  <2>2. ASSUME NEW o \in Msgs, MayNotPass(x, o)
        PROVE  /\ \A q \in Priority : NotIn(o, q)
               /\ hold["picked"] # o /\ hold["carry"] # o
    BY <1>0, <2>2, PassedIsOther DEF OrderInv, InOrderHere, CarryOrder
  <2> QED
    BY <1>0, <2>1, <2>2, SendOrder
<1>3. ASSUME UNCHANGED <<queue, putLog, left>>,
             hold'["picked"] = hold["picked"], hold'["carry"] = hold["carry"],
             stage \in LenStages <=> stage' \in LenStages,
             stage \in LenStages => stage' = stage
      PROVE  OrderInv'
  <2> SUFFICES ASSUME NEW m \in Msgs, NEW o \in Msgs, MayNotPass(m, o)'
               PROVE  InOrderHere(m, o)'
    BY DEF OrderInv, InOrderHere
  <2>1. InOrderHere(m, o)
    BY <1>3 DEF MayNotPass, OrderInv, InOrderHere, D!WaitsFor
  <2>2. Due(o) <=> Due(o)'
    BY <1>3 DEF Due, DueHigh, DueNormal, LenStages
  <2> QED
    BY <1>3, <2>1, <2>2
    DEF InOrderHere, EgressOrder, CarryOrder, PickedOrder, IngressOrder, Ahead, NotIn
<1> QED
  BY <1>0, <1>1, <1>2, <1>3, QuietSteps, EnqueueOrder, PickOrder, DrainOrder, TakeOrder, LenOrder

-----------------------------------------------------------------------------
(* The invariant from which the refinement follows. *)
DispatchInv == IInv /\ ExactlyOnce /\ FlowInv /\ OrderInv

(* It holds in every reachable state. *)
THEOREM SpecDispatchInv == Spec => []DispatchInv
<1>1. Init => FlowInv /\ OrderInv
  <2> SUFFICES ASSUME Init PROVE FlowInv /\ OrderInv
    OBVIOUS
  <2>1. Len(putLog) = 0 /\ hold["carry"] = None /\ \A q \in Priority : Len(queue[q]) = 0
    BY HandsDistinct DEF Init, Chans
  <2> QED
    BY <2>1 DEF FlowInv, LogInv, SortedInv, CarryInv, OrderInv, MayNotPass
<1>2. IInv /\ ExactlyOnce /\ FlowInv /\ OrderInv /\ [Next]_vars => FlowInv' /\ OrderInv'
  BY FlowStep, OrderStep
<1> QED
  BY <1>1, <1>2, SpecIInv, NoLossNoDuplicate, PTL DEF Spec, DispatchInv

(* A step that leaves the network, the hands of receivers and workers and the
   handled messages alone is no step of the dispatcher.                     *)
LEMMA StatusKept ==
    ASSUME net' = net, handled' = handled, \A h \in Receivers \cup Workers : hold'[h] = hold[h]
    PROVE  DispatchStatus' = DispatchStatus
  BY DEF DispatchStatus

(* A message waits in a channel, or reorder has it. *)
LEMMA WaitingWhere ==
    ASSUME ExactlyOnce, NEW o \in Msgs, DispatchStatus[o] = "waiting",
           \A c \in Chans : NotIn(o, c)
    PROVE  hold["picked"] = o \/ hold["carry"] = o
<1>1. /\ o \notin handled /\ o \notin net
      /\ \A h \in Receivers \cup Workers : hold[h] # o
  BY DEF DispatchStatus
<1>2. PICK p \in Places : IsAt(o, p)
  BY DEF ExactlyOnce
<1>3. p \in {"picked", "carry"} /\ hold[p] = o
  BY <1>1, <1>2 DEF IsAt, NotIn, Hands
<1> QED
  BY <1>3

(* putMetaMsg's send on the ingress channel accepts the message. *)
LEMMA EnqueueAccepts ==
    ASSUME DispatchInv, NEW r \in Receivers, Enqueue(r)
    PROVE  D!Next
<1> USE MsgsAssumption, HandsDistinct
<1>0. TypeOK /\ HandsInv
  BY DEF DispatchInv, IInv
<1> PICK x \in Msgs : x = hold[r]
  BY <1>0 DEF Enqueue, HandsInv, TypeOK
<1>1. /\ net' = net /\ handled' = handled /\ putLog' = Append(putLog, x)
      /\ hold'[r] = None /\ \A h \in Hands \ {r} : hold'[h] = hold[h]
  BY <1>0 DEF Enqueue, SendFrom, TypeOK, receiverVars
<1>2. x \notin net /\ \A h \in Hands \ {r} : hold[h] # x
  BY InHandOnly DEF DispatchInv
<1>3. x \notin handled
  <2>1. IsAt(x, r) /\ r \in Places /\ "handled" \in Places
    BY DEF IsAt, Places
  <2>2. ~IsAt(x, "handled")
    BY <2>1 DEF DispatchInv, ExactlyOnce
  <2> QED
    BY <2>2 DEF IsAt
<1>4. DispatchStatus[x] = "outside" /\ DispatchStatus'[x] = "waiting"
  BY <1>1, <1>2, <1>3 DEF DispatchStatus
<1>5. \A m \in Msgs \ {x} : DispatchStatus'[m] = DispatchStatus[m]
  BY <1>1 DEF DispatchStatus
<1>6. DispatchStatus' = [DispatchStatus EXCEPT ![x] = "waiting"]
  BY <1>4, <1>5 DEF DispatchStatus
<1> QED
  BY <1>1, <1>4, <1>6 DEF D!Next, D!Accept, D!Move

(* A worker's receive starts the message, and no message that it has to wait
   for is still waiting.                                                    *)
LEMMA TakeStarts ==
    ASSUME DispatchInv, NEW w \in Workers, WorkerTake(w)
    PROVE  D!Next
<1> USE MsgsAssumption, HandsDistinct
<1>0. TypeOK /\ HandsInv /\ ExactlyOnce /\ SortedInv
  BY DEF DispatchInv, IInv, FlowInv
<1>1. src[w] \in {"egress", "normal"} /\ src[w] \in Chans /\ RecvInto(src[w], w) /\ hold[w] = None
  BY <1>0 DEF WorkerTake, TypeOK, HandsInv, Chans, Priority
<1> PICK x \in Msgs : x = queue[src[w]][1] /\ hold'[w] = x
  BY <1>0, <1>1, RecvFacts
<1>2. /\ net' = net /\ handled' = handled /\ putLog' = putLog
      /\ \A h \in Hands \ {w} : hold'[h] = hold[h] /\ 1 \in 1..Len(queue[src[w]])
  BY <1>0, <1>1, RecvFacts DEF WorkerTake, receiverVars
<1>3. x \notin net /\ x \notin handled /\ \A h \in Hands : hold[h] # x
  <2>1. IsAt(x, src[w]) /\ src[w] \in Places
    BY <1>1, <1>2 DEF IsAt, Places
  <2>2. \A p \in Places : IsAt(x, p) => p = src[w]
    BY <1>0, <2>1 DEF ExactlyOnce
  <2> QED
    BY <1>1, <2>2 DEF IsAt, Places
<1>4. DispatchStatus[x] = "waiting" /\ DispatchStatus'[x] = "running"
  BY <1>2, <1>3 DEF DispatchStatus
<1>5. \A m \in Msgs \ {x} : DispatchStatus'[m] = DispatchStatus[m]
  BY <1>1, <1>2 DEF DispatchStatus
<1>6. DispatchStatus' = [DispatchStatus EXCEPT ![x] = "running"]
  BY <1>4, <1>5 DEF DispatchStatus
<1>7. ASSUME NEW i \in 1..Len(putLog), NEW j \in 1..Len(putLog), i < j, putLog[j] = x,
             DispatchStatus[putLog[i]] = "waiting", D!WaitsFor(x, putLog[i])
      PROVE  FALSE
  <2> PICK o \in Msgs : o = putLog[i]
    BY <1>0 DEF TypeOK
  <2>1. EgressOrder(x, o)
    BY <1>7 DEF DispatchInv, OrderInv, InOrderHere, MayNotPass
  <2>2. src[w] = "egress"
    <3> SUFFICES ASSUME src[w] = "normal" PROVE FALSE
      BY <1>1
    <3>1. PriorityOf[x] = "normal"
      BY <1>0, <1>2 DEF SortedInv, Priority
    <3> QED
      BY <1>7, <3>1 DEF D!WaitsFor
  <2>3. 1 \in 1..Len(queue["egress"]) /\ queue["egress"][1] = x
    BY <1>2, <2>2
  <2>4. (\A q \in Priority : NotIn(o, q)) /\ hold["picked"] # o /\ hold["carry"] # o
    BY <2>1, <2>3 DEF EgressOrder, NotIn
  <2>5. NotIn(o, "egress")
    BY <2>1, <2>3 DEF EgressOrder, Ahead, NotIn
  <2> QED
    BY <1>0, <1>7, <2>4, <2>5, WaitingWhere DEF Chans
<1> QED
  BY <1>2, <1>4, <1>6, <1>7 DEF D!Next, D!Start, D!Move

(* The end of Handle() finishes the message. *)
LEMMA HandleFinishes ==
    ASSUME DispatchInv, NEW w \in Workers, WorkerHandle(w)
    PROVE  D!Next
<1> USE MsgsAssumption, HandsDistinct
<1>0. TypeOK /\ HandsInv /\ ExactlyOnce
  BY DEF DispatchInv, IInv
<1> PICK x \in Msgs : x = hold[w]
  BY <1>0 DEF WorkerHandle, HandsInv, TypeOK
<1>1. /\ net' = net /\ handled' = handled \cup {x} /\ putLog' = putLog
      /\ hold'[w] = None /\ \A h \in Hands \ {w} : hold'[h] = hold[h]
  BY <1>0 DEF WorkerHandle, TypeOK, receiverVars
<1>2. x \notin handled
  <2>1. IsAt(x, w) /\ w \in Places /\ "handled" \in Places
    BY DEF IsAt, Places
  <2>2. ~IsAt(x, "handled")
    BY <1>0, <2>1 DEF ExactlyOnce
  <2> QED
    BY <2>2 DEF IsAt
<1>3. DispatchStatus[x] = "running" /\ DispatchStatus'[x] = "done"
  BY <1>1, <1>2 DEF DispatchStatus
<1>4. \A m \in Msgs \ {x} : DispatchStatus'[m] = DispatchStatus[m]
  BY <1>1 DEF DispatchStatus
<1>5. DispatchStatus' = [DispatchStatus EXCEPT ![x] = "done"]
  BY <1>3, <1>4 DEF DispatchStatus
<1> QED
  BY <1>1, <1>3, <1>5 DEF D!Next, D!Finish, D!Move

(* Every step of the queue is a step of the dispatcher or leaves it as it is. *)
LEMMA DispatchStep ==
    ASSUME DispatchInv, [Next]_vars
    PROVE  [D!Next]_(D!vars)
<1> USE MsgsAssumption, HandsDistinct DEF receiverVars
<1>0. TypeOK /\ HandsInv
  BY DEF DispatchInv, IInv
<1>1. ASSUME NEW r \in Receivers, NEW m \in Msgs, putMetaMsg(r, m)
      PROVE  UNCHANGED D!vars
  <2>1. /\ handled' = handled /\ putLog' = putLog /\ net' = net \ {m} /\ m \in net
        /\ hold[r] = None /\ hold'[r] = m /\ \A h \in Hands \ {r} : hold'[h] = hold[h]
    BY <1>0, <1>1 DEF putMetaMsg, HandsInv, TypeOK
  <2>2. DispatchStatus' = DispatchStatus
    <3> SUFFICES ASSUME NEW x \in Msgs PROVE DispatchStatus'[x] = DispatchStatus[x]
      BY DEF DispatchStatus
    <3>1. CASE x = m
      BY <2>1, <3>1 DEF DispatchStatus
    <3>2. CASE x # m
      BY <2>1, <3>2 DEF DispatchStatus
    <3> QED
      BY <3>1, <3>2
  <2> QED
    BY <2>1, <2>2 DEF D!vars
<1>2. ASSUME UNCHANGED <<net, handled, putLog>>,
             \A h \in Receivers \cup Workers : hold'[h] = hold[h]
      PROVE  UNCHANGED D!vars
  BY <1>2, StatusKept DEF D!vars
<1>3. ASSUME NEW r \in Receivers, initChan(r) PROVE UNCHANGED D!vars
  BY <1>2, <1>3 DEF initChan
<1>4. CASE reorder
  <2>1. UNCHANGED <<net, handled, putLog>> /\ \A h \in Receivers \cup Workers : hold'[h] = hold[h]
    BY <1>0, <1>4 DEF reorder, ReorderEnter, ReorderStop, ReorderLen, ReorderNext, ReorderPick,
       ReorderSendPicked, ReorderRecv, ReorderSendCarry, SendFrom, RecvInto, TypeOK
  <2> QED
    BY <1>2, <2>1
<1>5. ASSUME NEW w \in Workers, WorkerEnter(w) \/ WorkerExit(w) PROVE UNCHANGED D!vars
  BY <1>2, <1>5 DEF WorkerEnter, WorkerExit
<1>6. CASE autoScaler \/ close \/ UNCHANGED vars
  <2>1. UNCHANGED <<net, handled, putLog, hold>>
    BY <1>6 DEF autoScaler, ScalerCheck, ScalerKeep, ScalerAdd, ScalerRemove, close,
       CloseDone, CloseSetNil, CloseWorkers, CloseReturn, vars
  <2> QED
    BY <1>2, <2>1
<1> QED
  BY <1>1, <1>3, <1>4, <1>5, <1>6, EnqueueAccepts, TakeStarts, HandleFinishes
  DEF Next, receiver, worker

(* The message queue is a priority dispatcher, for any messages, receivers and
   workers and any queue size: whatever the receivers, reorder, the workers,
   autoScaler and close() do concurrently, a message is accepted, started and
   finished once, high and low ones start in the order they were put, and a low
   one starts only after everything put before it.                          *)
THEOREM QueueImplementsDispatch == Spec => ImplementsDispatch
<1>1. Init => D!Init
  <2> SUFFICES ASSUME Init PROVE D!Init
    OBVIOUS
  <2>1. \A h \in Receivers \cup Workers : hold[h] = None
    BY HandsDistinct DEF Init
  <2>2. DispatchStatus = [m \in Msgs |-> "outside"]
    BY <2>1, MsgsAssumption DEF Init, DispatchStatus
  <2> QED
    BY <2>2 DEF Init, D!Init
<1>2. DispatchInv /\ [Next]_vars => [D!Next]_(D!vars)
  BY DispatchStep
<1> QED
  BY <1>1, <1>2, SpecDispatchInv, PTL DEF Spec, ImplementsDispatch, D!Spec
=============================================================================
