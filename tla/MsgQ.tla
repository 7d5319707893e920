-------------------------------- MODULE MsgQ --------------------------------
(***************************************************************************)
(* The message queue of a Server (scalamsgq.go): receivers of the          *)
(* transports put known messages into one of three ingress channels, the   *)
(* reorder goroutine moves them by priority into the egress channel, and   *)
(* the workers of the pool take them from there and run their Handle().    *)
(*                                                                         *)
(* A goroutine is a program counter plus the message it holds in a local   *)
(* variable; a Go channel is a bounded sequence.  The reorder goroutine    *)
(* and the egress channel only exist once the first high or low priority   *)
(* message has arrived.  What a select statement waits for is fixed when   *)
(* the statement is entered: sel and src remember it.                      *)
(*                                                                         *)
(* The pool's own bookkeeping (slots, counters, wait group) is the subject *)
(* of module WorkerPool; here a worker is unborn, running or told to stop. *)
(***************************************************************************)
EXTENDS Integers, Sequences, FiniteSets

CONSTANTS
    Msgs,             \* the known messages that ever arrive
    Receivers,        \* goroutines of the transports that call putMetaMsg
    Workers,          \* identities of workers (bounds the pool's size)
    InitialWorkers,   \* the residentWorkers added by newMsgQ
    PriorityOf,       \* the priority of each message
    QSize,            \* capacity of every channel: qSizePerCore * NumCPU
    QWeight,          \* the scale factor; negative: the pool does not scale
    None              \* Go's nil message

Priority == {"high", "normal", "low"}
Chans == Priority \cup {"egress"}

(* The places where a goroutine keeps a message in a local variable. *)
Hands == Receivers \cup Workers \cup {"picked", "carry"}

ASSUME QSizeAssumption == QSize \in Nat \ {0}
ASSUME QWeightAssumption == QWeight \in Int \ {0}
ASSUME MsgsAssumption == None \notin Msgs /\ PriorityOf \in [Msgs -> Priority]
ASSUME GoroutinesAssumption ==
    /\ Receivers \cap Workers = {}
    /\ (Receivers \cup Workers) \cap (Chans \cup {"picked", "carry", "net", "handled"}) = {}
    /\ InitialWorkers \subseteq Workers
    /\ IsFiniteSet(Workers)

VARIABLES
    net,       \* messages that have not reached a transport's receiver yet
    rpc,       \* receiver -> "idle", "init" (calls initChan) or "send"
    queue,     \* channel -> its buffered messages
    made,      \* the ingress channels that are not nil
    egressMade,\* mq.egressChan is not nil
    stage,     \* where the reorder goroutine is
    sel,       \* the channels its select waits for
    left,      \* lenH, lenN and lenL
    wpc,       \* worker -> "unborn", "eval", "recv" or "handle"
    src,       \* worker -> the channel its select waits for
    stop,      \* worker -> its done channel is closed
    scaler,    \* autoScaler: "check", "add", "rm", "keep" or "gone"
    closer,    \* how far close() has come
    hold,      \* goroutine -> message in its local variable
    handled,   \* messages whose Handle() has returned
    putLog     \* history: all messages in the order they entered a channel

receiverVars == <<net, rpc>>
reorderVars == <<stage, sel, left>>
workerVars == <<wpc, src, stop>>
vars == <<net, rpc, queue, made, egressMade, stage, sel, left, wpc, src, stop,
          scaler, closer, hold, handled, putLog>>

Init ==
    /\ net = Msgs
    /\ rpc = [r \in Receivers |-> "idle"]
    /\ queue = [c \in Chans |-> <<>>]
    /\ made = {"normal"}
    /\ egressMade = FALSE
    /\ stage = "off"
    /\ sel = {}
    /\ left = [q \in Priority |-> 0]
    /\ wpc = [w \in Workers |-> IF w \in InitialWorkers THEN "eval" ELSE "unborn"]
    /\ src = [w \in Workers |-> "normal"]
    /\ stop = [w \in Workers |-> FALSE]
    /\ scaler = IF QWeight > 0 THEN "check" ELSE "gone"
    /\ closer = "open"
    /\ hold = [h \in Hands |-> None]
    /\ handled = {}
    /\ putLog = <<>>

(* Definitions whose name says what they get wrong (HasRoomOffByOne, ...) are
   plausible mistakes in the definition that follows them: TLC finds a property
   violated when they take its place.  They are not part of Spec.           *)

(* Channel operations: c has room, and the two ways a message leaves or
   enters a channel while goroutine h holds it.                             *)
HasRoomOffByOne(c) == Len(queue[c]) <= QSize
HasRoom(c) == Len(queue[c]) < QSize

SendFrom(h, c) ==
    /\ queue' = [queue EXCEPT ![c] = Append(@, hold[h])]
    /\ hold' = [hold EXCEPT ![h] = None]

RecvInto(c, h) ==
    /\ queue[c] # <<>>
    /\ hold' = [hold EXCEPT ![h] = Head(queue[c])]
    /\ queue' = [queue EXCEPT ![c] = Tail(@)]

-----------------------------------------------------------------------------
(* putMetaMsg, called by receiver r: the switch on the message's type, with
   the unlocked test of the ingress channel against nil.                    *)
putMetaMsg(r, m) ==
    /\ rpc[r] = "idle"
    /\ m \in net
    /\ net' = net \ {m}
    /\ hold' = [hold EXCEPT ![r] = m]
    /\ rpc' = [rpc EXCEPT ![r] = IF PriorityOf[m] \in made THEN "send" ELSE "init"]
    /\ UNCHANGED <<queue, made, egressMade, reorderVars, workerVars, scaler, closer,
                   handled, putLog>>

initChanUnchecked(r) ==
    /\ rpc[r] = "init"
    /\ rpc' = [rpc EXCEPT ![r] = "send"]
    /\ made' = made \cup {PriorityOf[hold[r]]}
    /\ queue' = [queue EXCEPT ![PriorityOf[hold[r]]] = <<>>]
    /\ egressMade' = TRUE
    /\ stage' = IF egressMade THEN stage ELSE "loop"
    /\ UNCHANGED <<net, sel, left, workerVars, scaler, closer, hold, handled, putLog>>

(* initChan: under the mutex, make the channel and the egress channel unless
   another receiver has done so since, and start the reorder goroutine.     *)
initChan(r) ==
    /\ rpc[r] = "init"
    /\ rpc' = [rpc EXCEPT ![r] = "send"]
    /\ made' = made \cup {PriorityOf[hold[r]]}
    /\ queue' = IF PriorityOf[hold[r]] \in made
                THEN queue
                ELSE [queue EXCEPT ![PriorityOf[hold[r]]] = <<>>]
    /\ egressMade' = TRUE
    /\ stage' = IF egressMade THEN stage ELSE "loop"
    /\ UNCHANGED <<net, sel, left, workerVars, scaler, closer, hold, handled, putLog>>

(* The blocking send on the ingress channel ends putMetaMsg. *)
Enqueue(r) ==
    /\ rpc[r] = "send"
    /\ HasRoom(PriorityOf[hold[r]])
    /\ SendFrom(r, PriorityOf[hold[r]])
    /\ putLog' = Append(putLog, hold[r])
    /\ rpc' = [rpc EXCEPT ![r] = "idle"]
    /\ UNCHANGED <<net, made, egressMade, reorderVars, workerVars, scaler, closer,
                   handled>>

-----------------------------------------------------------------------------
(* reorder enters its select: the operands are evaluated now, so a channel
   that is still nil, or a done that close() has already set to nil, is not
   waited for until the next round.                                         *)
ReorderEnter ==
    /\ stage = "loop"
    /\ stage' = "select"
    /\ sel' = made \cup (IF closer \in {"open", "doneClosed"} THEN {"done"} ELSE {})
    /\ UNCHANGED <<receiverVars, queue, made, egressMade, left, workerVars, scaler,
                   closer, hold, handled, putLog>>

ReorderPick(q) ==
    /\ stage = "select"
    /\ q \in sel
    /\ RecvInto(q, "picked")
    /\ stage' = "lenLow"
    /\ UNCHANGED <<receiverVars, made, egressMade, sel, left, workerVars, scaler,
                   closer, handled, putLog>>

ReorderStop ==
    /\ stage = "select"
    /\ "done" \in sel
    /\ closer # "open"
    /\ stage' = "stopped"
    /\ UNCHANGED <<receiverVars, queue, made, egressMade, sel, left, workerVars, scaler,
                   closer, hold, handled, putLog>>

(* The three lengths are read one after the other, lowest priority first. *)
LenStages == {"lenLow", "lenNormal", "lenHigh"}
SampledHighFirst == [lenLow |-> "high", lenNormal |-> "normal", lenHigh |-> "low"]
Sampled == [lenLow |-> "low", lenNormal |-> "normal", lenHigh |-> "high"]
AfterSample == [lenLow |-> "lenNormal", lenNormal |-> "lenHigh", lenHigh |-> "high"]

ReorderLenWithPicked ==
    /\ stage \in LenStages
    /\ left' = [left EXCEPT ![Sampled[stage]] = Len(queue[Sampled[stage]]) + 1]
    /\ stage' = AfterSample[stage]
    /\ UNCHANGED <<receiverVars, queue, made, egressMade, sel, workerVars, scaler,
                   closer, hold, handled, putLog>>

ReorderLen ==
    /\ stage \in LenStages
    /\ left' = [left EXCEPT ![Sampled[stage]] = Len(queue[Sampled[stage]])]
    /\ stage' = AfterSample[stage]
    /\ UNCHANGED <<receiverVars, queue, made, egressMade, sel, workerVars, scaler,
                   closer, hold, handled, putLog>>

(* The message picked by the select is due in the stage of its priority. *)
PickedDue ==
    /\ hold["picked"] # None
    /\ PriorityOf[hold["picked"]] = stage

ReorderSendPicked ==
    /\ stage \in Priority
    /\ PickedDue
    /\ HasRoom("egress")
    /\ SendFrom("picked", "egress")
    /\ UNCHANGED <<receiverVars, made, egressMade, reorderVars, workerVars, scaler,
                   closer, handled, putLog>>

(* One turn of a drain loop, mq.egressChan <- <-ingress: receive, then send. *)
ReorderRecv ==
    /\ stage \in Priority
    /\ ~PickedDue
    /\ hold["carry"] = None
    /\ left[stage] # 0
    /\ RecvInto(stage, "carry")
    /\ left' = [left EXCEPT ![stage] = @ - 1]
    /\ UNCHANGED <<receiverVars, made, egressMade, stage, sel, workerVars, scaler,
                   closer, handled, putLog>>

ReorderSendCarry ==
    /\ hold["carry"] # None
    /\ HasRoom("egress")
    /\ SendFrom("carry", "egress")
    /\ UNCHANGED <<receiverVars, made, egressMade, reorderVars, workerVars, scaler,
                   closer, handled, putLog>>

AfterDrainOnce == [high |-> "normal", normal |-> "low", low |-> "stopped"]
AfterDrain == [high |-> "normal", normal |-> "low", low |-> "loop"]

ReorderNext ==
    /\ stage \in Priority
    /\ ~PickedDue
    /\ hold["carry"] = None
    /\ left[stage] = 0
    /\ stage' = AfterDrain[stage]
    /\ UNCHANGED <<receiverVars, queue, made, egressMade, sel, left, workerVars, scaler,
                   closer, hold, handled, putLog>>

reorder ==
    \/ ReorderEnter \/ ReorderStop \/ ReorderLen \/ ReorderNext
    \/ \E q \in Priority : ReorderPick(q)
    \/ ReorderSendPicked \/ ReorderRecv \/ ReorderSendCarry

-----------------------------------------------------------------------------
(* The channel the workers read: the normal ingress channel until the egress
   channel exists.                                                          *)
getEgressChan == IF egressMade THEN "egress" ELSE "normal"

(* worker w enters its select, which evaluates getEgressChan() once. *)
WorkerEnter(w) ==
    /\ wpc[w] = "eval"
    /\ wpc' = [wpc EXCEPT ![w] = "recv"]
    /\ src' = [src EXCEPT ![w] = getEgressChan]
    /\ UNCHANGED <<receiverVars, queue, made, egressMade, reorderVars, stop, scaler,
                   closer, hold, handled, putLog>>

WorkerTake(w) ==
    /\ wpc[w] = "recv"
    /\ RecvInto(src[w], w)
    /\ wpc' = [wpc EXCEPT ![w] = "handle"]
    /\ UNCHANGED <<receiverVars, made, egressMade, reorderVars, src, stop, scaler,
                   closer, handled, putLog>>

(* Handle() returns and its reply is sent. *)
WorkerHandle(w) ==
    /\ wpc[w] = "handle"
    /\ handled' = handled \cup {hold[w]}
    /\ hold' = [hold EXCEPT ![w] = None]
    /\ wpc' = [wpc EXCEPT ![w] = "eval"]
    /\ UNCHANGED <<receiverVars, queue, made, egressMade, reorderVars, src, stop,
                   scaler, closer, putLog>>

WorkerExit(w) ==
    /\ wpc[w] = "recv"
    /\ stop[w]
    /\ wpc' = [wpc EXCEPT ![w] = "unborn"]
    /\ stop' = [stop EXCEPT ![w] = FALSE]
    /\ UNCHANGED <<receiverVars, queue, made, egressMade, reorderVars, src, scaler,
                   closer, hold, handled, putLog>>

worker(w) == WorkerEnter(w) \/ WorkerTake(w) \/ WorkerHandle(w) \/ WorkerExit(w)

-----------------------------------------------------------------------------
(* autoScaler compares the idle workers with its target, then acts on what it
   has seen, then sleeps.                                                   *)
ShouldWorkers == Len(queue[getEgressChan]) \div QWeight + Cardinality(InitialWorkers)
IdleWorkers == Cardinality({w \in Workers : wpc[w] \in {"eval", "recv"}})

ScalerCheck ==
    /\ scaler = "check"
    /\ scaler' = IF closer \notin {"open", "doneClosed"} THEN "gone"
                 ELSE IF ShouldWorkers > IdleWorkers THEN "add"
                 ELSE IF ShouldWorkers < IdleWorkers THEN "rm" ELSE "keep"
    /\ UNCHANGED <<receiverVars, queue, made, egressMade, reorderVars, workerVars,
                   closer, hold, handled, putLog>>

(* addWorker; Workers bounds how many can exist at a time. *)
ScalerAdd(w) ==
    /\ scaler = "add"
    /\ wpc[w] = "unborn"
    /\ wpc' = [wpc EXCEPT ![w] = "eval"]
    /\ scaler' = "check"
    /\ UNCHANGED <<receiverVars, queue, made, egressMade, reorderVars, src, stop,
                   closer, hold, handled, putLog>>

(* rmWorker tells some running worker to stop, busy or not. *)
ScalerRemove(w) ==
    /\ scaler = "rm"
    /\ wpc[w] # "unborn"
    /\ ~stop[w]
    /\ stop' = [stop EXCEPT ![w] = TRUE]
    /\ scaler' = "check"
    /\ UNCHANGED <<receiverVars, queue, made, egressMade, reorderVars, wpc, src,
                   closer, hold, handled, putLog>>

(* Nothing to do, nothing to remove, or the bound on workers is reached. *)
ScalerKeep ==
    /\ \/ scaler = "keep"
       \/ scaler = "rm" /\ \A w \in Workers : wpc[w] = "unborn" \/ stop[w]
       \/ scaler = "add" /\ \A w \in Workers : wpc[w] # "unborn"
    /\ scaler' = "check"
    /\ UNCHANGED <<receiverVars, queue, made, egressMade, reorderVars, workerVars,
                   closer, hold, handled, putLog>>

autoScaler ==
    ScalerCheck \/ ScalerKeep \/ \E w \in Workers : ScalerAdd(w) \/ ScalerRemove(w)

-----------------------------------------------------------------------------
(* close(): close(mq.done), mq.done = nil, then wp.close(), which closes the
   done channel of every worker and waits until all have exited.            *)
CloseDone ==
    /\ closer = "open"
    /\ closer' = "doneClosed"
    /\ UNCHANGED <<receiverVars, queue, made, egressMade, reorderVars, workerVars,
                   scaler, hold, handled, putLog>>

CloseSetNil ==
    /\ closer = "doneClosed"
    /\ closer' = "doneNil"
    /\ UNCHANGED <<receiverVars, queue, made, egressMade, reorderVars, workerVars,
                   scaler, hold, handled, putLog>>

CloseWorkers ==
    /\ closer = "doneNil"
    /\ closer' = "waiting"
    /\ stop' = [w \in Workers |-> wpc[w] # "unborn"]
    /\ UNCHANGED <<receiverVars, queue, made, egressMade, reorderVars, wpc, src,
                   scaler, hold, handled, putLog>>

CloseReturn ==
    /\ closer = "waiting"
    /\ \A w \in Workers : wpc[w] = "unborn"
    /\ closer' = "closed"
    /\ UNCHANGED <<receiverVars, queue, made, egressMade, reorderVars, workerVars,
                   scaler, hold, handled, putLog>>

close == CloseDone \/ CloseSetNil \/ CloseWorkers \/ CloseReturn

-----------------------------------------------------------------------------
receiver(r) == (\E m \in Msgs : putMetaMsg(r, m)) \/ initChan(r) \/ Enqueue(r)

Next ==
    \/ \E r \in Receivers : receiver(r)
    \/ reorder
    \/ \E w \in Workers : worker(w)
    \/ autoScaler
    \/ close

Spec == Init /\ [][Next]_vars

(* Every goroutine that can run eventually does (the Go scheduler is fair), a
   Handle() returns, and a peer that has a message sends it.  Nobody has to
   call close(), but once called it runs on.                                *)
Fairness ==
    /\ \A r \in Receivers : WF_vars(receiver(r))
    /\ \A w \in Workers : WF_vars(worker(w))
    /\ WF_vars(reorder)
    /\ WF_vars(autoScaler)
    /\ WF_vars(CloseSetNil \/ CloseWorkers \/ CloseReturn)

FairSpec == Spec /\ Fairness

-----------------------------------------------------------------------------
(* Type invariant; no channel ever holds more than QSize messages. *)
TypeOK ==
    /\ net \subseteq Msgs
    /\ rpc \in [Receivers -> {"idle", "init", "send"}]
    /\ queue \in [Chans -> Seq(Msgs)]
    /\ \A c \in Chans : Len(queue[c]) <= QSize
    /\ made \subseteq Priority
    /\ egressMade \in BOOLEAN
    /\ stage \in {"off", "loop", "select", "stopped"} \cup LenStages \cup Priority
    /\ sel \subseteq Priority \cup {"done"}
    /\ left \in [Priority -> Nat]
    /\ wpc \in [Workers -> {"unborn", "eval", "recv", "handle"}]
    /\ src \in [Workers -> {"normal", "egress"}]
    /\ stop \in [Workers -> BOOLEAN]
    /\ scaler \in {"check", "add", "rm", "keep", "gone"}
    /\ closer \in {"open", "doneClosed", "doneNil", "waiting", "closed"}
    /\ hold \in [Hands -> Msgs \cup {None}]
    /\ handled \subseteq Msgs
    /\ putLog \in Seq(Msgs)

(* Where a message can be, and whether it is there. *)
Places == {"net", "handled"} \cup Chans \cup Hands
IsAt(m, p) ==
    \/ p = "net" /\ m \in net
    \/ p = "handled" /\ m \in handled
    \/ p \in Chans /\ \E i \in 1..Len(queue[p]) : queue[p][i] = m
    \/ p \in Hands /\ hold[p] = m

(* putMetaMsg, reorder and the workers neither lose nor duplicate a message:
   whatever they do concurrently, each message is in exactly one place, once
   (in particular two receivers racing into initChan do not throw a filled
   channel away, and no message is handled twice).                          *)
ExactlyOnce ==
    /\ \A m \in Msgs : \E p \in Places : IsAt(m, p) /\ \A o \in Places : IsAt(m, o) => o = p
    /\ \A c \in Chans : \A i, j \in 1..Len(queue[c]) : queue[c][i] = queue[c][j] => i = j

(* reorder drains as many messages as it has counted with len().  Of the high
   and low channels it is the only reader, so the receives of its drain loops
   never block there.                                                       *)
DrainNeverBlocks == \A q \in {"high", "low"} : left[q] <= Len(queue[q])

(* What a message is to the outside: a receiver's hand is not yet the queue, and
   everything between its channel and a worker is waiting.                  *)
DispatchStatus ==
    [m \in Msgs |->
        IF m \in handled THEN "done"
        ELSE IF \E w \in Workers : hold[w] = m THEN "running"
        ELSE IF m \in net \/ \E r \in Receivers : hold[r] = m THEN "outside"
        ELSE "waiting"]

D == INSTANCE Dispatch WITH accepted <- putLog, status <- DispatchStatus

(* The queue is a priority dispatcher: every step of receivers, reorder, workers,
   autoScaler and close accepts, starts or finishes one message or does nothing,
   messages of high and of low priority start in the order they were put, and a
   low one starts only after everything put before it.                      *)
ImplementsDispatch == D!Spec

Arrived(m) == m \notin net

(* The switch to priority mode is complete for messages of m's priority: their
   channel exists, reorder runs and waits for it, no worker still waits for the
   normal ingress channel and none has taken a message that reorder has counted. *)
Settled(m) ==
    /\ PriorityOf[m] \in made
    /\ stage # "off"
    /\ stage = "select" => PriorityOf[m] \in sel
    /\ \A w \in Workers : wpc[w] = "recv" => src[w] = "egress"
    /\ left["normal"] <= Len(queue["normal"])

(* Receivers, reorder and workers never all wait with a message among them: while
   the queue is open and the switch is complete, a message a receiver has accepted
   and nobody has handled always leaves one of them a step that moves a message
   on, or the scaler one that adds a worker, however the channels filled up and
   whichever workers the scaler has removed.                                *)
NothingStrands ==
    \A m \in Msgs :
        (Settled(m) /\ Arrived(m) /\ m \notin handled /\ closer = "open")
            => \/ \E r \in Receivers : ENABLED (initChan(r) \/ Enqueue(r))
               \/ ENABLED reorder
               \/ \E w \in Workers : ENABLED worker(w)
               \/ ShouldWorkers > IdleWorkers

(* adaptiveservice.go:33-37: a known message that arrives on a transport is
   delivered to a worker in which its Handle() is called.                   *)
EveryMessageHandled ==
    \A m \in Msgs : Arrived(m) ~> (m \in handled \/ closer # "open")

=============================================================================
