----------------------------- MODULE WorkerPool -----------------------------
(***************************************************************************)
(* The worker pool (workerpool.go) as the message queue drives it:         *)
(* newMsgQ starts the resident workers, autoScaler adds and removes        *)
(* workers while messages come and go, close() stops them all and waits.   *)
(*                                                                         *)
(* A worker's slot in wp.workers points to the done variable of its        *)
(* goroutine.  The slot holds None once that variable is nil.  A goroutine *)
(* reads its done variable when it starts running (w(done, wp)), some time *)
(* after addWorker has spawned it.                                         *)
(*                                                                         *)
(* The queue is its length; a handler may block for ever.                  *)
(***************************************************************************)
EXTENDS Integers, Sequences, FiniteSets

CONSTANTS
    Workers,      \* identities of goroutines (bounds those alive at a time)
    Resident,     \* residentWorkers
    QWeight,      \* scale factor; negative: the number of workers is fixed
    MaxMsgs,      \* bound: messages that ever arrive
    None          \* a nil done variable

ASSUME PoolAssumption ==
    /\ IsFiniteSet(Workers)
    /\ None \notin Workers
    /\ Resident \in Nat \ {0}
    /\ QWeight \in Int \ {0}
    /\ MaxMsgs \in Nat

VARIABLES
    slots,     \* wp.workers
    count,     \* wp.count
    idle,      \* wp.idleCount
    wg,        \* the counter of wp.wg
    wpc,       \* worker -> where its goroutine is
    captured,  \* worker -> TRUE: it runs with its channel, FALSE: with nil
    boss,      \* the goroutine that adds workers: newMsgQ, then autoScaler
    adding,    \* the worker addWorker is about to start; it holds the mutex
    booted,    \* how many resident workers newMsgQ has added
    should,    \* autoScaler's target
    closer,    \* how far msgQ.close has come
    qlen,      \* messages in the queue
    arrived    \* messages that have ever arrived

poolVars == <<slots, count, idle, wg, wpc, captured, boss, adding, booted, should,
              closer, qlen, arrived>>

InSlots(w) == \E i \in 1..Len(slots) : slots[i] = w

(* Definitions whose name says what they get wrong (UncountIdleLast, ...) are
   plausible mistakes in the definition that follows them and not part of the
   specification: TLC finds a property violated when they take its place.   *)

(* newMsgQ has just called newWorkerPool. *)
PoolInit ==
    /\ slots = <<>>
    /\ count = 0 /\ idle = 0 /\ wg = 0
    /\ wpc = [w \in Workers |-> "unborn"]
    /\ captured = [w \in Workers |-> FALSE]
    /\ boss = "boot"
    /\ adding = None
    /\ booted = 0
    /\ should = 0
    /\ closer = "open"
    /\ qlen = 0 /\ arrived = 0

-----------------------------------------------------------------------------
(* addWorker: lock, put the new done channel into a slot whose channel is nil
   or into a new slot, count the worker, spawn its goroutine, unlock.       *)
FreeSlots == {i \in 1..Len(slots) : slots[i] = None}

TakeSlot(w) ==
    slots' = IF FreeSlots = {} THEN Append(slots, w)
             ELSE [slots EXCEPT ![CHOOSE i \in FreeSlots : \A j \in FreeSlots : i <= j] = w]

AddSlot(w) ==
    /\ boss \in {"boot", "add"}
    /\ boss = "boot" => booted < Resident
    /\ adding = None
    /\ wpc[w] = "unborn"
    /\ adding' = w
    /\ TakeSlot(w)
    /\ wpc' = [wpc EXCEPT ![w] = "slotted"]
    /\ UNCHANGED <<count, idle, wg, captured, boss, booted, should, closer, qlen, arrived>>

AddCount ==
    /\ adding # None
    /\ wpc[adding] = "slotted"
    /\ count' = count + 1
    /\ wpc' = [wpc EXCEPT ![adding] = "counted"]
    /\ UNCHANGED <<slots, idle, wg, captured, boss, adding, booted, should, closer, qlen,
                   arrived>>

AddIdle ==
    /\ adding # None
    /\ wpc[adding] = "counted"
    /\ idle' = idle + 1
    /\ wpc' = [wpc EXCEPT ![adding] = "idled"]
    /\ UNCHANGED <<slots, count, wg, captured, boss, adding, booted, should, closer, qlen,
                   arrived>>

(* wg.Add, go, unlock: addWorker returns to its caller's loop. *)
AddSpawn ==
    /\ adding # None
    /\ wpc[adding] = "idled"
    /\ wg' = wg + 1
    /\ wpc' = [wpc EXCEPT ![adding] = "spawned"]
    /\ adding' = None
    /\ booted' = IF boss = "boot" THEN booted + 1 ELSE booted
    /\ boss' = IF boss = "boot" THEN "boot" ELSE "check"
    /\ UNCHANGED <<slots, count, idle, captured, should, closer, qlen, arrived>>

(* newMsgQ has added its workers and starts autoScaler if the pool scales. *)
BootEnd ==
    /\ boss = "boot"
    /\ adding = None
    /\ booted = Resident
    /\ boss' = IF QWeight > 0 THEN "check" ELSE "gone"
    /\ UNCHANGED <<slots, count, idle, wg, wpc, captured, adding, booted, should, closer,
                   qlen, arrived>>

-----------------------------------------------------------------------------
(* The goroutine starts: w(done, wp) reads its done variable. *)
Start(w) ==
    /\ wpc[w] = "spawned"
    /\ captured' = [captured EXCEPT ![w] = InSlots(w)]
    /\ wpc' = [wpc EXCEPT ![w] = "select"]
    /\ UNCHANGED <<slots, count, idle, wg, boss, adding, booted, should, closer, qlen,
                   arrived>>

(* msgQ.worker: receive a message, st.working(), Handle, st.idle(). *)
Take(w) ==
    /\ wpc[w] = "select"
    /\ qlen > 0
    /\ qlen' = qlen - 1
    /\ wpc' = [wpc EXCEPT ![w] = "taken"]
    /\ UNCHANGED <<slots, count, idle, wg, captured, boss, adding, booted, should, closer,
                   arrived>>

working(w) ==
    /\ wpc[w] = "taken"
    /\ idle' = idle - 1
    /\ wpc' = [wpc EXCEPT ![w] = "busy"]
    /\ UNCHANGED <<slots, count, wg, captured, boss, adding, booted, should, closer, qlen,
                   arrived>>

Finish(w) ==
    /\ wpc[w] = "busy"
    /\ idle' = idle + 1
    /\ wpc' = [wpc EXCEPT ![w] = "select"]
    /\ UNCHANGED <<slots, count, wg, captured, boss, adding, booted, should, closer, qlen,
                   arrived>>

(* The select sees the done channel the goroutine was started with closed:
   rmWorker and close have then set the variable to nil, so the deferred
   function has no channel to close.                                        *)
Leave(w) ==
    /\ wpc[w] = "select"
    /\ captured[w]
    /\ ~InSlots(w)
    /\ wpc' = [wpc EXCEPT ![w] = "leaving"]
    /\ UNCHANGED <<slots, count, idle, wg, captured, boss, adding, booted, should, closer,
                   qlen, arrived>>

(* The deferred function: idleCount, then count, then the wait group. *)
UncountIdleLast(w) ==
    \/ /\ wpc[w] = "leaving"
       /\ count' = count - 1
       /\ wpc' = [wpc EXCEPT ![w] = "unidled"]
       /\ UNCHANGED <<idle, wg>>
    \/ /\ wpc[w] = "unidled"
       /\ idle' = idle - 1
       /\ wpc' = [wpc EXCEPT ![w] = "uncounted"]
       /\ UNCHANGED <<count, wg>>
    \/ /\ wpc[w] = "uncounted"
       /\ wg' = wg - 1
       /\ wpc' = [wpc EXCEPT ![w] = "unborn"]
       /\ UNCHANGED <<count, idle>>

UncountNotDone(w) ==
    \/ /\ wpc[w] = "leaving"
       /\ idle' = idle - 1
       /\ wpc' = [wpc EXCEPT ![w] = "unidled"]
       /\ UNCHANGED <<count, wg>>
    \/ /\ wpc[w] = "unidled"
       /\ count' = count - 1
       /\ wpc' = [wpc EXCEPT ![w] = "unborn"]
       /\ UNCHANGED <<idle, wg>>

Uncount(w) ==
    \/ /\ wpc[w] = "leaving"
       /\ idle' = idle - 1
       /\ wpc' = [wpc EXCEPT ![w] = "unidled"]
       /\ UNCHANGED <<count, wg>>
    \/ /\ wpc[w] = "unidled"
       /\ count' = count - 1
       /\ wpc' = [wpc EXCEPT ![w] = "uncounted"]
       /\ UNCHANGED <<idle, wg>>
    \/ /\ wpc[w] = "uncounted"
       /\ wg' = wg - 1
       /\ wpc' = [wpc EXCEPT ![w] = "unborn"]
       /\ UNCHANGED <<count, idle>>

Exit(w) ==
    /\ Uncount(w)
    /\ UNCHANGED <<slots, captured, boss, adding, booted, should, closer, qlen, arrived>>

-----------------------------------------------------------------------------
(* autoScaler: return if mq.done is nil, read the queue length, read the idle
   count, then add or remove one worker, and sleep.                         *)
Check ==
    /\ boss = "check"
    /\ boss' = IF closer \in {"open", "doneClosed"} THEN "len" ELSE "gone"
    /\ UNCHANGED <<slots, count, idle, wg, wpc, captured, adding, booted, should, closer,
                   qlen, arrived>>

ReadLenNoResidents ==
    /\ boss = "len"
    /\ should' = qlen \div QWeight
    /\ boss' = "idle"
    /\ UNCHANGED <<slots, count, idle, wg, wpc, captured, adding, booted, closer, qlen,
                   arrived>>

ReadLen ==
    /\ boss = "len"
    /\ should' = qlen \div QWeight + Resident
    /\ boss' = "idle"
    /\ UNCHANGED <<slots, count, idle, wg, wpc, captured, adding, booted, closer, qlen,
                   arrived>>

ReadIdleNeverRemoves ==
    /\ boss = "idle"
    /\ boss' = IF should > idle THEN "add" ELSE "check"
    /\ UNCHANGED <<slots, count, idle, wg, wpc, captured, adding, booted, should, closer,
                   qlen, arrived>>

ReadIdle ==
    /\ boss = "idle"
    /\ boss' = IF should > idle THEN "add" ELSE IF should < idle THEN "rm" ELSE "check"
    /\ UNCHANGED <<slots, count, idle, wg, wpc, captured, adding, booted, should, closer,
                   qlen, arrived>>

(* rmWorker: under the mutex, the first worker whose channel is not nil. *)
UsedSlots == {i \in 1..Len(slots) : slots[i] # None}

rmWorker ==
    /\ boss = "rm"
    /\ slots' = IF UsedSlots = {} THEN slots
                ELSE [slots EXCEPT ![CHOOSE i \in UsedSlots : \A j \in UsedSlots : i <= j] = None]
    /\ boss' = "check"
    /\ UNCHANGED <<count, idle, wg, wpc, captured, adding, booted, should, closer, qlen,
                   arrived>>

-----------------------------------------------------------------------------
(* msgQ.close, callable once newMsgQ has returned: close(mq.done), mq.done =
   nil, then workerPool.close.                                              *)
CloseDone ==
    /\ closer = "open"
    /\ boss # "boot"
    /\ closer' = "doneClosed"
    /\ UNCHANGED <<slots, count, idle, wg, wpc, captured, boss, adding, booted, should,
                   qlen, arrived>>

CloseSetNil ==
    /\ closer = "doneClosed"
    /\ closer' = "doneNil"
    /\ UNCHANGED <<slots, count, idle, wg, wpc, captured, boss, adding, booted, should,
                   qlen, arrived>>

(* workerPool.close: under the mutex, close every channel that is not nil. *)
CloseSlots ==
    /\ closer = "doneNil"
    /\ adding = None
    /\ slots' = [i \in 1..Len(slots) |-> None]
    /\ closer' = "waiting"
    /\ UNCHANGED <<count, idle, wg, wpc, captured, boss, adding, booted, should, qlen,
                   arrived>>

WaitReturnsNoWait ==
    /\ closer = "waiting"
    /\ closer' = "closed"
    /\ UNCHANGED <<slots, count, idle, wg, wpc, captured, boss, adding, booted, should,
                   qlen, arrived>>

(* wp.wg.Wait() returns. *)
WaitReturns ==
    /\ closer = "waiting"
    /\ wg = 0
    /\ closer' = "closed"
    /\ UNCHANGED <<slots, count, idle, wg, wpc, captured, boss, adding, booted, should,
                   qlen, arrived>>

(* A message is put into the queue. *)
Arrive ==
    /\ arrived < MaxMsgs
    /\ arrived' = arrived + 1
    /\ qlen' = qlen + 1
    /\ UNCHANGED <<slots, count, idle, wg, wpc, captured, boss, adding, booted, should,
                   closer>>

-----------------------------------------------------------------------------
addWorker == (\E w \in Workers : AddSlot(w)) \/ AddCount \/ AddIdle \/ AddSpawn
autoScaler == Check \/ ReadLen \/ ReadIdle \/ rmWorker
worker(w) == Start(w) \/ Take(w) \/ working(w) \/ Leave(w) \/ Exit(w)

PoolNext ==
    \/ addWorker \/ BootEnd \/ autoScaler
    \/ \E w \in Workers : worker(w) \/ Finish(w)
    \/ CloseDone \/ CloseSetNil \/ CloseSlots \/ WaitReturns
    \/ Arrive

PoolSpec == PoolInit /\ [][PoolNext]_poolVars

(* Goroutines that can run do.  Handle() need not return. *)
PoolFairness ==
    /\ WF_poolVars(addWorker \/ BootEnd \/ autoScaler)
    /\ \A w \in Workers : WF_poolVars(worker(w))
    /\ WF_poolVars(CloseSetNil \/ CloseSlots \/ WaitReturns)

PoolFairSpec == PoolSpec /\ PoolFairness

-----------------------------------------------------------------------------
Places == {"unborn", "slotted", "counted", "idled", "spawned", "select", "taken", "busy",
           "leaving", "unidled", "uncounted"}

(* Type invariant. *)
PoolTypeOK ==
    /\ slots \in Seq(Workers \cup {None})
    /\ count \in Int /\ idle \in Int /\ wg \in Int
    /\ wpc \in [Workers -> Places]
    /\ captured \in [Workers -> BOOLEAN]
    /\ boss \in {"boot", "check", "len", "idle", "add", "rm", "gone"}
    /\ adding \in Workers \cup {None}
    /\ booted \in Nat
    /\ should \in Int
    /\ closer \in {"open", "doneClosed", "doneNil", "waiting", "closed"}
    /\ qlen \in Nat /\ arrived \in Nat

Alive == {w \in Workers : wpc[w] # "unborn"}

(* The three counters, each updated on its own by many goroutines, are never
   off by more than what is in flight: no counter is negative (a negative wait
   group panics), idleCount never exceeds count, and count exceeds the wait
   group by at most the worker being added.                                 *)
CountersSane ==
    /\ 0 <= idle /\ idle <= count
    /\ 0 <= wg /\ count <= wg + 1
    /\ adding = None => count <= wg

(* workerpool.go:91: close() "waits all the workers in the workerPool to
   exit".  autoScaler, which tests mq.done some time before it calls addWorker,
   is the only one that can start a worker later: at most one, and then no
   more, because its next test ends it.                                     *)
ClosedMeansNoWorker ==
    closer = "closed" =>
        \/ Alive = {}
        \/ /\ QWeight > 0
           /\ \A v, w \in Alive : v = w
           /\ adding # None \/ boss \in {"check", "gone"}

(* A worker that reads its done variable after rmWorker or close() has set it
   to nil waits for messages for ever.                                      *)
Deaf(w) == wpc[w] \notin {"unborn", "slotted", "counted", "idled", "spawned"} /\ ~captured[w]

(* workerpool.go:91: close() returns, unless a handler blocks for ever, or a
   worker cannot be told: a deaf one, or one autoScaler added after close()
   has gone through the slots.                                              *)
CloseReturns ==
    closer = "waiting" ~>
        closer = "closed" \/ \E w \in Workers : [](wpc[w] = "busy" \/ Deaf(w) \/ InSlots(w))

(* Even if every handler blocks for ever, a pool that scales keeps serving
   the queue: autoScaler always leaves a worker that can take a message.    *)
QueueDrains == []<>(qlen = 0 \/ closer # "open")

(* server_options.go:31-34: the pool follows its target.  Once the queue is
   empty for good the idle workers become and stay the resident ones, unless a
   worker was removed before its goroutine started.                         *)
PoolFollowsTarget ==
    (QWeight > 0 /\ [](closer = "open" /\ \A w \in Workers : ~Deaf(w))) => <>[](idle = Resident)

=============================================================================
