---------------------------- MODULE ServerProofs ----------------------------
(***************************************************************************)
(* Proofs about a server and the worker pool of its message queue.  A      *)
(* CloseWait that returns leaves nothing running but transports that races *)
(* kept off the list, for any parts, callers and failures.  For any        *)
(* number of workers the counters that many goroutines update one at a     *)
(* time stay consistent, and the pool's close() returns only when no       *)
(* worker is left that could have been told.                               *)
(***************************************************************************)
EXTENDS Server, WorkerPool, FiniteSetTheorems, SequenceTheorems, TLAPS

-----------------------------------------------------------------------------
(* The worker pool.                                                        *)

(* Where a worker is counted by count, by idleCount and by the wait group. *)
CountedAt == {"counted", "idled", "spawned", "select", "taken", "busy", "leaving", "unidled"}
IdledAt == {"idled", "spawned", "select", "taken", "leaving"}
WaitedAt == {"spawned", "select", "taken", "busy", "leaving", "unidled", "uncounted"}

Those(f, S) == {w \in Workers : f[w] \in S}

(* Each counter is the number of workers at the places where it counts them. *)
Accounting ==
    /\ count = Cardinality(Those(wpc, CountedAt))
    /\ idle = Cardinality(Those(wpc, IdledAt))
    /\ wg = Cardinality(Those(wpc, WaitedAt))

(* The only worker between its slot and its goroutine is the one addWorker is
   busy with, and only newMsgQ and autoScaler call addWorker.               *)
AddingInv ==
    /\ \A w \in Workers : wpc[w] \in {"slotted", "counted", "idled"} <=> adding = w
    /\ adding # None => boss \in {"boot", "add"}
    /\ closer # "open" => boss # "boot"
    /\ QWeight < 0 => boss \in {"boot", "gone"}

PoolInv == PoolTypeOK /\ Accounting /\ AddingInv

-----------------------------------------------------------------------------
(* There are finitely many workers at any set of places. *)
LEMMA ThoseCardinality ==
    ASSUME NEW f, NEW S
    PROVE  IsFiniteSet(Those(f, S)) /\ Cardinality(Those(f, S)) \in Nat
  BY PoolAssumption, FS_Subset, FS_CardinalityType DEF Those

-----------------------------------------------------------------------------
(* newMsgQ starts with an empty pool. *)
LEMMA InitPoolInv == PoolInit => PoolInv
<1> SUFFICES ASSUME PoolInit PROVE PoolInv
  OBVIOUS
<1>1. PoolTypeOK
  BY DEF PoolInit, PoolTypeOK, Places
<1>2. Those(wpc, CountedAt) = {} /\ Those(wpc, IdledAt) = {} /\ Those(wpc, WaitedAt) = {}
  BY DEF PoolInit, Those, CountedAt, IdledAt, WaitedAt
<1>3. Accounting
  BY <1>2, FS_EmptySet DEF Accounting, PoolInit
<1>4. AddingInv
  BY PoolAssumption DEF AddingInv, PoolInit
<1> QED
  BY <1>1, <1>3, <1>4 DEF PoolInv

-----------------------------------------------------------------------------
(* What the move of worker w to place p adds to the workers at S. *)
Delta(w, p, S) ==
    IF wpc[w] \notin S /\ p \in S THEN 1
    ELSE IF wpc[w] \in S /\ p \notin S THEN -1 ELSE 0

(* A step that moves one worker and changes each counter by what the move adds
   to the workers it counts keeps the accounts.                             *)
LEMMA MoveAccounting ==
    ASSUME PoolTypeOK, Accounting, NEW w \in Workers, NEW p \in Places,
           wpc' = [wpc EXCEPT ![w] = p],
           count' = count + Delta(w, p, CountedAt),
           idle' = idle + Delta(w, p, IdledAt),
           wg' = wg + Delta(w, p, WaitedAt)
    PROVE  Accounting'
<1>1. ASSUME NEW S
      PROVE  Cardinality(Those(wpc', S)) = Cardinality(Those(wpc, S)) + Delta(w, p, S)
  <2>0. IsFiniteSet(Those(wpc, S)) /\ Cardinality(Those(wpc, S)) \in Nat
    BY ThoseCardinality
  <2>1. CASE wpc[w] \notin S /\ p \in S
    <3>1. Those(wpc', S) = Those(wpc, S) \cup {w} /\ w \notin Those(wpc, S)
      BY <2>1 DEF Those, PoolTypeOK
    <3>2. Cardinality(Those(wpc', S)) = Cardinality(Those(wpc, S)) + 1
      BY <2>0, <3>1, FS_AddElement
    <3> QED
      BY <3>2, <2>1 DEF Delta
  <2>2. CASE wpc[w] \in S /\ p \notin S
    <3>1. Those(wpc', S) = Those(wpc, S) \ {w} /\ w \in Those(wpc, S)
      BY <2>2 DEF Those, PoolTypeOK
    <3>2. Cardinality(Those(wpc', S)) = Cardinality(Those(wpc, S)) - 1
      BY <2>0, <3>1, FS_RemoveElement
    <3> QED
      BY <3>2, <2>0, <2>2 DEF Delta
  <2>3. CASE wpc[w] \in S <=> p \in S
    <3>1. Those(wpc', S) = Those(wpc, S)
      BY <2>3 DEF Those, PoolTypeOK
    <3> QED
      BY <3>1, <2>0, <2>3 DEF Delta
  <2> QED
    BY <2>1, <2>2, <2>3
<1> QED
  BY <1>1 DEF Accounting

(* Every step keeps the accounts: the atomic additions happen at the places
   where the worker enters or leaves the set that the counter counts.       *)
LEMMA AccountingStep ==
    ASSUME PoolInv, [PoolNext]_poolVars
    PROVE  Accounting'
<1> USE PoolAssumption DEF PoolInv
<1>0. wpc \in [Workers -> Places] /\ count \in Int /\ idle \in Int /\ wg \in Int
  BY DEF PoolTypeOK
<1>1. ASSUME NEW w \in Workers, AddSlot(w) PROVE Accounting'
  <2>1. /\ wpc[w] = "unborn" /\ wpc' = [wpc EXCEPT ![w] = "slotted"]
        /\ count' = count /\ idle' = idle /\ wg' = wg
    BY <1>1 DEF AddSlot
  <2>2. /\ count' = count + Delta(w, "slotted", CountedAt)
        /\ idle' = idle + Delta(w, "slotted", IdledAt)
        /\ wg' = wg + Delta(w, "slotted", WaitedAt)
        /\ "slotted" \in Places
    BY <1>0, <2>1 DEF Delta, CountedAt, IdledAt, WaitedAt, Places
  <2> QED
    BY <2>1, <2>2, MoveAccounting, Zenon
<1>2. CASE AddCount
  <2>1. adding \in Workers
    BY <1>2 DEF AddCount, PoolTypeOK
  <2>2. /\ wpc[adding] = "slotted" /\ wpc' = [wpc EXCEPT ![adding] = "counted"]
        /\ count' = count + 1 /\ idle' = idle /\ wg' = wg
    BY <1>2, <2>1 DEF AddCount
  <2>3. /\ count' = count + Delta(adding, "counted", CountedAt)
        /\ idle' = idle + Delta(adding, "counted", IdledAt)
        /\ wg' = wg + Delta(adding, "counted", WaitedAt)
        /\ "counted" \in Places
    BY <1>0, <2>2 DEF Delta, CountedAt, IdledAt, WaitedAt, Places
  <2> QED
    BY <2>1, <2>2, <2>3, MoveAccounting, Zenon
<1>3. CASE AddIdle
  <2>1. adding \in Workers
    BY <1>3 DEF AddIdle, PoolTypeOK
  <2>2. /\ wpc[adding] = "counted" /\ wpc' = [wpc EXCEPT ![adding] = "idled"]
        /\ count' = count /\ idle' = idle + 1 /\ wg' = wg
    BY <1>3, <2>1 DEF AddIdle
  <2>3. /\ count' = count + Delta(adding, "idled", CountedAt)
        /\ idle' = idle + Delta(adding, "idled", IdledAt)
        /\ wg' = wg + Delta(adding, "idled", WaitedAt)
        /\ "idled" \in Places
    BY <1>0, <2>2 DEF Delta, CountedAt, IdledAt, WaitedAt, Places
  <2> QED
    BY <2>1, <2>2, <2>3, MoveAccounting, Zenon
<1>4. CASE AddSpawn
  <2>1. adding \in Workers
    BY <1>4 DEF AddSpawn, PoolTypeOK
  <2>2. /\ wpc[adding] = "idled" /\ wpc' = [wpc EXCEPT ![adding] = "spawned"]
        /\ count' = count /\ idle' = idle /\ wg' = wg + 1
    BY <1>4, <2>1 DEF AddSpawn
  <2>3. /\ count' = count + Delta(adding, "spawned", CountedAt)
        /\ idle' = idle + Delta(adding, "spawned", IdledAt)
        /\ wg' = wg + Delta(adding, "spawned", WaitedAt)
        /\ "spawned" \in Places
    BY <1>0, <2>2 DEF Delta, CountedAt, IdledAt, WaitedAt, Places
  <2> QED
    BY <2>1, <2>2, <2>3, MoveAccounting, Zenon
<1>5. ASSUME NEW w \in Workers, Start(w) \/ Take(w) \/ Leave(w) PROVE Accounting'
  <2>1. CASE Start(w)
    <3>1. /\ wpc[w] = "spawned" /\ wpc' = [wpc EXCEPT ![w] = "select"]
          /\ count' = count /\ idle' = idle /\ wg' = wg
      BY <2>1 DEF Start
    <3>2. /\ count' = count + Delta(w, "select", CountedAt)
          /\ idle' = idle + Delta(w, "select", IdledAt)
          /\ wg' = wg + Delta(w, "select", WaitedAt)
          /\ "select" \in Places
      BY <1>0, <3>1 DEF Delta, CountedAt, IdledAt, WaitedAt, Places
    <3> QED
      BY <3>1, <3>2, MoveAccounting, Zenon
  <2>2. CASE Take(w)
    <3>1. /\ wpc[w] = "select" /\ wpc' = [wpc EXCEPT ![w] = "taken"]
          /\ count' = count /\ idle' = idle /\ wg' = wg
      BY <2>2 DEF Take
    <3>2. /\ count' = count + Delta(w, "taken", CountedAt)
          /\ idle' = idle + Delta(w, "taken", IdledAt)
          /\ wg' = wg + Delta(w, "taken", WaitedAt)
          /\ "taken" \in Places
      BY <1>0, <3>1 DEF Delta, CountedAt, IdledAt, WaitedAt, Places
    <3> QED
      BY <3>1, <3>2, MoveAccounting, Zenon
  <2>3. CASE Leave(w)
    <3>1. /\ wpc[w] = "select" /\ wpc' = [wpc EXCEPT ![w] = "leaving"]
          /\ count' = count /\ idle' = idle /\ wg' = wg
      BY <2>3 DEF Leave
    <3>2. /\ count' = count + Delta(w, "leaving", CountedAt)
          /\ idle' = idle + Delta(w, "leaving", IdledAt)
          /\ wg' = wg + Delta(w, "leaving", WaitedAt)
          /\ "leaving" \in Places
      BY <1>0, <3>1 DEF Delta, CountedAt, IdledAt, WaitedAt, Places
    <3> QED
      BY <3>1, <3>2, MoveAccounting, Zenon
  <2> QED
    BY <1>5, <2>1, <2>2, <2>3
<1>6. ASSUME NEW w \in Workers, working(w) PROVE Accounting'
  <2>1. /\ wpc[w] = "taken" /\ wpc' = [wpc EXCEPT ![w] = "busy"]
        /\ count' = count /\ idle' = idle - 1 /\ wg' = wg
    BY <1>6 DEF working
  <2>2. /\ count' = count + Delta(w, "busy", CountedAt)
        /\ idle' = idle + Delta(w, "busy", IdledAt)
        /\ wg' = wg + Delta(w, "busy", WaitedAt)
        /\ "busy" \in Places
    BY <1>0, <2>1 DEF Delta, CountedAt, IdledAt, WaitedAt, Places
  <2> QED
    BY <2>1, <2>2, MoveAccounting, Zenon
<1>7. ASSUME NEW w \in Workers, Finish(w) PROVE Accounting'
  <2>1. /\ wpc[w] = "busy" /\ wpc' = [wpc EXCEPT ![w] = "select"]
        /\ count' = count /\ idle' = idle + 1 /\ wg' = wg
    BY <1>7 DEF Finish
  <2>2. /\ count' = count + Delta(w, "select", CountedAt)
        /\ idle' = idle + Delta(w, "select", IdledAt)
        /\ wg' = wg + Delta(w, "select", WaitedAt)
        /\ "select" \in Places
    BY <1>0, <2>1 DEF Delta, CountedAt, IdledAt, WaitedAt, Places
  <2> QED
    BY <2>1, <2>2, MoveAccounting, Zenon
<1>8. ASSUME NEW w \in Workers, Exit(w) PROVE Accounting'
  <2>1. CASE wpc[w] = "leaving"
    <3>1. /\ wpc[w] = "leaving" /\ wpc' = [wpc EXCEPT ![w] = "unidled"]
          /\ count' = count /\ idle' = idle - 1 /\ wg' = wg
      BY <1>8, <2>1 DEF Exit, Uncount
    <3>2. /\ count' = count + Delta(w, "unidled", CountedAt)
          /\ idle' = idle + Delta(w, "unidled", IdledAt)
          /\ wg' = wg + Delta(w, "unidled", WaitedAt)
          /\ "unidled" \in Places
      BY <1>0, <3>1 DEF Delta, CountedAt, IdledAt, WaitedAt, Places
    <3> QED
      BY <3>1, <3>2, MoveAccounting, Zenon
  <2>2. CASE wpc[w] = "unidled"
    <3>1. /\ wpc[w] = "unidled" /\ wpc' = [wpc EXCEPT ![w] = "uncounted"]
          /\ count' = count - 1 /\ idle' = idle /\ wg' = wg
      BY <1>8, <2>2 DEF Exit, Uncount
    <3>2. /\ count' = count + Delta(w, "uncounted", CountedAt)
          /\ idle' = idle + Delta(w, "uncounted", IdledAt)
          /\ wg' = wg + Delta(w, "uncounted", WaitedAt)
          /\ "uncounted" \in Places
      BY <1>0, <3>1 DEF Delta, CountedAt, IdledAt, WaitedAt, Places
    <3> QED
      BY <3>1, <3>2, MoveAccounting, Zenon
  <2>3. CASE wpc[w] = "uncounted"
    <3>1. /\ wpc[w] = "uncounted" /\ wpc' = [wpc EXCEPT ![w] = "unborn"]
          /\ count' = count /\ idle' = idle /\ wg' = wg - 1
      BY <1>8, <2>3 DEF Exit, Uncount
    <3>2. /\ count' = count + Delta(w, "unborn", CountedAt)
          /\ idle' = idle + Delta(w, "unborn", IdledAt)
          /\ wg' = wg + Delta(w, "unborn", WaitedAt)
          /\ "unborn" \in Places
      BY <1>0, <3>1 DEF Delta, CountedAt, IdledAt, WaitedAt, Places
    <3> QED
      BY <3>1, <3>2, MoveAccounting, Zenon
  <2> QED
    BY <1>8, <2>1, <2>2, <2>3 DEF Exit, Uncount
<1>9. CASE UNCHANGED <<count, idle, wg, wpc>>
  BY <1>9 DEF Accounting
<1>10. ASSUME \/ BootEnd \/ autoScaler \/ CloseDone \/ CloseSetNil \/ CloseSlots
              \/ WaitReturns \/ Arrive \/ UNCHANGED poolVars
       PROVE  UNCHANGED <<count, idle, wg, wpc>>
  BY <1>10 DEF BootEnd, autoScaler, Check, ReadLen, ReadIdle, rmWorker, CloseDone,
               CloseSetNil, CloseSlots, WaitReturns, Arrive, poolVars
<1> QED
  BY <1>1, <1>2, <1>3, <1>4, <1>5, <1>6, <1>7, <1>8, <1>9, <1>10 DEF PoolNext, addWorker, worker

(* Every step keeps the types. *)
LEMMA TypeStep ==
    ASSUME PoolInv, [PoolNext]_poolVars
    PROVE  PoolTypeOK'
<1> USE PoolAssumption DEF PoolInv, PoolTypeOK, Places
<1>1. ASSUME NEW w \in Workers, AddSlot(w) PROVE PoolTypeOK'
  <2>1. slots' \in Seq(Workers \cup {None})
    <3>1. CASE FreeSlots = {}
      BY <1>1, <3>1 DEF AddSlot, TakeSlot
    <3>2. CASE FreeSlots # {}
      <4> DEFINE i == CHOOSE k \in FreeSlots : \A j \in FreeSlots : k <= j
      <4>1. slots' = [slots EXCEPT ![i] = w]
        BY <1>1, <3>2 DEF AddSlot, TakeSlot
      <4> HIDE DEF i
      <4>2. CASE i \in 1..Len(slots)
        BY <4>1, <4>2, ExceptSeq
      <4>3. CASE i \notin 1..Len(slots)
        <5>1. slots' = slots
          BY <4>1, <4>3
        <5> QED
          BY <5>1
      <4> QED
        BY <4>2, <4>3
    <3> QED
      BY <3>1, <3>2
  <2> QED
    BY <1>1, <2>1 DEF AddSlot
<1>2. CASE AddCount \/ AddIdle \/ AddSpawn \/ BootEnd
  BY <1>2 DEF AddCount, AddIdle, AddSpawn, BootEnd
<1>3. ASSUME NEW w \in Workers, Start(w) PROVE PoolTypeOK'
  BY <1>3 DEF Start, InSlots
<1>4. ASSUME NEW w \in Workers, Take(w) \/ working(w) \/ Finish(w) \/ Leave(w) PROVE PoolTypeOK'
  BY <1>4 DEF Take, working, Finish, Leave
<1>5. ASSUME NEW w \in Workers, Exit(w) PROVE PoolTypeOK'
  BY <1>5 DEF Exit, Uncount
<1>6. CASE Check \/ ReadIdle
  BY <1>6 DEF Check, ReadIdle
<1>7. CASE ReadLen
  <2>1. should' \in Int
    <3>1. qlen \div QWeight \in Int
      <4>1. QWeight \in Nat /\ QWeight > 0
        BY <1>7 DEF ReadLen, AddingInv
      <4> QED
        BY <4>1
    <3> QED
      BY <3>1, <1>7 DEF ReadLen
  <2> QED
    BY <1>7, <2>1 DEF ReadLen
<1>8. CASE rmWorker
  <2>1. slots' \in Seq(Workers \cup {None})
    <3>1. CASE UsedSlots = {}
      BY <1>8, <3>1 DEF rmWorker
    <3>2. CASE UsedSlots # {}
      <4> DEFINE i == CHOOSE k \in UsedSlots : \A j \in UsedSlots : k <= j
      <4>1. slots' = [slots EXCEPT ![i] = None]
        BY <1>8, <3>2 DEF rmWorker
      <4> HIDE DEF i
      <4>2. CASE i \in 1..Len(slots)
        BY <4>1, <4>2, ExceptSeq
      <4>3. CASE i \notin 1..Len(slots)
        <5>1. slots' = slots
          BY <4>1, <4>3
        <5> QED
          BY <5>1
      <4> QED
        BY <4>2, <4>3
    <3> QED
      BY <3>1, <3>2
  <2> QED
    BY <1>8, <2>1 DEF rmWorker
<1>9. CASE CloseDone \/ CloseSetNil \/ WaitReturns \/ Arrive
  BY <1>9 DEF CloseDone, CloseSetNil, WaitReturns, Arrive
<1>10. CASE CloseSlots
  BY <1>10 DEF CloseSlots
<1>11. CASE UNCHANGED poolVars
  BY <1>11 DEF poolVars
<1> QED
  BY <1>1, <1>2, <1>3, <1>4, <1>5, <1>6, <1>7, <1>8, <1>9, <1>10, <1>11
  DEF PoolNext, addWorker, autoScaler, worker

(* Every step keeps addWorker's bookkeeping. *)
LEMMA AddingStep ==
    ASSUME PoolInv, [PoolNext]_poolVars
    PROVE  AddingInv'
<1> USE PoolAssumption DEF PoolInv, PoolTypeOK, AddingInv, Places
<1>1. ASSUME NEW w \in Workers, AddSlot(w) PROVE AddingInv'
  BY <1>1 DEF AddSlot
<1>2. CASE AddCount \/ AddIdle
  BY <1>2 DEF AddCount, AddIdle
<1>3. CASE AddSpawn \/ BootEnd
  BY <1>3 DEF AddSpawn, BootEnd
<1>4. ASSUME NEW w \in Workers, Start(w) \/ Take(w) \/ working(w) \/ Finish(w) \/ Leave(w)
      PROVE  AddingInv'
  BY <1>4 DEF Start, Take, working, Finish, Leave
<1>5. ASSUME NEW w \in Workers, Exit(w) PROVE AddingInv'
  BY <1>5 DEF Exit, Uncount
<1>6. CASE Check \/ ReadLen \/ ReadIdle \/ rmWorker
  BY <1>6 DEF Check, ReadLen, ReadIdle, rmWorker
<1>7. CASE CloseDone \/ CloseSetNil \/ CloseSlots \/ WaitReturns \/ Arrive
  BY <1>7 DEF CloseDone, CloseSetNil, CloseSlots, WaitReturns, Arrive
<1>8. CASE UNCHANGED poolVars
  BY <1>8 DEF poolVars
<1> QED
  BY <1>1, <1>2, <1>3, <1>4, <1>5, <1>6, <1>7, <1>8 DEF PoolNext, addWorker, autoScaler, worker

(* The inductive invariant holds in every reachable state. *)
THEOREM SpecPoolInv == PoolSpec => []PoolInv
<1>1. PoolInv /\ [PoolNext]_poolVars => PoolInv'
  BY TypeStep, AccountingStep, AddingStep DEF PoolInv
<1> QED
  BY InitPoolInv, <1>1, PTL DEF PoolSpec

(* count, idleCount and the wait group are never negative, idleCount never
   exceeds count, and count exceeds the wait group by at most the worker that
   addWorker is starting, for any number of workers.                        *)
THEOREM CountersStaySane == PoolSpec => []CountersSane
<1>1. PoolInv => CountersSane
  <2> SUFFICES ASSUME PoolInv PROVE CountersSane
    OBVIOUS
  <2> USE DEF PoolInv
  <2> DEFINE C == Those(wpc, CountedAt)
             I == Those(wpc, IdledAt)
             W == Those(wpc, WaitedAt)
  <2>1. /\ IsFiniteSet(C) /\ Cardinality(C) \in Nat
        /\ IsFiniteSet(I) /\ Cardinality(I) \in Nat
        /\ IsFiniteSet(W) /\ Cardinality(W) \in Nat
    BY ThoseCardinality
  <2>2. Cardinality(I) <= Cardinality(C)
    <3>1. I \subseteq C
      BY DEF Those, IdledAt, CountedAt
    <3> HIDE DEF I, C
    <3> QED
      BY <2>1, <3>1, FS_Subset
  <2>3. CASE adding = None
    <3>1. C \subseteq W
      BY <2>3, PoolAssumption DEF Those, CountedAt, WaitedAt, AddingInv
    <3>2. Cardinality(C) <= Cardinality(W)
      <4> HIDE DEF C, W
      <4> QED
        BY <2>1, <3>1, FS_Subset
    <3> QED
      BY <2>1, <2>2, <2>3, <3>2 DEF CountersSane, Accounting
  <2>4. CASE adding # None
    <3>1. C \subseteq W \cup {adding}
      BY <2>4 DEF Those, CountedAt, WaitedAt, AddingInv
    <3>2. Cardinality(C) <= Cardinality(W) + 1
      <4> HIDE DEF C, W
      <4>1. /\ IsFiniteSet(W \cup {adding})
            /\ Cardinality(W \cup {adding}) =
                 IF adding \in W THEN Cardinality(W) ELSE Cardinality(W) + 1
        BY <2>1, FS_AddElement
      <4>2. Cardinality(C) <= Cardinality(W \cup {adding})
        BY <3>1, <4>1, FS_Subset
      <4> QED
        BY <2>1, <4>1, <4>2
    <3> QED
      BY <2>1, <2>2, <2>4, <3>2 DEF CountersSane, Accounting
  <2> QED
    BY <2>3, <2>4
<1> QED
  BY <1>1, SpecPoolInv, PTL

(* close() returns only after every worker has exited, whatever the workers
   were doing; a pool that scales may start one more worker, and only one.  *)
THEOREM PoolCloses == PoolSpec => []ClosedMeansNoWorker
<1>1. PoolInit => ClosedMeansNoWorker
  BY DEF PoolInit, ClosedMeansNoWorker
<1>2. PoolInv /\ ClosedMeansNoWorker /\ [PoolNext]_poolVars => ClosedMeansNoWorker'
  <2> SUFFICES ASSUME PoolInv, ClosedMeansNoWorker, [PoolNext]_poolVars, closer' = "closed"
               PROVE  ClosedMeansNoWorker'
    BY DEF ClosedMeansNoWorker
  <2>0. /\ wpc \in [Workers -> Places]
        /\ QWeight \in Int \ {0} /\ None \notin Workers
        /\ \A w \in Workers : wpc[w] \in {"slotted", "counted", "idled"} <=> adding = w
        /\ adding # None => boss \in {"boot", "add"}
        /\ closer # "open" => boss # "boot"
        /\ QWeight < 0 => boss \in {"boot", "gone"}
    BY PoolAssumption DEF PoolInv, PoolTypeOK, AddingInv
  <2>1. CASE closer # "closed"
    <3>1. WaitReturns
      BY <2>1
      DEF PoolNext, addWorker, AddSlot, AddCount, AddIdle, AddSpawn, BootEnd, autoScaler, Check,
          ReadLen, ReadIdle, rmWorker, worker, Start, Take, working, Leave, Exit, Uncount,
          Finish, CloseDone, CloseSetNil, CloseSlots, WaitReturns, Arrive, poolVars
    <3>2. Those(wpc, WaitedAt) = {}
      BY <3>1, ThoseCardinality, FS_EmptySet DEF WaitReturns, PoolInv, Accounting
    <3>3. \A w \in Workers : wpc[w] # "unborn" => adding = w
      BY <3>2, <2>0 DEF Those, WaitedAt, Places
    <3>4. adding # None => QWeight > 0
      BY <3>1, <2>0 DEF WaitReturns
    <3>5. wpc' = wpc /\ adding' = adding
      BY <3>1 DEF WaitReturns
    <3> QED
      BY <3>3, <3>4, <3>5, <2>0 DEF ClosedMeansNoWorker, Alive
  <2>2. CASE closer = "closed" /\ Alive = {}
    <3>1. adding = None
      BY <2>2, <2>0 DEF Alive, PoolInv, PoolTypeOK
    <3>2. CASE \E w \in Workers : AddSlot(w)
      <4>1. PICK w \in Workers : AddSlot(w)
        BY <3>2
      <4>2. boss = "add" /\ adding' = w /\ wpc' = [wpc EXCEPT ![w] = "slotted"]
        BY <4>1, <2>0, <2>2 DEF AddSlot
      <4>3. QWeight > 0 /\ adding' # None
        BY <4>2, <2>0
      <4>4. \A v \in Workers : wpc'[v] # "unborn" => v = w
        BY <4>2, <2>0, <2>2 DEF Alive
      <4> QED
        BY <4>3, <4>4 DEF ClosedMeansNoWorker, Alive
    <3>3. CASE ~\E w \in Workers : AddSlot(w)
      <4>1. \A w \in Workers : wpc[w] = "unborn"
        BY <2>2 DEF Alive
      <4>2. wpc' = wpc
        BY <3>1, <3>3, <4>1
        DEF PoolNext, addWorker, AddCount, AddIdle, AddSpawn, BootEnd, autoScaler, Check,
            ReadLen, ReadIdle, rmWorker, worker, Start, Take, working, Leave, Exit, Uncount,
            Finish, CloseDone, CloseSetNil, CloseSlots, WaitReturns, Arrive, poolVars
      <4> QED
        BY <4>1, <4>2 DEF ClosedMeansNoWorker, Alive
    <3> QED
      BY <3>2, <3>3
  <2>3. CASE closer = "closed" /\ Alive # {}
    <3>1. /\ QWeight > 0 /\ \A v, w \in Alive : v = w
          /\ adding # None \/ boss \in {"check", "gone"}
      BY <2>3 DEF ClosedMeansNoWorker
    <3>2. \A w \in Workers : wpc'[w] # "unborn" => wpc[w] # "unborn"
      BY <2>0, <3>1
      DEF PoolNext, addWorker, AddSlot, AddCount, AddIdle, AddSpawn, BootEnd, autoScaler, Check,
          ReadLen, ReadIdle, rmWorker, worker, Start, Take, working, Leave, Exit, Uncount,
          Finish, CloseDone, CloseSetNil, CloseSlots, WaitReturns, Arrive, poolVars, Places
    <3>3. adding' # None \/ boss' \in {"check", "gone"}
      BY <2>0, <2>3, <3>1
      DEF PoolNext, addWorker, AddSlot, AddCount, AddIdle, AddSpawn, BootEnd, autoScaler, Check,
          ReadLen, ReadIdle, rmWorker, worker, Start, Take, working, Leave, Exit, Uncount,
          Finish, CloseDone, CloseSetNil, CloseSlots, WaitReturns, Arrive, poolVars
    <3> QED
      BY <3>1, <3>2, <3>3 DEF ClosedMeansNoWorker, Alive
  <2> QED
    BY <2>1, <2>2, <2>3
<1> QED
  BY <1>1, <1>2, SpecPoolInv, PTL DEF PoolSpec

(* Types are kept. *)
THEOREM PoolTypeCorrect == PoolSpec => []PoolTypeOK
<1>1. PoolInv => PoolTypeOK
  BY DEF PoolInv
<1> QED
  BY <1>1, SpecPoolInv, PTL

-----------------------------------------------------------------------------
(* The server.                                                             *)

(* Handlers that are running, and the parts that are started and not yet listed. *)
Active == {h \in Handlers : pc[h] \notin {"user", "end"}}
Pending == {Head(todo[p]) : p \in {q \in Starters : pc[q] = "append"}}

(* What Serve will close, or has left to close. *)
ToClose == IF pc[Main] \in {"closing", "end"} THEN Range(ranged) ELSE Range(closers)

(* s.closed is closed at the very end of Serve, and only then does a CloseWait
   return.                                                                  *)
ClosedInv ==
    /\ closed => pc[Main] = "end"
    /\ \A c \in Callers : Kind[c] = "CloseWait" /\ cpc[c] = "ret" => closed
    /\ pc[Main] = "end" => ranged = <<>>

(* Nothing happens before init.  The message queue is on every list an append has
   read, so it is closed, and that waits for the handlers.                  *)
QueueInv ==
    /\ ~initialized => open = {} /\ \A p \in Starters : pc[p] = "user"
    /\ initialized /\ pc[Main] \notin {"closing", "end"} => "mq" \in Range(closers)
    /\ \A p \in Starters : pc[p] = "append" /\ pc[Main] \notin {"closing", "end"} => "mq" \in Range(seen[p])
    /\ "mq" \in open => "mq" \in ToClose
    /\ Active # {} => "mq" \in ToClose

(* The parts that run are to be closed, or about to be listed, or lost in a race. *)
ListedInv == open \subseteq ToClose \cup Pending \cup raced

(* Who starts parts has some left, and the message queue is not among them. *)
TodoInv ==
    /\ \A p \in Starters : pc[p] = "append" => todo[p] # <<>>
    /\ \A p \in Starters : "mq" \notin Range(todo[p])

(* The inductive invariant of the server. *)
ServerInv == TypeOK /\ ClosedInv /\ QueueInv /\ ListedInv /\ TodoInv

(* What an append, a tail and the empty sequence hold. *)
LEMMA RangeAppend ==
    ASSUME NEW S, NEW s \in Seq(S), NEW x \in S
    PROVE  Append(s, x) \in Seq(S) /\ Range(Append(s, x)) = Range(s) \cup {x}
<1>1. /\ Append(s, x) \in Seq(S) /\ DOMAIN Append(s, x) = 1 .. Len(s) + 1 /\ DOMAIN s = 1 .. Len(s)
      /\ Len(s) \in Nat /\ \A i \in 1 .. Len(s) : Append(s, x)[i] = s[i]
      /\ Append(s, x)[Len(s) + 1] = x
  OBVIOUS
<1>2. \A i \in 1 .. Len(s) + 1 : i \in 1 .. Len(s) \/ i = Len(s) + 1
  BY <1>1
<1>3. \A i \in 1 .. Len(s) : i \in 1 .. Len(s) + 1
  BY <1>1
<1>4. Len(s) + 1 \in 1 .. Len(s) + 1
  BY <1>1
<1> QED
  BY <1>1, <1>2, <1>3, <1>4 DEF Range

LEMMA RangeTail ==
    ASSUME NEW S, NEW s \in Seq(S), s # <<>>
    PROVE  /\ Tail(s) \in Seq(S) /\ Head(s) \in S /\ Head(s) \in Range(s)
           /\ Range(s) = Range(Tail(s)) \cup {Head(s)}
<1>1. /\ Tail(s) \in Seq(S) /\ Head(s) \in S /\ Head(s) = s[1] /\ Len(s) \in Nat \ {0}
      /\ DOMAIN s = 1 .. Len(s) /\ DOMAIN Tail(s) = 1 .. Len(s) - 1
      /\ \A i \in 1 .. Len(s) - 1 : Tail(s)[i] = s[i + 1]
  OBVIOUS
<1>2. 1 \in 1 .. Len(s)
  BY <1>1
<1>3. ASSUME NEW i \in 1 .. Len(s), i # 1 PROVE s[i] \in Range(Tail(s))
  <2>1. i - 1 \in 1 .. Len(s) - 1 /\ (i - 1) + 1 = i
    BY <1>1, <1>3
  <2>2. Tail(s)[i - 1] = s[i]
    BY <1>1, <2>1
  <2> QED
    BY <1>1, <2>1, <2>2 DEF Range
<1>4. ASSUME NEW i \in 1 .. Len(s) - 1 PROVE Tail(s)[i] \in Range(s)
  <2>1. i + 1 \in 1 .. Len(s) /\ Tail(s)[i] = s[i + 1]
    BY <1>1
  <2> QED
    BY <1>1, <2>1 DEF Range
<1>5. Range(Tail(s)) \subseteq Range(s) /\ Head(s) \in Range(s)
  BY <1>1, <1>2, <1>4 DEF Range
<1>6. Range(s) \subseteq Range(Tail(s)) \cup {Head(s)}
  BY <1>1, <1>3 DEF Range
<1> QED
  BY <1>1, <1>5, <1>6

LEMMA RangeEmpty == Range(<<>>) = {}
  BY DEF Range

LEMMA RangeConcat ==
    ASSUME NEW S, NEW s \in Seq(S), NEW r \in Seq(S)
    PROVE  s \o r \in Seq(S) /\ Range(s \o r) \subseteq Range(s) \cup Range(r)
<1>1. /\ s \o r \in Seq(S) /\ DOMAIN (s \o r) = 1 .. Len(s) + Len(r) /\ Len(s) \in Nat /\ Len(r) \in Nat
      /\ DOMAIN s = 1 .. Len(s) /\ DOMAIN r = 1 .. Len(r)
      /\ \A i \in 1 .. Len(s) + Len(r) : (s \o r)[i] = IF i <= Len(s) THEN s[i] ELSE r[i - Len(s)]
  BY ConcatProperties
<1>2. \A i \in 1 .. Len(s) + Len(r) : i \in 1 .. Len(s) \/ (~(i <= Len(s)) /\ i - Len(s) \in 1 .. Len(r))
  BY <1>1
<1>3. \A i \in 1 .. Len(s) : i <= Len(s)
  BY <1>1
<1> QED
  BY <1>1, <1>2, <1>3 DEF Range

LEMMA PartsTyped ==
    /\ Builtins \in Seq(Parts) /\ Published \in Seq(Parts) /\ LateParts \in [Handlers -> Seq(Parts)]
    /\ \A h \in Handlers : h # Main /\ "mq" \notin Range(LateParts[h])
    /\ "mq" \in Parts /\ "mq" \notin Range(Published)
    /\ \A rest \in {Published, <<>>} :
          Builtins \o rest \in Seq(Parts) /\ "mq" \notin Range(Builtins \o rest)
<1>1. /\ Builtins \in Seq(Parts) /\ Published \in Seq(Parts) /\ LateParts \in [Handlers -> Seq(Parts)]
      /\ \A h \in Handlers : h # Main /\ "mq" \notin Range(LateParts[h])
      /\ "mq" \notin Range(Builtins) /\ "mq" \notin Range(Published)
  BY ServerAssumption
<1>2. "mq" \in Parts
  BY DEF Parts
<1> HIDE DEF Parts
<1>3. <<>> \in Seq(Parts) /\ Range(<<>>) = {}
  BY RangeEmpty
<1>4. ASSUME NEW rest \in {Published, <<>>}
      PROVE  Builtins \o rest \in Seq(Parts) /\ "mq" \notin Range(Builtins \o rest)
  <2>1. rest \in Seq(Parts) /\ "mq" \notin Range(rest)
    BY <1>1, <1>3
  <2> QED
    BY <1>1, <2>1, RangeConcat
<1> QED
  BY <1>1, <1>2, <1>4

LEMMA InitServerInv == Init => ServerInv
<1> SUFFICES ASSUME Init PROVE ServerInv
  OBVIOUS
<1>0. Main \in Starters /\ \A p \in Starters : p = Main \/ p \in Handlers
  BY DEF Starters
<1>1. TypeOK
  <2>1. <<>> \in Seq(Parts) /\ <<>> \in Seq({"noError", "unrecoverable"}) /\ Len(<<>>) <= ErrCap
    BY DEF ErrCap
  <2>2. todo \in [Starters -> Seq(Parts)]
    BY <2>1, PartsTyped DEF Init, Starters
  <2> QED
    BY <2>1, <2>2 DEF Init, TypeOK
<1>2. ClosedInv
  BY DEF Init, ClosedInv
<1>3. Active = {} /\ Pending = {}
  BY <1>0 DEF Init, Active, Pending, Starters
<1>4. QueueInv
  BY <1>0, <1>3 DEF Init, QueueInv
<1>5. ListedInv
  BY DEF Init, ListedInv
<1>6. TodoInv
  BY <1>0, PartsTyped, RangeEmpty DEF Init, TodoInv
<1> QED
  BY <1>1, <1>2, <1>4, <1>5, <1>6 DEF ServerInv

(* The steps that start parts: what they change, and that it stays listed. *)
LEMMA StartStep ==
    ASSUME ServerInv, NEW p \in Starters, Starting(p)
    PROVE  ServerInv'
<1>0. /\ Main \in Starters /\ (p \in Handlers \/ p = Main)
      /\ \A h \in Handlers : h \in Starters /\ h # Main
  BY PartsTyped DEF Starters
<1>t. /\ pc \in [Starters -> {"user", "start", "append", "serve", "closing", "end"}]
      /\ todo \in [Starters -> Seq(Parts)] /\ seen \in [Starters -> Seq(Parts)] /\ closers \in Seq(Parts)
  BY DEF ServerInv, TypeOK
<1>1. CASE StartPart(p)
  <2>1. /\ pc[p] = "start" /\ todo[p] # <<>> /\ open' = open \cup {Head(todo[p])}
        /\ pc' = [pc EXCEPT ![p] = "append"] /\ seen' = [seen EXCEPT ![p] = closers]
        /\ UNCHANGED <<initialized, closers, errs, closed, todo, ranged, call, cpc, raced>>
    BY <1>1 DEF StartPart
  <2>2. /\ Head(todo[p]) \in Parts /\ Head(todo[p]) # "mq" /\ initialized
        /\ pc'[p] = "append" /\ \A q \in Starters \ {p} : pc'[q] = pc[q]
        /\ seen'[p] = closers /\ \A q \in Starters \ {p} : seen'[q] = seen[q]
    <3>1. Head(todo[p]) \in Parts /\ Head(todo[p]) \in Range(todo[p])
      BY <1>t, <2>1, RangeTail
    <3> QED
      BY <1>t, <2>1, <3>1 DEF ServerInv, TodoInv, QueueInv
  <2>3. TypeOK'
    BY <2>1, <2>2 DEF ServerInv, TypeOK
  <2>4. ToClose' = ToClose /\ (Active' # {} => Active # {})
    BY <1>0, <2>1, <2>2 DEF ToClose, Active
  <2>5. ClosedInv'
    BY <1>0, <2>1, <2>2 DEF ServerInv, ClosedInv
  <2>6. QueueInv'
    BY <1>0, <2>1, <2>2, <2>4 DEF ServerInv, QueueInv
  <2>7. Pending \subseteq Pending' /\ Head(todo[p]) \in Pending'
    BY <2>1, <2>2 DEF Pending
  <2>8. ListedInv' /\ TodoInv'
    BY <2>1, <2>2, <2>4, <2>7 DEF ServerInv, ListedInv, TodoInv
  <2> QED
    BY <2>3, <2>5, <2>6, <2>8 DEF ServerInv
<1>2. CASE StartFails(p) \/ Started(p)
  <2> DEFINE next == IF p # Main THEN "end"
                     ELSE IF StartFails(p) \/ call # "Serve" THEN "user" ELSE "serve"
  <2>1. /\ pc[p] = "start" /\ pc' = [pc EXCEPT ![p] = next]
        /\ UNCHANGED <<initialized, closers, open, errs, closed, seen, ranged, call, cpc, raced>>
    <3>1. CASE StartFails(p)
      BY <3>1 DEF StartFails
    <3>2. CASE ~StartFails(p) /\ Started(p)
      BY <3>2 DEF Started
    <3> QED
      BY <1>2, <3>1, <3>2
  <2>a. /\ next \in {"user", "serve", "end"} /\ (next = "end" <=> p # Main)
    OBVIOUS
  <2> HIDE DEF next
  <2>b. /\ pc'[p] = next /\ \A q \in Starters \ {p} : pc'[q] = pc[q]
        /\ pc' \in [Starters -> {"user", "start", "append", "serve", "closing", "end"}]
    BY <1>t, <2>1, <2>a
  <2>2. /\ todo' \in [Starters -> Seq(Parts)] /\ \A q \in Starters \ {p} : todo'[q] = todo[q]
        /\ "mq" \notin Range(todo'[p]) /\ initialized
    <3>1. <<>> \in Seq(Parts) /\ Range(<<>>) = {}
      BY RangeEmpty
    <3>2. "mq" \notin Range(todo[p]) /\ initialized
      BY <2>1 DEF ServerInv, TodoInv, QueueInv
    <3>3. todo' = todo \/ todo' = [todo EXCEPT ![p] = <<>>]
      BY <1>2 DEF StartFails, Started
    <3> QED
      BY <1>t, <3>1, <3>2, <3>3
  <2>3. TypeOK'
    BY <2>1, <2>b, <2>2 DEF ServerInv, TypeOK
  <2>4. ToClose' = ToClose /\ (Active' # {} => Active # {})
    BY <1>0, <2>1, <2>a, <2>b DEF ToClose, Active
  <2>5. ClosedInv'
    BY <1>0, <2>1, <2>a, <2>b DEF ServerInv, ClosedInv
  <2>6. QueueInv'
    BY <1>0, <2>1, <2>2, <2>a, <2>b, <2>4 DEF ServerInv, QueueInv
  <2>7. Pending \subseteq Pending'
    BY <2>1, <2>b, <2>2 DEF Pending
  <2>8. ListedInv' /\ TodoInv'
    BY <2>1, <2>2, <2>a, <2>b, <2>4, <2>7 DEF ServerInv, ListedInv, TodoInv
  <2> QED
    BY <2>3, <2>5, <2>6, <2>8 DEF ServerInv
<1>3. CASE AppendPart(p)
  <2> DEFINE x == Head(todo[p])
  <2>1. /\ pc[p] = "append" /\ closers' = Append(seen[p], x)
        /\ todo' = [todo EXCEPT ![p] = Tail(@)] /\ seen' = [seen EXCEPT ![p] = <<>>]
        /\ pc' = [pc EXCEPT ![p] = "start"] /\ raced' = raced \cup Lost(p)
        /\ UNCHANGED <<initialized, open, errs, closed, ranged, call, cpc>>
    BY <1>3 DEF AppendPart, addCloser
  <2>2. /\ x \in Parts /\ x # "mq" /\ Tail(todo[p]) \in Seq(Parts) /\ "mq" \notin Range(Tail(todo[p]))
    <3>1. todo[p] # <<>> /\ "mq" \notin Range(todo[p])
      BY <2>1 DEF ServerInv, TodoInv
    <3>2. x \in Parts /\ x \in Range(todo[p]) /\ Tail(todo[p]) \in Seq(Parts)
          /\ Range(todo[p]) = Range(Tail(todo[p])) \cup {x}
      BY <1>t, <3>1, RangeTail
    <3> QED
      BY <3>1, <3>2
  <2>3. /\ closers' \in Seq(Parts) /\ Range(closers') = Range(seen[p]) \cup {x}
        /\ Range(closers) \subseteq Parts
    <3>1. seen[p] \in Seq(Parts)
      BY <1>t
    <3>2. Range(closers) \subseteq Parts
      BY <1>t DEF Range
    <3> QED
      BY <2>1, <2>2, <3>1, <3>2, RangeAppend
  <2> HIDE DEF x
  <2>b. /\ pc'[p] = "start" /\ \A q \in Starters \ {p} : pc'[q] = pc[q]
        /\ pc' \in [Starters -> {"user", "start", "append", "serve", "closing", "end"}]
        /\ todo'[p] = Tail(todo[p]) /\ \A q \in Starters \ {p} : todo'[q] = todo[q]
        /\ todo' \in [Starters -> Seq(Parts)]
        /\ seen' \in [Starters -> Seq(Parts)] /\ \A q \in Starters \ {p} : seen'[q] = seen[q]
    <3>1. <<>> \in Seq(Parts)
      OBVIOUS
    <3> QED
      BY <1>t, <2>1, <2>2, <3>1
  <2>4. Lost(p) = IF pc[Main] = "closing" THEN {x} ELSE Range(closers) \ Range(seen[p])
    BY DEF Lost, x
  <2>5. TypeOK'
    <3>1. raced' \subseteq Parts
      BY <2>1, <2>2, <2>3, <2>4 DEF ServerInv, TypeOK
    <3> QED
      BY <2>1, <2>3, <2>b, <3>1 DEF ServerInv, TypeOK
  <2>6. ClosedInv'
    BY <1>0, <2>1, <2>b DEF ServerInv, ClosedInv
  <2>7. /\ Active' # {} => Active # {}
        /\ pc'[Main] \in {"closing", "end"} <=> pc[Main] \in {"closing", "end"}
    BY <1>0, <2>1, <2>b DEF Active
  <2>8. pc[Main] # "end"
    <3>1. ASSUME pc[Main] = "end" PROVE FALSE
      <4>1. p \in Active /\ Range(ranged) = {}
        BY <1>0, <2>1, <3>1, RangeEmpty DEF Active, ServerInv, ClosedInv
      <4> QED
        BY <3>1, <4>1 DEF ServerInv, QueueInv, ToClose
    <3> QED
      BY <3>1
  <2>9. "mq" \in ToClose => "mq" \in ToClose'
    <3>1. CASE pc[Main] \in {"closing", "end"}
      BY <2>1, <2>7, <3>1 DEF ToClose
    <3>2. CASE pc[Main] \notin {"closing", "end"}
      BY <2>1, <2>3, <2>7, <3>2 DEF ToClose, ServerInv, QueueInv
    <3> QED
      BY <3>1, <3>2
  <2>10. QueueInv'
    <3>1. pc[Main] \notin {"closing", "end"} => "mq" \in Range(closers')
      BY <2>1, <2>3 DEF ServerInv, QueueInv
    <3>2. initialized
      BY <2>1 DEF ServerInv, QueueInv
    <3> QED
      BY <2>1, <2>b, <2>7, <2>9, <3>1, <3>2 DEF ServerInv, QueueInv
  <2>11. Pending \subseteq Pending' \cup {x}
    BY <2>1, <2>b DEF Pending, x
  <2>12. ListedInv'
    <3>1. CASE pc[Main] = "closing"
      BY <2>1, <2>4, <2>7, <2>11, <3>1 DEF ServerInv, ListedInv, ToClose
    <3>2. CASE pc[Main] # "closing"
      BY <2>1, <2>3, <2>4, <2>7, <2>8, <2>11, <3>2 DEF ServerInv, ListedInv, ToClose
    <3> QED
      BY <3>1, <3>2
  <2>13. TodoInv'
    BY <2>2, <2>b DEF ServerInv, TodoInv
  <2> QED
    BY <2>5, <2>6, <2>10, <2>12, <2>13 DEF ServerInv
<1> QED
  BY <1>1, <1>2, <1>3 DEF Starting

(* The steps of Serve and of the program that calls it. *)
LEMMA MainStep ==
    ASSUME ServerInv, publish \/ ServeInit \/ Serve \/ ServeEvent \/ ClosePart \/ doCloseEnd
    PROVE  ServerInv'
<1>0. Main \in Starters /\ \A h \in Handlers : h \in Starters /\ h # Main
  BY PartsTyped DEF Starters
<1>t. /\ pc \in [Starters -> {"user", "start", "append", "serve", "closing", "end"}]
      /\ todo \in [Starters -> Seq(Parts)] /\ closers \in Seq(Parts) /\ ranged \in Seq(Parts)
  BY DEF ServerInv, TypeOK
<1>1. CASE publish \/ ServeInit
  <2>1. /\ pc[Main] = "user" /\ pc' = [pc EXCEPT ![Main] = "start"] /\ call' \in {"publish", "Serve"}
        /\ UNCHANGED <<errs, closed, seen, ranged, cpc, raced>>
        /\ \/ initServer(Published) \/ initServer(<<>>)
           \/ /\ todo' = [todo EXCEPT ![Main] = Published] /\ initialized
              /\ UNCHANGED <<initialized, open, closers>>
    BY <1>1 DEF publish, ServeInit
  <2>b. pc'[Main] = "start" /\ \A q \in Starters \ {Main} : pc'[q] = pc[q]
    BY <1>0, <1>t, <2>1
  <2>2. /\ initialized' = TRUE /\ open' \subseteq Parts /\ closers' \in Seq(Parts)
        /\ todo' \in [Starters -> Seq(Parts)] /\ \A q \in Starters \ {Main} : todo'[q] = todo[q]
        /\ "mq" \notin Range(todo'[Main]) /\ "mq" \in Range(closers')
        /\ \E S : open' = open \cup S /\ Range(closers') = Range(closers) \cup S
    <3>1. CASE initServer(Published) \/ initServer(<<>>)
      <4>1. /\ initialized' = TRUE /\ open' = open \cup {"mq"} /\ closers' = Append(closers, "mq")
            /\ \E rest \in {Published, <<>>} : todo' = [todo EXCEPT ![Main] = Builtins \o rest]
        BY <3>1 DEF initServer
      <4>2. closers' \in Seq(Parts) /\ Range(closers') = Range(closers) \cup {"mq"}
        BY <1>t, <4>1, PartsTyped, RangeAppend
      <4>3. /\ todo' \in [Starters -> Seq(Parts)] /\ \A q \in Starters \ {Main} : todo'[q] = todo[q]
            /\ "mq" \notin Range(todo'[Main])
        <5> PICK rest \in {Published, <<>>} : todo' = [todo EXCEPT ![Main] = Builtins \o rest]
          BY <4>1
        <5>1. Builtins \o rest \in Seq(Parts) /\ "mq" \notin Range(Builtins \o rest)
          BY PartsTyped
        <5> DEFINE b == Builtins \o rest
        <5> HIDE DEF b
        <5>2. todo' = [todo EXCEPT ![Main] = b] /\ b \in Seq(Parts) /\ "mq" \notin Range(b)
          BY <5>1 DEF b
        <5> QED
          BY <1>0, <1>t, <5>2
      <4>4. open' \subseteq Parts
        BY <4>1, PartsTyped DEF ServerInv, TypeOK
      <4> QED
        BY <4>1, <4>2, <4>3, <4>4
    <3>2. CASE /\ todo' = [todo EXCEPT ![Main] = Published] /\ initialized
               /\ UNCHANGED <<initialized, open, closers>>
      <4>1. /\ todo' \in [Starters -> Seq(Parts)] /\ \A q \in Starters \ {Main} : todo'[q] = todo[q]
            /\ "mq" \notin Range(todo'[Main])
        BY <1>0, <1>t, <3>2, PartsTyped
      <4>2. open' = open \cup {} /\ Range(closers') = Range(closers) \cup {} /\ "mq" \in Range(closers')
        BY <2>1, <3>2 DEF ServerInv, QueueInv
      <4> QED
        BY <3>2, <4>1, <4>2 DEF ServerInv, TypeOK
    <3> QED
      BY <2>1, <3>1, <3>2
  <2>3. TypeOK'
    BY <2>1, <2>2 DEF ServerInv, TypeOK
  <2>4. ClosedInv'
    BY <2>1, <2>b DEF ServerInv, ClosedInv
  <2>5. QueueInv'
    BY <2>1, <2>b, <2>2 DEF ServerInv, QueueInv, ToClose
  <2>6. Pending \subseteq Pending'
    BY <2>1, <2>b, <2>2 DEF Pending
  <2>7. ListedInv'
    BY <2>1, <2>b, <2>2, <2>6 DEF ServerInv, ListedInv, ToClose
  <2>8. TodoInv'
    BY <2>b, <2>2 DEF ServerInv, TodoInv
  <2> QED
    BY <2>3, <2>4, <2>5, <2>7, <2>8 DEF ServerInv
<1>2. CASE Serve
  <2>1. /\ pc[Main] = "user" /\ pc' = [pc EXCEPT ![Main] = "serve"] /\ initialized
        /\ UNCHANGED <<initialized, closers, open, errs, closed, todo, seen, ranged, call, cpc, raced>>
    BY <1>2 DEF Serve
  <2>b. pc'[Main] = "serve" /\ \A q \in Starters \ {Main} : pc'[q] = pc[q]
    BY <1>0, <1>t, <2>1
  <2>2. TypeOK' /\ ClosedInv' /\ TodoInv'
    BY <2>1, <2>b DEF ServerInv, TypeOK, ClosedInv, TodoInv
  <2>3. Pending \subseteq Pending' /\ (Active' # {} => Active # {})
    BY <1>0, <2>1, <2>b DEF Pending, Active
  <2>4. QueueInv' /\ ListedInv'
    BY <2>1, <2>b, <2>3 DEF ServerInv, QueueInv, ListedInv, ToClose
  <2> QED
    BY <2>2, <2>4 DEF ServerInv
<1>3. CASE ServeEvent
  <2>1. /\ pc[Main] = "serve" /\ errs # <<>> /\ errs' = Tail(errs)
        /\ pc' = [pc EXCEPT ![Main] = "closing"] /\ ranged' = closers
        /\ UNCHANGED <<initialized, closers, open, closed, todo, seen, call, cpc, raced>>
    BY <1>3 DEF ServeEvent
  <2>b. pc'[Main] = "closing" /\ \A q \in Starters \ {Main} : pc'[q] = pc[q]
    BY <1>0, <1>t, <2>1
  <2>2. errs' \in Seq({"noError", "unrecoverable"}) /\ Len(errs') <= ErrCap
    BY <2>1 DEF ServerInv, TypeOK, ErrCap
  <2>3. TypeOK' /\ ClosedInv' /\ TodoInv'
    BY <2>1, <2>b, <2>2 DEF ServerInv, TypeOK, ClosedInv, TodoInv
  <2>4. Pending \subseteq Pending' /\ initialized
    BY <1>0, <2>1, <2>b DEF Pending, ServerInv, QueueInv
  <2>5. ToClose' = ToClose /\ "mq" \in ToClose
    BY <2>1, <2>b, <2>4 DEF ToClose, ServerInv, QueueInv
  <2>6. QueueInv' /\ ListedInv'
    BY <2>1, <2>b, <2>4, <2>5 DEF ServerInv, QueueInv, ListedInv
  <2> QED
    BY <2>3, <2>6 DEF ServerInv
<1>4. CASE ClosePart
  <2>1. /\ pc[Main] = "closing" /\ ranged # <<>> /\ open' = open \ {Head(ranged)} /\ ranged' = Tail(ranged)
        /\ Head(ranged) = "mq" => \A h \in Handlers : pc[h] \in {"user", "end"}
        /\ UNCHANGED <<initialized, closers, errs, closed, pc, todo, seen, call, cpc, raced>>
    BY <1>4 DEF ClosePart
  <2>2. ranged' \in Seq(Parts) /\ Range(ranged) = Range(ranged') \cup {Head(ranged)}
    BY <1>t, <2>1, RangeTail
  <2>3. TypeOK' /\ ClosedInv' /\ TodoInv'
    BY <2>1, <2>2 DEF ServerInv, TypeOK, ClosedInv, TodoInv
  <2>4. Pending' = Pending /\ Active' = Active /\ (Head(ranged) = "mq" => Active = {})
    BY <2>1 DEF Pending, Active
  <2>5. ToClose = ToClose' \cup {Head(ranged)}
    BY <2>1, <2>2 DEF ToClose
  <2>6. QueueInv' /\ ListedInv'
    BY <2>1, <2>4, <2>5 DEF ServerInv, QueueInv, ListedInv
  <2> QED
    BY <2>3, <2>6 DEF ServerInv
<1>5. CASE doCloseEnd
  <2>1. /\ pc[Main] = "closing" /\ ranged = <<>> /\ closers' = <<>> /\ closed' = TRUE
        /\ pc' = [pc EXCEPT ![Main] = "end"]
        /\ UNCHANGED <<initialized, open, errs, todo, seen, ranged, call, cpc, raced>>
    BY <1>5 DEF doCloseEnd
  <2>b. pc'[Main] = "end" /\ \A q \in Starters \ {Main} : pc'[q] = pc[q]
    BY <1>0, <1>t, <2>1
  <2>2. TypeOK' /\ ClosedInv' /\ TodoInv'
    BY <2>1, <2>b DEF ServerInv, TypeOK, ClosedInv, TodoInv
  <2>3. /\ Pending \subseteq Pending' /\ (Active' # {} => Active # {}) /\ ToClose' = ToClose /\ initialized
    BY <1>0, <2>1, <2>b DEF Pending, Active, ToClose, ServerInv, QueueInv
  <2>4. QueueInv' /\ ListedInv'
    BY <2>1, <2>b, <2>3 DEF ServerInv, QueueInv, ListedInv
  <2> QED
    BY <2>2, <2>4 DEF ServerInv
<1> QED
  BY <1>1, <1>2, <1>3, <1>4, <1>5

(* The steps of the closing calls, and a handler that begins. *)
LEMMA CallerStep ==
    ASSUME ServerInv, NEW c \in Callers, CallClose(c) \/ SendEvent(c) \/ Wait(c)
    PROVE  ServerInv'
<1> USE DEF ServerInv
<1>1. UNCHANGED <<initialized, closers, open, closed, pc, todo, seen, ranged, call, raced>>
  BY DEF CallClose, SendEvent, Wait
<1>2. errs' \in Seq({"noError", "unrecoverable"}) /\ Len(errs') <= ErrCap
  <2>1. CASE SendEvent(c)
    <3> DEFINE e == IF Kind[c] = "signal" THEN "unrecoverable" ELSE "noError"
    <3>1. errs' = Append(errs, e) /\ Len(errs) < ErrCap /\ e \in {"noError", "unrecoverable"}
      BY <2>1 DEF SendEvent
    <3> HIDE DEF e
    <3> QED
      BY <3>1 DEF TypeOK, ErrCap
  <2>2. CASE CallClose(c) \/ Wait(c)
    BY <2>2 DEF CallClose, Wait, TypeOK
  <2> QED
    BY <2>1, <2>2
<1>3. /\ cpc' \in [Callers -> {"idle", "send", "wait", "ret"}]
      /\ \A d \in Callers \ {c} : cpc'[d] = cpc[d]
      /\ cpc'[c] = "ret" /\ Kind[c] = "CloseWait" => closed
  BY DEF CallClose, SendEvent, Wait, AfterClose, TypeOK
<1>4. TypeOK'
  BY <1>1, <1>2, <1>3 DEF TypeOK
<1>5. ClosedInv'
  BY <1>1, <1>3 DEF ClosedInv
<1>6. QueueInv' /\ ListedInv' /\ TodoInv'
  BY <1>1 DEF QueueInv, ListedInv, TodoInv, ToClose, Active, Pending
<1> QED
  BY <1>1, <1>4, <1>5, <1>6

LEMMA HandlerStep ==
    ASSUME ServerInv, NEW h \in Handlers, HandlerStart(h)
    PROVE  ServerInv'
<1> USE DEF ServerInv
<1>0. Main \in Starters /\ h \in Starters /\ h # Main
  BY PartsTyped DEF Starters
<1>1. /\ pc[h] = "user" /\ pc' = [pc EXCEPT ![h] = "start"] /\ "mq" \in open
      /\ UNCHANGED <<initialized, closers, open, errs, closed, todo, seen, ranged, call, cpc, raced>>
  BY DEF HandlerStart
<1>b. pc'[h] = "start" /\ \A q \in Starters \ {h} : pc'[q] = pc[q]
  BY <1>0, <1>1 DEF TypeOK
<1>2. TypeOK' /\ ClosedInv' /\ TodoInv'
  BY <1>0, <1>1, <1>b DEF TypeOK, ClosedInv, TodoInv
<1>3. Pending \subseteq Pending' /\ ToClose' = ToClose
  BY <1>0, <1>1, <1>b DEF Pending, ToClose
<1>4. QueueInv' /\ ListedInv'
  BY <1>0, <1>1, <1>b, <1>3 DEF QueueInv, ListedInv
<1> QED
  BY <1>2, <1>4

(* The inductive invariant of the server holds in every reachable state. *)
LEMMA SpecServerInv == Spec => []ServerInv
<1>1. ServerInv /\ [Next]_vars => ServerInv'
  <2> SUFFICES ASSUME ServerInv, [Next]_vars PROVE ServerInv'
    OBVIOUS
  <2>1. CASE UNCHANGED vars
    BY <2>1 DEF vars, ServerInv, TypeOK, ClosedInv, QueueInv, ListedInv, TodoInv, ToClose, Active, Pending
  <2> QED
    BY <2>1, StartStep, MainStep, CallerStep, HandlerStep DEF Next
<1> QED
  BY <1>1, InitServerInv, PTL DEF Spec

(* The server's variables keep their types; errRecovers never holds more than the
   one event it has room for.                                               *)
THEOREM SpecTypeOK == Spec => []TypeOK
<1>1. ServerInv => TypeOK
  BY DEF ServerInv
<1> QED
  BY <1>1, SpecServerInv, PTL

(* When a CloseWait has returned, the parts that still run are the transports of
   reverse proxy handlers, or of a publish beside them, whose addCloser met another
   append or doClose (server.go: addCloser, Serve, doClose, CloseWait), for any
   parts, callers and handlers.                                             *)
THEOREM SpecCloseWait == Spec => []CloseWaitMeansClosed
<1>1. ServerInv => CloseWaitMeansClosed
  <2> SUFFICES ASSUME ServerInv, closed PROVE open \subseteq raced
    BY DEF ServerInv, ClosedInv, CloseWaitMeansClosed
  <2>1. pc[Main] = "end" /\ ToClose = {}
    BY RangeEmpty DEF ServerInv, ClosedInv, ToClose
  <2>2. Active = {}
    BY <2>1 DEF ServerInv, QueueInv
  <2>3. Pending = {}
    BY <2>1, <2>2 DEF Pending, Active, Starters
  <2> QED
    BY <2>1, <2>3 DEF ServerInv, ListedInv
<1> QED
  BY <1>1, SpecServerInv, PTL

=============================================================================
