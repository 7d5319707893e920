--------------------------- MODULE TracingProofs ---------------------------
(***************************************************************************)
(* Proofs about message tracing, for any number of senders, records and    *)
(* readers: the tracing IDs that getTracingID hands out, and the sessions  *)
(* that the messageTracing service keeps and gives away.                   *)
(***************************************************************************)
EXTENDS Tracing, FiniteSetTheorems, SequenceTheorems, WellFoundedInduction, TLAPS

(* What the senders of the traced type hold.                               *)
Conf == [count : Nat, seqNum : Nat]
TagType ==
    /\ confs \in Seq(Conf) /\ cur \in 0 .. Len(confs)
    /\ spc \in [Senders -> {"idle", "match", "add"}] /\ held \in [Senders -> Nat]
    /\ issued \in [Senders -> Seq(Nat \X Nat)]
    /\ \A s \in Senders : IF spc[s] = "idle" THEN held[s] = 0 ELSE held[s] \in 1 .. Len(confs)

(* An ID that was handed out is below its type's next number, but for the  *)
(* one whose sender has still to advance the number.                       *)
Spent(s, i) ==
    LET c == issued[s][i][1]
        n == issued[s][i][2]
    IN  /\ c \in 1 .. Len(confs)
        /\ IF i = Len(issued[s]) /\ spc[s] = "add" THEN c = held[s] /\ n <= confs[c].seqNum
           ELSE n < confs[c].seqNum
SpentInv == \A s \in Senders : \A i \in 1 .. Len(issued[s]) : Spent(s, i)

TagInv == TagType /\ SpentInv /\ SeqNumBounded

(* The helper only handles records that traceMsg made.                     *)
HelperInv ==
    /\ traced \in Seq(Nat \X Nat)
    /\ tested \subseteq 1 .. Len(traced)
    /\ tracedMsgChan \in Seq(Nat)
    /\ \A i \in 1 .. Len(tracedMsgChan) : tracedMsgChan[i] \in 1 .. Len(traced)
    /\ undelivered \in 0 .. Len(traced)
    /\ at = "deliver" => undelivered # 0

(* What was accepted is delivered or lost, or still in the flow, in order.  *)
FlowInv ==
    /\ arrived \in Seq(Nat) /\ accepted \in Seq(Nat)
    /\ \A m \in ToSet(accepted) : m \in 1 .. Len(traced) /\ m \notin tested
    /\ lost \subseteq ToSet(accepted)
    /\ at = "recv" => undelivered = 0
    /\ DeliveredInOrder

(* The collector.                                                          *)
Records == 1 .. Len(token)
CollectType ==
    /\ token \in Seq(Nat \X Nat)
    /\ pc \in Seq({"arrive", "append", "move", "create", "done"}) /\ Len(pc) = Len(token)
    /\ elem \in Seq(Nat \cup {None}) /\ Len(elem) = Len(token)
    /\ records \in Seq(SUBSET Nat) /\ Len(records) = Len(token)
    /\ lru \in Seq(Nat)
    /\ rpc \in [Readers -> {"arrive", "read", "done"}]
    /\ taken \in [Readers -> SUBSET Nat] /\ result \in [Readers -> SUBSET Nat]

(* A record is in one session at most, once its handler has put it there.  *)
RecordInv ==
    /\ \A s \in Records : pc[s] \in {"arrive", "create"} => records[s] = {}
    /\ \A s \in Records : \A r \in records[s] : r \in Records /\ pc[r] \in {"move", "done"}
    /\ \A s, t \in Records : s # t => records[s] \cap records[t] = {}
    /\ \A r \in Records : pc[r] \in {"append", "move"} => elem[r] \in Records /\ pc[elem[r]] = "done"

(* A session is in the list, or one reader has taken it, or neither.       *)
SessionInv ==
    /\ \A s \in ToSet(lru) : s \in Records /\ pc[s] = "done"
    /\ \A d \in Readers : \A s \in taken[d] : s \in Records /\ pc[s] = "done" /\ s \notin ToSet(lru)
    /\ \A d, e \in Readers : d # e => taken[d] \cap taken[e] = {}
    /\ \A d \in Readers : rpc[d] = "arrive" => taken[d] = {}

(* What a reader has collected comes from sessions that nobody can read.   *)
ReadInv ==
    \A d \in Readers : \A r \in result[d] : \E s \in Records :
        r \in records[s] /\ s \notin ToSet(lru) /\ \A e \in Readers : s \notin taken[e]

CollectInv ==
    CollectType /\ RecordInv /\ SessionInv /\ ReadInv /\ IndexesAgree /\ ReturnedOnce

(* The inductive invariant.                                                *)
IInv == TagInv /\ HelperInv /\ FlowInv /\ CollectInv

-----------------------------------------------------------------------------
(* Tagging.                                                                *)

(* The senders that hold a conf, and their number. *)
Holders(c) == {s \in Senders : held[s] = c}

(* There are finitely many of them, no more than there are senders. *)
LEMMA HoldersCount ==
    ASSUME NEW S \in SUBSET Senders
    PROVE  /\ IsFiniteSet(S) /\ Cardinality(S) \in Nat /\ Cardinality(Senders) \in Nat
           /\ Cardinality(S) <= Cardinality(Senders)
  BY TracingAssumption, FS_Subset, FS_CardinalityType

(* One more or one fewer. *)
LEMMA HoldersStep ==
    ASSUME NEW S \in SUBSET Senders, NEW x \in Senders
    PROVE  /\ x \notin S => Cardinality(S \cup {x}) = Cardinality(S) + 1
           /\ x \in S => Cardinality(S \ {x}) = Cardinality(S) - 1
<1>1. IsFiniteSet(S)
  BY HoldersCount
<1> QED
  BY <1>1, FS_AddElement, FS_RemoveElement

(* What is read of a conf are numbers. *)
LEMMA ConfNat ==
    ASSUME NEW q \in Seq(Conf), NEW c \in 1 .. Len(q)
    PROVE  q[c] \in Conf /\ q[c].count \in Nat /\ q[c].seqNum \in Nat
<1>1. q[c] \in Conf
  BY ElementOfSeq
<1> QED
  BY <1>1 DEF Conf

(* Nothing but tagging disturbs it. *)
LEMMA TagFrame == TagInv /\ UNCHANGED tagVars => TagInv'
  BY DEF TagInv, TagType, SpentInv, Spent, SeqNumBounded, tagVars

(* A conf's count changes, or a conf is made: the numbers stay. *)
LEMMA TraceMsgTag == ASSUME TagInv, NEW n \in Counts, TraceMsgByName(n) PROVE TagInv'
<1>1. /\ confs \in Seq(Conf) /\ cur \in 0 .. Len(confs) /\ Len(confs) \in Nat
      /\ Capped(n) \in Nat /\ UNCHANGED <<spc, held, issued>>
  BY TracingAssumption DEF TagInv, TagType, TraceMsgByName, Capped
<1>2. \A c \in 1 .. Len(confs) : confs[c] \in Conf /\ confs[c].count \in Nat /\ confs[c].seqNum \in Nat
  BY <1>1, ConfNat
<1>3. /\ confs' \in Seq(Conf) /\ Len(confs') >= Len(confs) /\ Len(confs') \in Nat
      /\ cur' \in 0 .. Len(confs')
      /\ \A c \in 1 .. Len(confs) : confs'[c].seqNum = confs[c].seqNum
      /\ \A c \in 1 .. Len(confs) : \/ confs'[c].count = confs[c].count
                                    \/ confs'[c].count >= confs[c].seqNum
      /\ \A c \in 1 .. Len(confs') : c \in 1 .. Len(confs) \/ confs'[c].seqNum = 0
  <2>1. CASE Capped(n) = 0
    BY <1>1, <1>2, <2>1 DEF TraceMsgByName
  <2>2. CASE Capped(n) > 0 /\ cur # 0
    <3>1. PICK q \in Conf : q = confs[cur]
      BY <1>1, <1>2, <2>2
    <3> DEFINE m == NewCount(Capped(n), q.seqNum)
    <3>2. q.seqNum \in Nat /\ m \in Nat /\ m >= q.seqNum
      BY <1>1 DEF NewCount, Conf
    <3> HIDE DEF m
    <3>3. confs' = [confs EXCEPT ![cur] = [q EXCEPT !.count = m]] /\ cur' = cur
      BY <1>1, <2>2, <3>1 DEF TraceMsgByName, m
    <3>4. [q EXCEPT !.count = m] \in Conf /\ [q EXCEPT !.count = m].seqNum = q.seqNum
          /\ [q EXCEPT !.count = m].count = m
      BY <3>2 DEF Conf
    <3> DEFINE p == [q EXCEPT !.count = m]
    <3> HIDE DEF p
    <3>5. confs' \in Seq(Conf) /\ Len(confs') = Len(confs)
      BY <1>1, <2>2, <3>3, <3>4, ExceptSeq DEF p
    <3>6. \A c \in 1 .. Len(confs) : confs'[c] = IF c = cur THEN p ELSE confs[c]
      BY <1>1, <3>3 DEF p
    <3> QED
      BY <1>1, <2>2, <3>1, <3>2, <3>3, <3>4, <3>5, <3>6 DEF p
  <2>3. CASE Capped(n) > 0 /\ cur = 0
    <3> DEFINE p == [count |-> Capped(n), seqNum |-> 0]
    <3>1. p \in Conf /\ p.seqNum = 0
      BY <1>1 DEF Conf
    <3>2. confs' = Append(confs, p) /\ cur' = Len(confs')
      BY <1>1, <2>3 DEF TraceMsgByName
    <3> HIDE DEF p
    <3>3. /\ confs' \in Seq(Conf) /\ Len(confs') = Len(confs) + 1
          /\ \A c \in 1 .. Len(confs) : confs'[c] = confs[c]
          /\ confs'[Len(confs) + 1] = p
      BY <1>1, <3>1, <3>2
    <3> QED
      BY <1>1, <3>1, <3>2, <3>3
  <2>4. Capped(n) = 0 \/ Capped(n) > 0
    BY <1>1
  <2> QED
    BY <2>1, <2>2, <2>3, <2>4
<1>4. TagType'
  BY <1>1, <1>3 DEF TagInv, TagType
<1>5. SpentInv'
  <2> SUFFICES ASSUME NEW s \in Senders, NEW i \in 1 .. Len(issued[s]) PROVE Spent(s, i)'
    BY <1>1 DEF SpentInv
  <2>1. Spent(s, i)
    BY DEF TagInv, SpentInv
  <2>2. issued[s][i][1] \in 1 .. Len(confs)
    BY <2>1 DEF Spent
  <2>3. /\ issued[s][i][1] \in 1 .. Len(confs')
        /\ confs'[issued[s][i][1]].seqNum = confs[issued[s][i][1]].seqNum
    BY <1>1, <1>3, <2>2
  <2> QED
    BY <1>1, <2>1, <2>3 DEF Spent
<1>6. SeqNumBounded'
  <2> SUFFICES ASSUME NEW c \in 1 .. Len(confs')
               PROVE  confs'[c].seqNum + Cardinality(Holders(c)) <= confs'[c].count + Cardinality(Senders)
    BY <1>1 DEF SeqNumBounded, Holders
  <2>1. /\ Cardinality(Holders(c)) \in Nat /\ Cardinality(Senders) \in Nat
        /\ Cardinality(Holders(c)) <= Cardinality(Senders)
    BY HoldersCount DEF Holders
  <2>2. confs'[c].seqNum \in Nat /\ confs'[c].count \in Nat
    BY <1>3, ConfNat
  <2>3. CASE c \in 1 .. Len(confs)
    <3>1. confs[c].seqNum + Cardinality(Holders(c)) <= confs[c].count + Cardinality(Senders)
      BY <2>3 DEF TagInv, SeqNumBounded, Holders
    <3>2. /\ confs[c].seqNum \in Nat /\ confs[c].count \in Nat /\ confs'[c].seqNum = confs[c].seqNum
          /\ confs'[c].count = confs[c].count \/ confs'[c].count >= confs[c].seqNum
      BY <1>2, <1>3, <2>3
    <3> QED
      BY <2>1, <2>2, <3>1, <3>2
  <2>4. CASE confs'[c].seqNum = 0
    BY <2>1, <2>2, <2>4
  <2> QED
    BY <1>3, <2>3, <2>4
<1> QED
  BY <1>4, <1>5, <1>6 DEF TagInv

(* A sender finds a conf that is not used up, or none. *)
LEMMA GetTag == ASSUME TagInv, NEW s \in Senders, getTraceConf(s) PROVE TagInv'
<1>1. CASE UNCHANGED <<spc, held>>
  <2>1. UNCHANGED <<confs, spc, held, issued>> /\ cur' \in {cur, 0}
    BY <1>1 DEF getTraceConf
  <2>2. TagType'
    BY <2>1 DEF TagInv, TagType
  <2>3. SpentInv' /\ SeqNumBounded'
    BY <2>1 DEF TagInv, SpentInv, Spent, SeqNumBounded
  <2> QED
    BY <2>2, <2>3 DEF TagInv
<1>2. CASE ~UNCHANGED <<spc, held>>
  <2>1. /\ cur \in 1 .. Len(confs) /\ confs[cur].seqNum < confs[cur].count
        /\ held' = [held EXCEPT ![s] = cur] /\ spc' = [spc EXCEPT ![s] = "match"]
        /\ spc[s] = "idle" /\ held[s] = 0 /\ UNCHANGED <<confs, cur, issued>>
    BY <1>2 DEF getTraceConf, TagInv, TagType
  <2>2. TagType'
    BY <2>1 DEF TagInv, TagType
  <2>3. SpentInv'
    BY <2>1 DEF TagInv, TagType, SpentInv, Spent
  <2>4. SeqNumBounded'
    <3> SUFFICES ASSUME NEW c \in 1 .. Len(confs)
                 PROVE  confs[c].seqNum + Cardinality(Holders(c)') <= confs[c].count + Cardinality(Senders)
      BY <2>1 DEF SeqNumBounded, Holders
    <3>1. confs[c].seqNum \in Nat /\ confs[c].count \in Nat
      BY ConfNat DEF TagInv, TagType
    <3>2. Holders(c) \in SUBSET Senders /\ Holders(c)' \in SUBSET Senders
      BY DEF Holders
    <3>3. CASE c = cur
      BY <2>1, <3>1, <3>2, <3>3, HoldersCount
    <3>4. CASE c # cur
      <4>1. Holders(c)' = Holders(c)
        BY <2>1, <3>4 DEF Holders, TagInv, TagType
      <4> QED
        BY <4>1 DEF TagInv, SeqNumBounded, Holders
    <3> QED
      BY <3>3, <3>4
  <2> QED
    BY <2>2, <2>3, <2>4 DEF TagInv
<1> QED
  BY <1>1, <1>2

(* A message that no filter wants. *)
LEMMA RejectTag == ASSUME TagInv, NEW s \in Senders, FilterRejects(s) PROVE TagInv'
<1>1. /\ spc[s] = "match" /\ held' = [held EXCEPT ![s] = 0] /\ spc' = [spc EXCEPT ![s] = "idle"]
      /\ UNCHANGED <<confs, cur, issued>>
  BY DEF FilterRejects
<1>2. TagType'
  BY <1>1 DEF TagInv, TagType
<1>3. SpentInv'
  BY <1>1 DEF TagInv, TagType, SpentInv, Spent
<1>4. SeqNumBounded'
  <2> SUFFICES ASSUME NEW c \in 1 .. Len(confs)
               PROVE  confs[c].seqNum + Cardinality(Holders(c)') <= confs[c].count + Cardinality(Senders)
    BY <1>1 DEF SeqNumBounded, Holders
  <2>1. confs[c].seqNum \in Nat /\ confs[c].count \in Nat
    BY ConfNat DEF TagInv, TagType
  <2>2. Holders(c) \in SUBSET Senders /\ Holders(c)' = Holders(c) \ {s}
    BY <1>1 DEF Holders, TagInv, TagType
  <2>3. Cardinality(Holders(c)') <= Cardinality(Holders(c)) /\ Cardinality(Holders(c)') \in Nat
        /\ Cardinality(Holders(c)) \in Nat /\ Cardinality(Senders) \in Nat
    BY <2>2, HoldersCount, FS_Subset
  <2>4. confs[c].seqNum + Cardinality(Holders(c)) <= confs[c].count + Cardinality(Senders)
    BY DEF TagInv, SeqNumBounded, Holders
  <2> QED
    BY <2>1, <2>3, <2>4
<1> QED
  BY <1>2, <1>3, <1>4 DEF TagInv

(* The ID that a sender makes has the conf's next number. *)
LEMMA MakeTag == ASSUME TagInv, NEW s \in Senders, MakeID(s) PROVE TagInv'
<1> DEFINE c == held[s]
           id == <<c, confs[c].seqNum>>
<1>1. /\ spc[s] = "match" /\ c \in 1 .. Len(confs) /\ confs[c].seqNum \in Nat /\ c \in Nat
      /\ spc' = [spc EXCEPT ![s] = "add"] /\ UNCHANGED <<confs, cur, held>>
      /\ issued[s] \in Seq(Nat \X Nat)
  BY ConfNat DEF MakeID, TagInv, TagType
<1>2. issued' = [issued EXCEPT ![s] = Append(issued[s], id)]
  BY DEF MakeID
<1>3. id \in Nat \X Nat /\ id[1] = c /\ id[2] = confs[c].seqNum
  BY <1>1
<1> HIDE DEF id
<1>4. TagType'
  <2>1. Append(issued[s], id) \in Seq(Nat \X Nat)
    BY <1>1, <1>3
  <2> QED
    BY <1>1, <1>2, <2>1 DEF TagInv, TagType
<1>5. SpentInv'
  <2> SUFFICES ASSUME NEW t \in Senders, NEW i \in 1 .. Len(issued'[t]) PROVE Spent(t, i)'
    BY DEF SpentInv
  <2>1. CASE t # s
    BY <1>1, <1>2, <2>1 DEF TagInv, TagType, SpentInv, Spent
  <2>2. CASE t = s
    <3>1. /\ issued'[t] = Append(issued[s], id) /\ Len(issued'[t]) = Len(issued[s]) + 1
          /\ Len(issued[s]) \in Nat
          /\ \A j \in 1 .. Len(issued[s]) : issued'[t][j] = issued[s][j]
          /\ issued'[t][Len(issued[s]) + 1] = id
      BY <1>1, <1>2, <1>3, <2>2 DEF TagInv, TagType
    <3>2. CASE i \in 1 .. Len(issued[s])
      <4>1. Spent(s, i) /\ i # Len(issued'[t]) /\ issued'[t][i] = issued[s][i]
        BY <3>1, <3>2 DEF TagInv, SpentInv
      <4> QED
        BY <1>1, <2>2, <4>1 DEF Spent
    <3>3. CASE i = Len(issued[s]) + 1
      <4>1. issued'[t][i] = id /\ spc'[t] = "add" /\ held'[t] = c /\ i = Len(issued'[t])
        BY <1>1, <2>2, <3>1, <3>3 DEF TagInv, TagType
      <4> QED
        BY <1>1, <1>3, <4>1 DEF Spent
    <3> QED
      BY <3>1, <3>2, <3>3
  <2> QED
    BY <2>1, <2>2
<1>6. SeqNumBounded'
  BY <1>1 DEF TagInv, SeqNumBounded
<1> QED
  BY <1>4, <1>5, <1>6 DEF TagInv

(* The number is advanced for one holder fewer. *)
LEMMA AddTag == ASSUME TagInv, NEW s \in Senders, AddSeqNum(s) PROVE TagInv'
<1> DEFINE c == held[s]
<1>1. /\ spc[s] = "add" /\ c \in 1 .. Len(confs) /\ confs \in Seq(Conf)
      /\ spc' = [spc EXCEPT ![s] = "idle"] /\ held' = [held EXCEPT ![s] = 0]
      /\ UNCHANGED <<cur, issued>>
  BY DEF AddSeqNum, TagInv, TagType
<1>2. PICK q \in Conf : q = confs[c]
  BY <1>1, ConfNat
<1> DEFINE p == [q EXCEPT !.seqNum = q.seqNum + 1]
<1>3. p \in Conf /\ p.seqNum = q.seqNum + 1 /\ p.count = q.count /\ q.seqNum \in Nat /\ q.count \in Nat
  BY DEF Conf
<1>4. confs' = [confs EXCEPT ![c] = p]
  BY <1>1, <1>2 DEF AddSeqNum
<1> HIDE DEF p
<1>5. /\ confs' \in Seq(Conf) /\ Len(confs') = Len(confs)
      /\ \A x \in 1 .. Len(confs) : confs'[x] = IF x = c THEN p ELSE confs[x]
  BY <1>1, <1>3, <1>4, ExceptSeq
<1>6. TagType'
  BY <1>1, <1>5 DEF TagInv, TagType
<1>7. \A x \in 1 .. Len(confs) :
        /\ confs[x].seqNum \in Nat /\ confs[x].count \in Nat /\ confs'[x].count = confs[x].count
        /\ confs'[x].seqNum = IF x = c THEN confs[x].seqNum + 1 ELSE confs[x].seqNum
  BY <1>1, <1>2, <1>3, <1>5, ConfNat
<1>8. SpentInv'
  <2> SUFFICES ASSUME NEW t \in Senders, NEW i \in 1 .. Len(issued[t]) PROVE Spent(t, i)'
    BY <1>1 DEF SpentInv
  <2>1. Spent(t, i) /\ issued[t][i] \in Nat \X Nat
    BY DEF TagInv, TagType, SpentInv
  <2>2. issued[t][i][2] \in Nat
    BY <2>1
  <2>3. CASE t # s
    <3>1. spc'[t] = spc[t] /\ held'[t] = held[t] /\ issued'[t] = issued[t]
      BY <1>1, <2>3 DEF TagInv, TagType
    <3>2. PICK x \in 1 .. Len(confs) : x = issued[t][i][1]
      BY <2>1 DEF Spent
    <3>3. confs[x].seqNum \in Nat /\ confs'[x].seqNum \in {confs[x].seqNum, confs[x].seqNum + 1}
      BY <1>7
    <3> QED
      BY <1>5, <2>1, <2>2, <3>1, <3>2, <3>3 DEF Spent
  <2>4. CASE t = s
    BY <1>1, <1>5, <1>7, <2>1, <2>2, <2>4 DEF Spent, TagInv, TagType
  <2> QED
    BY <2>3, <2>4
<1>9. SeqNumBounded'
  <2> SUFFICES ASSUME NEW x \in 1 .. Len(confs)
               PROVE  confs'[x].seqNum + Cardinality(Holders(x)') <= confs'[x].count + Cardinality(Senders)
    BY <1>5 DEF SeqNumBounded, Holders
  <2>1. confs[x].seqNum + Cardinality(Holders(x)) <= confs[x].count + Cardinality(Senders)
    BY DEF TagInv, SeqNumBounded, Holders
  <2>2. /\ Holders(x) \in SUBSET Senders /\ Holders(x)' = Holders(x) \ {s}
        /\ s \in Holders(x) <=> x = c
    BY <1>1 DEF Holders, TagInv, TagType
  <2>3. Cardinality(Holders(x)) \in Nat /\ Cardinality(Senders) \in Nat
    BY <2>2, HoldersCount
  <2>4. CASE x = c
    <3>1. Cardinality(Holders(x)') = Cardinality(Holders(x)) - 1
      BY <2>2, <2>4, HoldersStep
    <3> QED
      BY <1>7, <2>1, <2>3, <2>4, <3>1, SMTT(30)
  <2>5. CASE x # c
    <3>1. Holders(x)' = Holders(x)
      BY <2>2, <2>5
    <3> QED
      BY <1>7, <2>1, <2>5, <3>1
  <2> QED
    BY <2>4, <2>5
<1> QED
  BY <1>6, <1>8, <1>9 DEF TagInv

(* Every step preserves what is known of the IDs. *)
LEMMA NextTag == TagInv /\ [Next]_vars => TagInv'
<1> SUFFICES ASSUME TagInv, [Next]_vars PROVE TagInv'
  OBVIOUS
<1>1. ASSUME NEW n \in Counts, TraceMsgByName(n) PROVE TagInv'
  BY <1>1, TraceMsgTag
<1>2. CASE UnTraceMsgAll
  BY <1>2, SMTT(30) DEF UnTraceMsgAll, TagInv, TagType, SpentInv, Spent, SeqNumBounded
<1>3. ASSUME NEW s \in Senders, getTraceConf(s) \/ FilterRejects(s) \/ MakeID(s) \/ AddSeqNum(s) PROVE TagInv'
  BY <1>3, GetTag, RejectTag, MakeTag, AddTag
<1>4. ASSUME NEW s \in Senders, RemoteHop(s) \/ traceMsg(s) PROVE UNCHANGED tagVars
  BY <1>4 DEF RemoteHop, traceMsg, Arrive
<1>5. CASE HelperDelivers \/ HelperRuns
  <2>1. UNCHANGED tagVars
    BY <1>5 DEF HelperDelivers, HelperRuns, Arrive
  <2> QED
    BY <2>1, TagFrame
<1>6. ASSUME NEW r \in DOMAIN token, Lookup(r) \/ AppendRecord(r) \/ MoveToFront(r) \/ CreateSession(r)
      PROVE  UNCHANGED tagVars
  BY <1>6 DEF Lookup, AppendRecord, MoveToFront, CreateSession, PushSession
<1>7. ASSUME NEW d \in Readers, TakeToken(d) \/ TakeAll(d) \/ ReadSession(d) \/ Reply(d)
      PROVE  UNCHANGED tagVars
  BY <1>7 DEF TakeToken, TakeAll, ReadSession, Reply
<1>8. CASE UNCHANGED vars
  BY <1>8, TagFrame DEF vars
<1> QED
  BY <1>1, <1>2, <1>3, <1>4, <1>5, <1>6, <1>7, <1>8, TagFrame DEF Next

(* Initially nothing is traced. *)
LEMMA InitTag == Init => TagInv
<1> SUFFICES ASSUME Init PROVE TagInv
  OBVIOUS
<1>1. confs \in Seq(Conf) /\ Len(confs) = 0
  BY DEF Init
<1>2. issued \in [Senders -> Seq(Nat \X Nat)] /\ \A s \in Senders : Len(issued[s]) = 0
  BY DEF Init
<1>3. TagType
  BY <1>1, <1>2 DEF Init, TagType
<1>4. SpentInv /\ SeqNumBounded
  BY <1>1, <1>2 DEF SpentInv, SeqNumBounded
<1> QED
  BY <1>3, <1>4 DEF TagInv

(* The IDs and numbers of every reachable state. *)
LEMMA SpecTag == Spec => []TagInv
  BY InitTag, NextTag, PTL DEF Spec

(* No traceConf numbers more messages than were asked for, but for one per
   sender that was under way in getTracingID: for any number of senders and
   of calls of TraceMsgBy* (messagetracing.go, getTracingID).               *)
THEOREM SpecSeqNumBounded == Spec => []SeqNumBounded
<1>1. TagInv => SeqNumBounded
  BY DEF TagInv
<1> QED
  BY <1>1, SpecTag, PTL

(* An ID that getTracingID has returned is never given again: the number was
   advanced before it returned, and only another sender that read it earlier
   can hold the same one.                                                   *)
LEMMA UniqueStep ==
    ASSUME TagInv, [Next]_vars, NEW s \in Senders, NEW t \in Senders, NEW i \in DOMAIN issued[t],
           issued'[s] # issued[s], issued[t][i] = Last(issued'[s])
    PROVE  s # t /\ i = Len(issued[t]) /\ spc[t] = "add"
<1>1. MakeID(s)
  <2>1. ASSUME NEW u \in Senders, MakeID(u) PROVE u = s
    BY <2>1 DEF MakeID, TagInv, TagType
  <2>2. ASSUME UNCHANGED issued PROVE FALSE
    BY <2>2
  <2>3. ASSUME UNCHANGED tagVars PROVE FALSE
    BY <2>2, <2>3 DEF tagVars
  <2>4. ASSUME NEW n \in Counts, TraceMsgByName(n) PROVE FALSE
    BY <2>2, <2>4 DEF TraceMsgByName
  <2>5. CASE UnTraceMsgAll
    BY <2>2, <2>5 DEF UnTraceMsgAll
  <2>6. ASSUME NEW u \in Senders, getTraceConf(u) \/ FilterRejects(u) \/ AddSeqNum(u) PROVE FALSE
    BY <2>2, <2>6 DEF getTraceConf, FilterRejects, AddSeqNum
  <2>7. ASSUME NEW u \in Senders, RemoteHop(u) \/ traceMsg(u) PROVE FALSE
    BY <2>3, <2>7 DEF RemoteHop, traceMsg, Arrive
  <2>8. CASE HelperDelivers \/ HelperRuns
    BY <2>3, <2>8 DEF HelperDelivers, HelperRuns, Arrive
  <2>9. ASSUME NEW r \in DOMAIN token, Lookup(r) \/ AppendRecord(r) \/ MoveToFront(r) \/ CreateSession(r)
        PROVE  FALSE
    BY <2>3, <2>9 DEF Lookup, AppendRecord, MoveToFront, CreateSession, PushSession
  <2>10. ASSUME NEW d \in Readers, TakeToken(d) \/ TakeAll(d) \/ ReadSession(d) \/ Reply(d) PROVE FALSE
    BY <2>3, <2>10 DEF TakeToken, TakeAll, ReadSession, Reply
  <2>11. CASE UNCHANGED vars
    BY <2>3, <2>11 DEF vars
  <2> QED
    BY <2>1, <2>4, <2>5, <2>6, <2>7, <2>8, <2>9, <2>10, <2>11 DEF Next
<1> DEFINE id == <<held[s], confs[held[s]].seqNum>>
<1>2. /\ issued[s] \in Seq(Nat \X Nat) /\ issued[t] \in Seq(Nat \X Nat) /\ spc[s] = "match"
      /\ id \in Nat \X Nat /\ id[1] = held[s] /\ id[2] = confs[held[s]].seqNum
      /\ confs[held[s]].seqNum \in Nat
  BY <1>1, ConfNat DEF MakeID, TagInv, TagType
<1>3. issued'[s] = Append(issued[s], id)
  BY <1>1 DEF MakeID, TagInv, TagType
<1> HIDE DEF id
<1>4. Last(issued'[s]) = id
  BY <1>2, <1>3 DEF Last
<1>5. Spent(t, i) /\ issued[t][i] = id /\ i \in 1 .. Len(issued[t])
  BY <1>2, <1>4 DEF TagInv, SpentInv
<1>6. i = Len(issued[t]) /\ spc[t] = "add"
  BY <1>2, <1>5 DEF Spent
<1> QED
  BY <1>2, <1>6

(* messagetracing.go:50: an ID is never given again once the getTracingID that
   made it has returned, for any number of senders.                         *)
THEOREM SpecTokensUnique == Spec => TokensUnique
<1> DEFINE A == \A s, t \in Senders : \A i \in DOMAIN issued[t] :
                   issued'[s] # issued[s] /\ issued[t][i] = Last(issued'[s])
                     => s # t /\ i = Len(issued[t]) /\ spc[t] = "add"
<1>1. TagInv /\ [Next]_vars => A
  BY UniqueStep
<1>2. TagInv /\ [Next]_vars => [A]_vars
  BY <1>1
<1> QED
  BY <1>2, SpecTag, PTL DEF Spec, TokensUnique

-----------------------------------------------------------------------------
(* Lists without duplicates.                                               *)

(* A nonempty set of positions has a least one. *)
LEMMA MinIn ==
    ASSUME NEW S \in SUBSET Nat, S # {}
    PROVE  Min(S) \in S
<1>1. PICK x \in S : \A y \in S : ~(<<y, x>> \in OpToRel(<, Nat))
  BY WFMin, NatLessThanWellFounded
<1>2. \A y \in S : ~(y < x)
  BY <1>1 DEF OpToRel
<1>3. \A y \in S : x <= y
  BY <1>2
<1> QED
  BY <1>3 DEF Min

(* What a list has at one of its positions it contains. *)
LEMMA ListElements ==
    ASSUME NEW q \in Seq(Nat)
    PROVE  /\ \A e : Contains(q, e) <=> e \in ToSet(q)
           /\ \A e : e \in ToSet(q) <=> \E i \in 1 .. Len(q) : q[i] = e
           /\ IsInjective(q) <=> \A i, j \in 1 .. Len(q) : q[i] = q[j] => i = j
  BY DEF Contains, ToSet, IsInjective

(* RemoveAt leaves out one position. *)
LEMMA RemoveAtOf ==
    ASSUME NEW S, NEW q \in Seq(S), NEW i \in 1 .. Len(q)
    PROVE  /\ RemoveAt(q, i) \in Seq(S) /\ Len(RemoveAt(q, i)) = Len(q) - 1
           /\ \A j \in 1 .. Len(q) - 1 : RemoveAt(q, i)[j] = IF j < i THEN q[j] ELSE q[j + 1]
<1>1. i - 1 \in 0 .. Len(q) /\ i + 1 \in 1 .. Len(q) + 1 /\ Len(q) \in Nat
  OBVIOUS
<1> DEFINE a == SubSeq(q, 1, i - 1)
           b == SubSeq(q, i + 1, Len(q))
           r == a \o b
<1>2. a \in Seq(S) /\ Len(a) = i - 1 /\ \A j \in 1 .. i - 1 : a[j] = q[j]
  BY <1>1, SubSeqProperties
<1>3. b \in Seq(S) /\ Len(b) = Len(q) - i /\ \A j \in 1 .. Len(q) - i : b[j] = q[j + i]
  BY <1>1, SubSeqProperties
<1>4. RemoveAt(q, i) = r
  BY DEF RemoveAt
<1> HIDE DEF a, b
<1>5. /\ r \in Seq(S) /\ Len(r) = Len(a) + Len(b)
      /\ \A j \in 1 .. Len(a) + Len(b) : r[j] = IF j <= Len(a) THEN a[j] ELSE b[j - Len(a)]
  BY <1>2, <1>3, ConcatProperties
<1> HIDE DEF r
<1>6. Len(r) = Len(q) - 1
  BY <1>1, <1>2, <1>3, <1>5
<1>7. ASSUME NEW j \in 1 .. Len(q) - 1 PROVE r[j] = IF j < i THEN q[j] ELSE q[j + 1]
  <2>0. r[j] = IF j <= i - 1 THEN a[j] ELSE b[j - (i - 1)]
    <3>1. Len(a) + Len(b) = Len(q) - 1 /\ Len(a) = i - 1
      BY <1>1, <1>2, <1>3
    <3> QED
      BY <1>5, <3>1
  <2>1. CASE j < i
    <3>1. j \in 1 .. i - 1
      BY <1>1, <2>1
    <3> QED
      BY <1>2, <2>0, <2>1, <3>1
  <2>2. CASE ~(j < i)
    <3>1. r[j] = b[j - (i - 1)] /\ j - (i - 1) \in 1 .. Len(q) - i /\ j - (i - 1) + i = j + 1
      BY <1>1, <2>0, <2>2
    <3> QED
      BY <1>3, <2>2, <3>1
  <2> QED
    BY <2>1, <2>2
<1> QED
  BY <1>4, <1>5, <1>6, <1>7

(* list.Remove *)
LEMMA RemoveFirstOf ==
    ASSUME NEW q \in Seq(Nat), IsInjective(q), NEW e \in ToSet(q)
    PROVE  LET r == RemoveFirst(q, e)
           IN  /\ r \in Seq(Nat) /\ IsInjective(r) /\ Len(r) = Len(q) - 1
               /\ ToSet(r) = ToSet(q) \ {e}
<1> DEFINE I == {i \in 1 .. Len(q) : q[i] = e}
           i == Min(I)
           r == RemoveAt(q, i)
<1>1. I # {} /\ I \in SUBSET Nat
  BY ListElements
<1>2. i \in 1 .. Len(q) /\ q[i] = e /\ Len(q) \in Nat
  <2>1. i \in I
    BY <1>1, MinIn
  <2> QED
    BY <2>1
<1>3. RemoveFirst(q, e) = r
  BY <1>1 DEF RemoveFirst, SelectInSeq
<1> HIDE DEF i
<1>4. /\ r \in Seq(Nat) /\ Len(r) = Len(q) - 1
      /\ \A j \in 1 .. Len(q) - 1 : r[j] = IF j < i THEN q[j] ELSE q[j + 1]
  BY <1>2, RemoveAtOf
<1> HIDE DEF r
<1>5. \A j, k \in 1 .. Len(q) : q[j] = q[k] => j = k
  BY ListElements
<1>6. IsInjective(r)
  <2> DEFINE f(n) == IF n < i THEN n ELSE n + 1
  <2>1. ASSUME NEW n \in 1 .. Len(r) PROVE f(n) \in 1 .. Len(q) /\ r[n] = q[f(n)]
    <3>1. n \in 1 .. Len(q) - 1
      BY <1>4
    <3>2. f(n) \in 1 .. Len(q)
      BY <1>2, <3>1
    <3>3. r[n] = IF n < i THEN q[n] ELSE q[n + 1]
      BY <1>4, <3>1
    <3> QED
      BY <3>2, <3>3
  <2>2. \A m, n \in 1 .. Len(r) : f(m) = f(n) => m = n
    BY <1>2, <1>4
  <2>3. ASSUME NEW j \in 1 .. Len(r), NEW k \in 1 .. Len(r), r[j] = r[k] PROVE j = k
    <3>1. f(j) = f(k)
      BY <1>5, <2>1, <2>3
    <3> QED
      BY <2>2, <3>1
  <2> QED
    BY <1>4, <2>3, ListElements
<1>7. ToSet(r) = ToSet(q) \ {e}
  <2>1. ASSUME NEW x \in ToSet(r) PROVE x \in ToSet(q) /\ x # e
    <3>1. PICK j \in 1 .. Len(r) : r[j] = x
      BY <1>4, ListElements
    <3>2. PICK k \in 1 .. Len(q) : q[k] = x /\ k # i
      <4>1. j \in 1 .. Len(q) /\ j + 1 \in 1 .. Len(q) /\ r[j] = IF j < i THEN q[j] ELSE q[j + 1]
        BY <1>2, <1>4
      <4>2. CASE j < i
        BY <1>2, <3>1, <4>1, <4>2
      <4>3. CASE ~(j < i)
        BY <1>2, <3>1, <4>1, <4>3
      <4> QED
        BY <4>2, <4>3
    <3> QED
      BY <1>2, <1>5, <3>2, ListElements
  <2>2. ASSUME NEW x \in ToSet(q), x # e PROVE x \in ToSet(r)
    <3>1. PICK k \in 1 .. Len(q) : q[k] = x
      BY ListElements
    <3>2. k # i
      BY <1>2, <2>2, <3>1
    <3>3. CASE k < i
      <4>1. k \in 1 .. Len(r) /\ r[k] = x
        BY <1>2, <1>4, <3>1, <3>3
      <4> QED
        BY <1>4, <4>1, ListElements
    <3>4. CASE k > i
      <4>1. k - 1 \in 1 .. Len(r) /\ r[k - 1] = x
        BY <1>2, <1>4, <3>1, <3>4
      <4> QED
        BY <1>4, <4>1, ListElements
    <3> QED
      BY <1>2, <3>2, <3>3, <3>4
  <2> QED
    BY <2>1, <2>2
<1> QED
  BY <1>3, <1>4, <1>6, <1>7

(* list.PushFront *)
LEMMA PushFrontOf ==
    ASSUME NEW q \in Seq(Nat), IsInjective(q), NEW e \in Nat, e \notin ToSet(q)
    PROVE  LET r == <<e>> \o q
           IN  /\ r \in Seq(Nat) /\ IsInjective(r) /\ Len(r) = Len(q) + 1
               /\ ToSet(r) = ToSet(q) \cup {e}
<1> DEFINE a == <<e>>
           r == a \o q
<1>1. a \in Seq(Nat) /\ Len(a) = 1 /\ a[1] = e
  OBVIOUS
<1> HIDE DEF a
<1>2. /\ r \in Seq(Nat) /\ Len(r) = Len(q) + 1 /\ Len(q) \in Nat
      /\ \A j \in 1 .. Len(q) + 1 : r[j] = IF j = 1 THEN e ELSE q[j - 1]
  <2>1. /\ r \in Seq(Nat) /\ Len(r) = Len(a) + Len(q) /\ Len(q) \in Nat
        /\ \A j \in 1 .. Len(a) + Len(q) : r[j] = IF j <= Len(a) THEN a[j] ELSE q[j - Len(a)]
    <3>1. Len(q) \in Nat
      OBVIOUS
    <3> QED
      BY <1>1, <3>1, ConcatProperties
  <2> HIDE DEF r
  <2> QED
    BY <1>1, <2>1
<1> HIDE DEF r
<1>3. /\ \A j, k \in 1 .. Len(q) : q[j] = q[k] => j = k
      /\ \A j \in 1 .. Len(q) : q[j] # e
  BY ListElements
<1>4. IsInjective(r)
  <2>1. ASSUME NEW j \in 1 .. Len(r), NEW k \in 1 .. Len(r), r[j] = r[k] PROVE j = k
    <3>1. CASE j = 1 \/ k = 1
      <4>1. \A n \in 1 .. Len(r) : n # 1 => n - 1 \in 1 .. Len(q) /\ r[n] = q[n - 1]
        BY <1>2
      <4>2. r[1] = e
        BY <1>2
      <4>3. \A n \in 1 .. Len(r) : n # 1 => r[n] # e
        BY <1>3, <4>1
      <4> QED
        BY <2>1, <3>1, <4>2, <4>3
    <3>2. CASE j # 1 /\ k # 1
      <4>1. j - 1 \in 1 .. Len(q) /\ k - 1 \in 1 .. Len(q) /\ q[j - 1] = q[k - 1]
        BY <1>2, <2>1, <3>2, SMTT(30)
      <4>2. j - 1 = k - 1
        BY <1>3, <4>1
      <4> QED
        BY <4>2
    <3> QED
      BY <3>1, <3>2
  <2> QED
    BY <1>2, <2>1, ListElements
<1>5. ToSet(r) = ToSet(q) \cup {e}
  <2>1. ASSUME NEW x \in ToSet(r) PROVE x \in ToSet(q) \/ x = e
    <3>1. PICK j \in 1 .. Len(r) : r[j] = x
      BY <1>2, ListElements
    <3>2. j = 1 \/ j - 1 \in 1 .. Len(q)
      BY <1>2
    <3> QED
      BY <1>2, <3>1, <3>2, ListElements
  <2>2. ASSUME NEW x \in ToSet(q) PROVE x \in ToSet(r)
    <3>1. PICK k \in 1 .. Len(q) : q[k] = x
      BY ListElements
    <3>2. k + 1 \in 1 .. Len(r) /\ r[k + 1] = x
      BY <1>2, <3>1
    <3> QED
      BY <1>2, <3>2, ListElements
  <2>3. e \in ToSet(r)
    <3>1. 1 \in 1 .. Len(r) /\ r[1] = e
      BY <1>2
    <3> QED
      BY <1>2, <3>1, ListElements
  <2> QED
    BY <2>1, <2>2, <2>3
<1> QED
  BY <1>2, <1>4, <1>5 DEF r, a

(* What is left when the oldest element of a list is evicted. *)
LEMMA FrontOf ==
    ASSUME NEW q \in Seq(Nat), IsInjective(q), Len(q) > 0
    PROVE  /\ Front(q) \in Seq(Nat) /\ IsInjective(Front(q)) /\ Len(Front(q)) = Len(q) - 1
           /\ ToSet(Front(q)) = ToSet(q) \ {Last(q)} /\ Last(q) \in ToSet(q)
<1> DEFINE r == Front(q)
<1>1. /\ r \in Seq(Nat) /\ Len(r) = Len(q) - 1 /\ Len(q) \in Nat
      /\ \A j \in 1 .. Len(q) - 1 : r[j] = q[j]
  <2>1. PICK n \in Nat : n = Len(q) - 1 /\ Len(q) = n + 1
    OBVIOUS
  <2>2. \A j \in 1 .. n : q[j] \in Nat
    BY <2>1
  <2>3. /\ SubSeq(q, 1, n) \in Seq(Nat) /\ Len(SubSeq(q, 1, n)) = n
        /\ \A j \in 1 .. n : SubSeq(q, 1, n)[j] = q[j]
    BY <2>2, SubSeqProperties
  <2> QED
    BY <2>1, <2>3 DEF Front
<1>2. Last(q) = q[Len(q)] /\ Len(q) \in 1 .. Len(q)
  BY <1>1 DEF Last
<1> HIDE DEF r
<1>3. \A j, k \in 1 .. Len(q) : q[j] = q[k] => j = k
  BY ListElements
<1>4. IsInjective(r)
  <2>1. ASSUME NEW j \in 1 .. Len(r), NEW k \in 1 .. Len(r), r[j] = r[k] PROVE j = k
    <3>1. j \in 1 .. Len(q) - 1 /\ k \in 1 .. Len(q) - 1
      BY <1>1
    <3>2. j \in 1 .. Len(q) /\ k \in 1 .. Len(q)
      BY <1>1, <3>1
    <3>3. r[j] = q[j] /\ r[k] = q[k]
      BY <1>1, <3>1
    <3> QED
      BY <1>3, <2>1, <3>2, <3>3
  <2> QED
    BY <1>1, <2>1, ListElements
<1>5. Last(q) \in ToSet(q)
  BY <1>2, ListElements
<1>6. ToSet(r) = ToSet(q) \ {Last(q)}
  <2>1. ASSUME NEW x \in ToSet(r) PROVE x \in ToSet(q) /\ x # Last(q)
    <3>1. PICK j \in 1 .. Len(r) : r[j] = x
      BY <1>1, ListElements
    <3>2. j \in 1 .. Len(q) /\ q[j] = x /\ j # Len(q)
      BY <1>1, <3>1
    <3> QED
      BY <1>2, <1>3, <3>2, ListElements
  <2>2. ASSUME NEW x \in ToSet(q), x # Last(q) PROVE x \in ToSet(r)
    <3>1. PICK k \in 1 .. Len(q) : q[k] = x
      BY ListElements
    <3>2. k \in 1 .. Len(r) /\ r[k] = x
      BY <1>1, <1>2, <2>2, <3>1
    <3> QED
      BY <1>1, <3>2, ListElements
  <2> QED
    BY <2>1, <2>2
<1> QED
  BY <1>1, <1>4, <1>5, <1>6 DEF r

-----------------------------------------------------------------------------
(* Records on their way to the service.                                    *)

(* Only IDs that were handed out are recorded. *)
LEMMA KnownIDs == ASSUME TagInv, NEW s \in Senders PROVE Known(s) \subseteq Nat \X Nat
<1>1. issued[s] \in Seq(Nat \X Nat)
  BY DEF TagInv, TagType
<1>2. \A i \in DOMAIN issued[s] : issued[s][i] \in Nat \X Nat
  BY <1>1
<1> QED
  BY <1>2 DEF Known

(* Every step of senders and helper keeps the helper's records known. *)
LEMMA NextHelper == TagInv /\ HelperInv /\ [Next]_vars => HelperInv'
<1> SUFFICES ASSUME TagInv, HelperInv, [Next]_vars PROVE HelperInv'
  OBVIOUS
<1>0. ASSUME UNCHANGED hopVars PROVE HelperInv'
  BY <1>0 DEF HelperInv, hopVars, helperVars, traceVars, runVars
<1>1. ASSUME NEW n \in Counts, TraceMsgByName(n) PROVE UNCHANGED hopVars
  BY <1>1 DEF TraceMsgByName
<1>2. CASE UnTraceMsgAll
  BY <1>0, <1>2 DEF UnTraceMsgAll
<1>3. ASSUME NEW s \in Senders, getTraceConf(s) \/ FilterRejects(s) \/ MakeID(s) \/ AddSeqNum(s)
      PROVE  UNCHANGED hopVars
  BY <1>3 DEF getTraceConf, FilterRejects, MakeID, AddSeqNum
<1>4. ASSUME NEW s \in Senders, RemoteHop(s) PROVE UNCHANGED hopVars
  BY <1>4 DEF RemoteHop
<1>5. ASSUME NEW s \in Senders, traceMsg(s) PROVE HelperInv'
  <2>1. PICK id \in Nat \X Nat : traced' = Append(traced, id)
    BY <1>5, KnownIDs DEF traceMsg
  <2>2. traced' \in Seq(Nat \X Nat) /\ Len(traced') = Len(traced) + 1 /\ Len(traced) \in Nat
    BY <2>1 DEF HelperInv
  <2>3. /\ tested' \subseteq tested \cup {Len(traced')}
        /\ at' = (IF at = "off" THEN "discover" ELSE at)
        /\ UNCHANGED <<tracedMsgChan, undelivered>>
    BY <1>5 DEF traceMsg, TraceTest, runVars
  <2>4. 1 .. Len(traced) \subseteq 1 .. Len(traced') /\ Len(traced') \in 1 .. Len(traced')
    BY <2>2
  <2>5. tested' \subseteq 1 .. Len(traced') /\ undelivered' \in 0 .. Len(traced')
    <3>1. tested \subseteq 1 .. Len(traced) /\ undelivered \in 0 .. Len(traced)
      BY DEF HelperInv
    <3>2. tested' \subseteq 1 .. Len(traced')
      BY <2>3, <2>4, <3>1
    <3> QED
      BY <2>2, <2>3, <3>1, <3>2
  <2> QED
    BY <2>2, <2>3, <2>4, <2>5 DEF HelperInv
<1>6. CASE HelperDelivers
  BY <1>6 DEF HelperDelivers, Deliver, HelperInv, traceVars
<1>7. CASE HelperRuns
  <2>1. UNCHANGED traced
    BY <1>7 DEF HelperRuns
  <2>2. CASE RunConnects \/ RunFindsNone \/ DeliverFails \/ Stop \/ Break
    <3>1. UNCHANGED <<tested, tracedMsgChan, undelivered>> /\ (at' = "deliver" => undelivered # 0)
      BY <2>2 DEF RunConnects, RunFindsNone, DeliverFails, Stop, Break, Fail, HelperInv, traceVars
    <3> QED
      BY <2>1, <3>1 DEF HelperInv
  <2>3. CASE RunRecv
    <3>1. /\ tracedMsgChan # <<>> /\ undelivered' = Head(tracedMsgChan)
          /\ tracedMsgChan' = Tail(tracedMsgChan) /\ UNCHANGED tested
      BY <2>3 DEF RunRecv
    <3>2. /\ Len(tracedMsgChan) \in Nat /\ Len(tracedMsgChan) > 0
          /\ tracedMsgChan' \in Seq(Nat) /\ Len(tracedMsgChan') = Len(tracedMsgChan) - 1
          /\ \A i \in 1 .. Len(tracedMsgChan') : tracedMsgChan'[i] = tracedMsgChan[i + 1]
          /\ undelivered' = tracedMsgChan[1]
      BY <3>1 DEF HelperInv
    <3>3. undelivered' \in 1 .. Len(traced)
      BY <3>2 DEF HelperInv
    <3>4. \A i \in 1 .. Len(tracedMsgChan') : tracedMsgChan'[i] \in 1 .. Len(traced)
      <4>1. \A i \in 1 .. Len(tracedMsgChan') : i + 1 \in 1 .. Len(tracedMsgChan)
        BY <3>2
      <4> QED
        BY <3>2, <4>1 DEF HelperInv
    <3> QED
      BY <2>1, <3>1, <3>2, <3>3, <3>4 DEF HelperInv
  <2>4. ASSUME NEW m \in tested, TraceSend(m) PROVE HelperInv'
    <3>1. /\ m \in 1 .. Len(traced) /\ m \in Nat /\ tested' \subseteq tested
          /\ UNCHANGED <<undelivered, at>> /\ tracedMsgChan' \in {tracedMsgChan, Append(tracedMsgChan, m)}
      BY <2>4 DEF TraceSend, HelperInv, runVars
    <3>2. /\ tracedMsgChan' \in Seq(Nat)
          /\ \A i \in 1 .. Len(tracedMsgChan') : tracedMsgChan'[i] \in 1 .. Len(traced)
      <4>1. CASE tracedMsgChan' = tracedMsgChan
        BY <4>1 DEF HelperInv
      <4>2. CASE tracedMsgChan' = Append(tracedMsgChan, m)
        <5>1. /\ tracedMsgChan' \in Seq(Nat) /\ Len(tracedMsgChan') = Len(tracedMsgChan) + 1
              /\ Len(tracedMsgChan) \in Nat /\ tracedMsgChan'[Len(tracedMsgChan) + 1] = m
              /\ \A i \in 1 .. Len(tracedMsgChan) : tracedMsgChan'[i] = tracedMsgChan[i]
          BY <3>1, <4>2 DEF HelperInv
        <5>2. \A i \in 1 .. Len(tracedMsgChan') : i \in 1 .. Len(tracedMsgChan) \/ i = Len(tracedMsgChan) + 1
          BY <5>1
        <5> QED
          BY <3>1, <5>1, <5>2 DEF HelperInv
      <4> QED
        BY <3>1, <4>1, <4>2
    <3> QED
      BY <2>1, <3>1, <3>2 DEF HelperInv
  <2> QED
    BY <1>7, <2>2, <2>3, <2>4 DEF HelperRuns
<1>8. ASSUME NEW r \in DOMAIN token, Lookup(r) \/ AppendRecord(r) \/ MoveToFront(r) \/ CreateSession(r)
      PROVE  UNCHANGED hopVars
  BY <1>8 DEF Lookup, AppendRecord, MoveToFront, CreateSession, PushSession
<1>9. ASSUME NEW d \in Readers, TakeToken(d) \/ TakeAll(d) \/ ReadSession(d) \/ Reply(d)
      PROVE  UNCHANGED hopVars
  BY <1>9 DEF TakeToken, TakeAll, ReadSession, Reply
<1>10. CASE UNCHANGED vars
  BY <1>0, <1>10 DEF vars
<1> QED
  BY <1>0, <1>1, <1>2, <1>3, <1>4, <1>5, <1>6, <1>7, <1>8, <1>9, <1>10 DEF Next

-----------------------------------------------------------------------------
(* The helper's deliveries.                                                *)

(* The order of the accepted records, of which a sequence is to be a part.  *)
OrderedBy(f, a) ==
    \A i, j \in DOMAIN f : i < j => \E k, l \in DOMAIN a : k < l /\ a[k] = f[i] /\ a[l] = f[j]
FlowOf(a, u, c) == a \o (IF u = 0 THEN <<>> ELSE <<u>>) \o c

(* What a flow consists of, place by place. *)
LEMMA FlowPlaces ==
  ASSUME NEW a \in Seq(Nat), NEW u \in Nat \ {0}, NEW c \in Seq(Nat)
  PROVE  /\ FlowOf(a, u, c) \in Seq(Nat) /\ Len(FlowOf(a, u, c)) = Len(a) + 1 + Len(c)
         /\ \A i \in 1 .. Len(a) : FlowOf(a, u, c)[i] = a[i]
         /\ FlowOf(a, u, c)[Len(a) + 1] = u
         /\ \A i \in 1 .. Len(c) : FlowOf(a, u, c)[Len(a) + 1 + i] = c[i]
         /\ FlowOf(a, 0, c) \in Seq(Nat) /\ Len(FlowOf(a, 0, c)) = Len(a) + Len(c)
         /\ \A i \in 1 .. Len(a) : FlowOf(a, 0, c)[i] = a[i]
         /\ \A i \in 1 .. Len(c) : FlowOf(a, 0, c)[Len(a) + i] = c[i]
<1>0. /\ Len(a) \in Nat /\ Len(c) \in Nat
      /\ <<u>> \in Seq(Nat) /\ Len(<<u>>) = 1 /\ <<u>>[1] = u
  OBVIOUS
<1>1. FlowOf(a, u, c) = (a \o <<u>>) \o c /\ FlowOf(a, 0, c) = a \o c
  <2>1. a \o <<>> = a
    BY ConcatEmptySeq
  <2> QED
    BY <2>1 DEF FlowOf
<1>2. /\ a \o <<u>> \in Seq(Nat) /\ Len(a \o <<u>>) = Len(a) + 1
      /\ \A i \in 1 .. Len(a) : (a \o <<u>>)[i] = a[i]
      /\ (a \o <<u>>)[Len(a) + 1] = u
  BY <1>0, ConcatProperties
<1>3. /\ FlowOf(a, 0, c) \in Seq(Nat) /\ Len(FlowOf(a, 0, c)) = Len(a) + Len(c)
      /\ \A i \in 1 .. Len(a) : FlowOf(a, 0, c)[i] = a[i]
      /\ \A i \in 1 .. Len(c) : FlowOf(a, 0, c)[Len(a) + i] = c[i]
  <2>1. \A i \in 1 .. Len(a) : i \in 1 .. Len(a) + Len(c) /\ i <= Len(a)
    BY <1>0
  <2>2. \A i \in 1 .. Len(c) : /\ Len(a) + i \in 1 .. Len(a) + Len(c) /\ ~(Len(a) + i <= Len(a))
                               /\ Len(a) + i - Len(a) = i
    BY <1>0
  <2>3. /\ a \o c \in Seq(Nat) /\ Len(a \o c) = Len(a) + Len(c)
        /\ \A i \in 1 .. Len(a) + Len(c) : (a \o c)[i] = IF i <= Len(a) THEN a[i] ELSE c[i - Len(a)]
    BY ConcatProperties
  <2> DEFINE g == a \o c
  <2>4. FlowOf(a, 0, c) = g
    BY <1>1
  <2> HIDE DEF g
  <2>5. /\ g \in Seq(Nat) /\ Len(g) = Len(a) + Len(c)
        /\ \A i \in 1 .. Len(a) + Len(c) : g[i] = IF i <= Len(a) THEN a[i] ELSE c[i - Len(a)]
    BY <2>3 DEF g
  <2>6. \A i \in 1 .. Len(a) : g[i] = a[i]
    BY <2>1, <2>5
  <2>7. \A i \in 1 .. Len(c) : g[Len(a) + i] = c[i]
    <3> SUFFICES ASSUME NEW i \in 1 .. Len(c) PROVE g[Len(a) + i] = c[i]
      OBVIOUS
    <3>1. g[Len(a) + i] = c[Len(a) + i - Len(a)] /\ Len(a) + i - Len(a) = i
      BY <2>2, <2>5
    <3> QED
      BY <3>1
  <2> QED
    BY <2>4, <2>5, <2>6, <2>7
<1>4. /\ FlowOf(a, u, c) \in Seq(Nat) /\ Len(FlowOf(a, u, c)) = Len(a) + 1 + Len(c)
      /\ \A i \in 1 .. Len(a) + 1 : FlowOf(a, u, c)[i] = (a \o <<u>>)[i]
      /\ \A i \in 1 .. Len(c) : FlowOf(a, u, c)[Len(a) + 1 + i] = c[i]
  <2>1. \A i \in 1 .. Len(a) + 1 : i \in 1 .. (Len(a) + 1) + Len(c) /\ i <= Len(a) + 1
    BY <1>0
  <2>2. \A i \in 1 .. Len(c) : /\ Len(a) + 1 + i \in 1 .. (Len(a) + 1) + Len(c) /\ ~(Len(a) + 1 + i <= Len(a) + 1)
                               /\ Len(a) + 1 + i - (Len(a) + 1) = i
    BY <1>0
  <2> QED
    BY <1>1, <1>2, <2>1, <2>2, ConcatProperties
<1>5. \A i \in 1 .. Len(a) : i \in 1 .. Len(a) + 1
  BY <1>0
<1>6. Len(a) + 1 \in 1 .. Len(a) + 1
  BY <1>0
<1> QED
  BY <1>2, <1>3, <1>4, <1>5, <1>6

(* A record received from the buffer, or delivered, stays in its place. *)
LEMMA FlowMoves ==
  ASSUME NEW a \in Seq(Nat), NEW c \in Seq(Nat), NEW u \in Nat \ {0}
  PROVE  /\ FlowOf(Append(a, u), 0, c) = FlowOf(a, u, c)
         /\ c # <<>> /\ Head(c) # 0 => FlowOf(a, Head(c), Tail(c)) = FlowOf(a, 0, c)
<1>1. FlowOf(Append(a, u), 0, c) = FlowOf(a, u, c)
  <2>1. Append(a, u) = a \o <<u>> /\ Append(a, u) \in Seq(Nat)
    BY AppendIsConcat, AppendProperties
  <2>2. Append(a, u) \o <<>> = Append(a, u)
    BY <2>1, ConcatEmptySeq
  <2> QED
    BY <2>1, <2>2 DEF FlowOf
<1>2. ASSUME c # <<>>, Head(c) # 0 PROVE FlowOf(a, Head(c), Tail(c)) = FlowOf(a, 0, c)
  <2> DEFINE x == Head(c)
             t == Tail(c)
             f == FlowOf(a, x, t)
             g == FlowOf(a, 0, c)
  <2>1. /\ x \in Nat \ {0} /\ t \in Seq(Nat) /\ Len(t) = Len(c) - 1 /\ Len(c) \in Nat /\ Len(a) \in Nat
        /\ \A i \in 1 .. Len(t) : t[i] = c[i + 1]
        /\ x = c[1] /\ Len(c) >= 1
    BY <1>2, HeadTailProperties, EmptySeq
  <2> HIDE DEF x, t
  <2>2. /\ f \in Seq(Nat) /\ Len(f) = Len(a) + 1 + Len(t)
        /\ \A i \in 1 .. Len(a) : f[i] = a[i]
        /\ f[Len(a) + 1] = x
        /\ \A i \in 1 .. Len(t) : f[Len(a) + 1 + i] = t[i]
    <3>1. x \in Nat \ {0} /\ t \in Seq(Nat)
      BY <2>1
    <3>2. f \in Seq(Nat)
      BY <3>1, FlowPlaces
    <3>6. Len(f) = Len(a) + 1 + Len(t)
      BY <3>1, FlowPlaces, SMTT(30)
    <3>3. \A i \in 1 .. Len(a) : f[i] = a[i]
      BY <3>1, FlowPlaces
    <3>4. f[Len(a) + 1] = x
      BY <3>1, FlowPlaces
    <3>5. \A i \in 1 .. Len(t) : f[Len(a) + 1 + i] = t[i]
      BY <3>1, FlowPlaces
    <3> HIDE DEF f
    <3> QED
      BY <3>2, <3>3, <3>4, <3>5, <3>6
  <2>3. /\ g \in Seq(Nat) /\ Len(g) = Len(a) + Len(c)
        /\ \A i \in 1 .. Len(a) : g[i] = a[i]
        /\ \A i \in 1 .. Len(c) : g[Len(a) + i] = c[i]
    BY FlowPlaces
  <2> HIDE DEF f, g
  <2>4. Len(f) = Len(g)
    BY <2>1, <2>2, <2>3
  <2>5. ASSUME NEW i \in 1 .. Len(f) PROVE f[i] = g[i]
    <3>1. CASE i <= Len(a)
      BY <2>1, <2>2, <2>3, <3>1
    <3>2. CASE i = Len(a) + 1
      BY <2>1, <2>2, <2>3, <3>2
    <3>3. CASE i > Len(a) + 1
      <4> DEFINE j == i - (Len(a) + 1)
      <4>1. j \in 1 .. Len(t) /\ j + 1 \in 1 .. Len(c) /\ i = Len(a) + 1 + j /\ i = Len(a) + (j + 1)
        <5>1. Len(a) \in Nat /\ Len(c) \in Nat /\ Len(t) = Len(c) - 1 /\ i \in 1 .. Len(a) + 1 + Len(t)
          BY <2>1, <2>2
        <5> QED
          BY <3>3, <5>1
      <4> HIDE DEF j
      <4>2. f[i] = t[j] /\ g[i] = c[j + 1] /\ t[j] = c[j + 1]
        BY <2>1, <2>2, <2>3, <4>1
      <4> QED
        BY <4>2
    <3> QED
      BY <2>1, <2>2, <3>1, <3>2, <3>3, SMTT(30)
  <2>6. f = g
    BY <2>2, <2>3, <2>4, <2>5, SeqEqual
  <2> QED
    BY <2>6 DEF f, g, x, t
<1> QED
  BY <1>1, <1>2

(* A record put in the buffer comes last. *)
LEMMA FlowGrows ==
  ASSUME NEW a \in Seq(Nat), NEW u \in Nat, NEW c \in Seq(Nat), NEW m \in Nat
  PROVE  FlowOf(a, u, c) \in Seq(Nat) /\ FlowOf(a, u, Append(c, m)) = Append(FlowOf(a, u, c), m)
<1> DEFINE h == a \o (IF u = 0 THEN <<>> ELSE <<u>>)
<1>1. h \in Seq(Nat) /\ <<m>> \in Seq(Nat)
  <2>1. (IF u = 0 THEN <<>> ELSE <<u>>) \in Seq(Nat)
    OBVIOUS
  <2> QED
    BY <2>1, ConcatProperties
<1>2. FlowOf(a, u, c) = h \o c /\ FlowOf(a, u, Append(c, m)) = h \o Append(c, m)
  BY DEF FlowOf
<1> HIDE DEF h
<1>3. h \o c \in Seq(Nat)
  BY <1>1, ConcatProperties
<1>4. Append(c, m) = c \o <<m>> /\ Append(h \o c, m) = (h \o c) \o <<m>>
  BY <1>3, AppendIsConcat
<1> QED
  BY <1>1, <1>2, <1>3, <1>4, ConcatAssociative

(* The flow's order survives the loss of one record, and its last record's arrival. *)
LEMMA OrderedDrop ==
  ASSUME NEW a \in Seq(Nat), NEW u \in Nat \ {0}, NEW c \in Seq(Nat), NEW b \in Seq(Nat),
         IsInjective(b), OrderedBy(FlowOf(a, u, c), b)
  PROVE  /\ OrderedBy(FlowOf(a, 0, c), b)
         /\ ToSet(FlowOf(a, 0, c)) = ToSet(FlowOf(a, u, c)) \ {u}
         /\ u \in ToSet(FlowOf(a, u, c))
<1> DEFINE f == FlowOf(a, u, c)
           g == FlowOf(a, 0, c)
           old(i) == IF i <= Len(a) THEN i ELSE i + 1
<1>1. /\ Len(a) \in Nat /\ Len(c) \in Nat /\ Len(b) \in Nat /\ DOMAIN b = 1 .. Len(b)
  OBVIOUS
<1>2. /\ f \in Seq(Nat) /\ Len(f) = Len(a) + 1 + Len(c)
      /\ \A i \in 1 .. Len(a) : f[i] = a[i]
      /\ f[Len(a) + 1] = u
      /\ \A i \in 1 .. Len(c) : f[Len(a) + 1 + i] = c[i]
      /\ g \in Seq(Nat) /\ Len(g) = Len(a) + Len(c)
      /\ \A i \in 1 .. Len(a) : g[i] = a[i]
      /\ \A i \in 1 .. Len(c) : g[Len(a) + i] = c[i]
  BY FlowPlaces
<1>3. OrderedBy(f, b) /\ DOMAIN f = 1 .. Len(a) + 1 + Len(c) /\ DOMAIN g = 1 .. Len(a) + Len(c)
  <2>1. DOMAIN f = 1 .. Len(f) /\ DOMAIN g = 1 .. Len(g)
    BY <1>2, LenProperties
  <2> QED
    BY <1>2, <2>1
<1> HIDE DEF f, g
<1>4. ASSUME NEW i \in DOMAIN g PROVE old(i) \in DOMAIN f /\ old(i) # Len(a) + 1 /\ g[i] = f[old(i)]
  <2>1. CASE i <= Len(a)
    BY <1>1, <1>2, <1>3, <2>1
  <2>2. CASE i > Len(a)
    <3> DEFINE j == i - Len(a)
    <3>1. j \in 1 .. Len(c) /\ i = Len(a) + j /\ i + 1 = Len(a) + 1 + j /\ old(i) = i + 1
      BY <1>1, <1>3, <2>2
    <3> HIDE DEF j, old
    <3>2. g[i] = c[j] /\ f[i + 1] = c[j]
      BY <1>2, <3>1
    <3>3. i + 1 \in DOMAIN f /\ i + 1 # Len(a) + 1
      BY <1>1, <1>3, <2>2
    <3> QED
      BY <3>1, <3>2, <3>3
  <2> QED
    BY <1>1, <1>3, <2>1, <2>2
<1>5. ASSUME NEW i \in DOMAIN f, i # Len(a) + 1 PROVE \E j \in DOMAIN g : g[j] = f[i]
  <2>1. CASE i <= Len(a)
    BY <1>1, <1>2, <1>3, <2>1
  <2>2. CASE i > Len(a) + 1
    <3> DEFINE j == i - (Len(a) + 1)
    <3>1. j \in 1 .. Len(c) /\ i = Len(a) + 1 + j /\ Len(a) + j \in DOMAIN g
      BY <1>1, <1>3, <2>2
    <3> HIDE DEF j
    <3>2. g[Len(a) + j] = c[j] /\ f[i] = c[j]
      BY <1>2, <3>1
    <3> QED
      BY <3>1, <3>2
  <2> QED
    BY <1>1, <1>3, <1>5, <2>1, <2>2
<1>6. \A i, j \in DOMAIN g : i < j => old(i) < old(j)
  BY <1>1, <1>3
<1>7. OrderedBy(g, b)
  <2> SUFFICES ASSUME NEW i \in DOMAIN g, NEW j \in DOMAIN g, i < j
               PROVE  \E k, l \in DOMAIN b : k < l /\ b[k] = g[i] /\ b[l] = g[j]
    BY DEF OrderedBy
  <2>1. old(i) \in DOMAIN f /\ old(j) \in DOMAIN f /\ old(i) < old(j) /\ g[i] = f[old(i)] /\ g[j] = f[old(j)]
    BY <1>4, <1>6
  <2> HIDE DEF old
  <2> QED
    BY <1>3, <2>1 DEF OrderedBy
<1>8. ASSUME NEW i \in DOMAIN f, NEW j \in DOMAIN f, i < j PROVE f[i] # f[j]
  <2>1. PICK k \in DOMAIN b, l \in DOMAIN b : k < l /\ b[k] = f[i] /\ b[l] = f[j]
    BY <1>3, <1>8 DEF OrderedBy
  <2>2. k # l
    BY <1>1, <2>1
  <2> QED
    BY <2>1, <2>2 DEF IsInjective
<1>9. Len(a) + 1 \in DOMAIN f
  BY <1>1, <1>2, <1>3
<1>10. ASSUME NEW i \in DOMAIN f, f[i] = u PROVE i = Len(a) + 1
  <2>1. i < Len(a) + 1 \/ i > Len(a) + 1 \/ i = Len(a) + 1
    BY <1>1, <1>3
  <2> QED
    BY <1>2, <1>8, <1>9, <1>10, <2>1
<1> HIDE DEF old
<1>11. ToSet(g) = ToSet(f) \ {u}
  <2>1. ASSUME NEW x \in ToSet(g) PROVE x \in ToSet(f) \ {u}
    <3>1. PICK i \in DOMAIN g : x = g[i]
      BY <2>1 DEF ToSet
    <3>2. old(i) \in DOMAIN f /\ old(i) # Len(a) + 1 /\ x = f[old(i)]
      BY <1>4, <3>1
    <3>3. x # u
      BY <1>10, <3>2
    <3> QED
      BY <3>2, <3>3 DEF ToSet
  <2>2. ASSUME NEW x \in ToSet(f), x # u PROVE x \in ToSet(g)
    <3>1. PICK i \in DOMAIN f : x = f[i]
      BY <2>2 DEF ToSet
    <3>2. i # Len(a) + 1
      BY <1>2, <2>2, <3>1
    <3> QED
      BY <1>5, <3>1, <3>2 DEF ToSet
  <2> QED
    BY <2>1, <2>2
<1>12. u \in ToSet(f)
  BY <1>2, <1>9 DEF ToSet
<1> QED
  BY <1>7, <1>11, <1>12 DEF f, g

(* What Append does to a sequence's elements. *)
LEMMA AppendSet ==
  ASSUME NEW s \in Seq(Nat), NEW m \in Nat
  PROVE  /\ Append(s, m) \in Seq(Nat)
         /\ ToSet(Append(s, m)) = ToSet(s) \cup {m}
         /\ m \notin ToSet(s) /\ IsInjective(s) => IsInjective(Append(s, m))
<1> DEFINE t == Append(s, m)
<1>1. /\ Len(s) \in Nat /\ DOMAIN s = 1 .. Len(s) /\ t \in Seq(Nat) /\ DOMAIN t = 1 .. Len(s) + 1
      /\ t[Len(s) + 1] = m /\ \A i \in 1 .. Len(s) : t[i] = s[i]
  BY AppendProperties, LenProperties
<1> HIDE DEF t
<1>2. \A i \in DOMAIN t : i \in DOMAIN s \/ i = Len(s) + 1
  BY <1>1
<1>3. DOMAIN s \subseteq DOMAIN t /\ Len(s) + 1 \in DOMAIN t
  BY <1>1
<1>4. ToSet(t) = ToSet(s) \cup {m}
  BY <1>1, <1>2, <1>3 DEF ToSet
<1>5. ASSUME m \notin ToSet(s), IsInjective(s) PROVE IsInjective(t)
  BY <1>1, <1>2, <1>3, <1>5 DEF ToSet, IsInjective
<1> QED
  BY <1>1, <1>4, <1>5 DEF t

LEMMA OrderedGrow ==
  ASSUME NEW f \in Seq(Nat), NEW b \in Seq(Nat), NEW m \in Nat,
         OrderedBy(f, b), ToSet(f) \subseteq ToSet(b)
  PROVE  OrderedBy(Append(f, m), Append(b, m))
<1> DEFINE g == Append(f, m)
           c == Append(b, m)
<1>1. /\ Len(f) \in Nat /\ DOMAIN f = 1 .. Len(f) /\ DOMAIN g = 1 .. Len(f) + 1
      /\ g[Len(f) + 1] = m /\ \A i \in DOMAIN f : g[i] = f[i]
  BY AppendProperties, LenProperties
<1>2. /\ Len(b) \in Nat /\ DOMAIN b = 1 .. Len(b) /\ DOMAIN c = 1 .. Len(b) + 1
      /\ c[Len(b) + 1] = m /\ \A i \in DOMAIN b : c[i] = b[i]
  BY AppendProperties, LenProperties
<1> HIDE DEF g, c
<1>3. ASSUME NEW i \in DOMAIN g, NEW j \in DOMAIN g, i < j
      PROVE  \E k, l \in DOMAIN c : k < l /\ c[k] = g[i] /\ c[l] = g[j]
  <2>1. i \in DOMAIN f /\ (j \in DOMAIN f \/ j = Len(f) + 1)
    BY <1>1, <1>3
  <2>2. \A k \in DOMAIN b : k \in DOMAIN c /\ k < Len(b) + 1
    BY <1>2
  <2>3. CASE j \in DOMAIN f
    <3>1. PICK k \in DOMAIN b, l \in DOMAIN b : k < l /\ b[k] = f[i] /\ b[l] = f[j]
      BY <1>3, <2>1, <2>3 DEF OrderedBy
    <3> QED
      BY <1>1, <1>2, <2>1, <2>2, <2>3, <3>1
  <2>4. CASE j = Len(f) + 1
    <3>1. PICK k \in DOMAIN b : b[k] = f[i]
      BY <2>1 DEF ToSet
    <3>2. Len(b) + 1 \in DOMAIN c /\ k < Len(b) + 1 /\ k \in DOMAIN c
      BY <1>2, <2>2
    <3> QED
      BY <1>1, <1>2, <2>1, <2>4, <3>1, <3>2
  <2> QED
    BY <2>1, <2>3, <2>4
<1>4. OrderedBy(g, c)
  BY <1>3 DEF OrderedBy
<1> QED
  BY <1>4 DEF g, c

(* The flow is typed, and DeliveredInOrder is about its order. *)
LEMMA FlowTyped ==
  /\ Flow = FlowOf(arrived, undelivered, tracedMsgChan)
  /\ DeliveredInOrder <=>
       /\ IsInjective(accepted) /\ ToSet(Flow) = ToSet(accepted) \ lost
       /\ OrderedBy(Flow, accepted)
BY DEF Flow, FlowOf, DeliveredInOrder, OrderedBy

(* Steps that leave the records in their places. *)
LEMMA FlowKept ==
  ASSUME FlowInv, UNCHANGED <<accepted, lost>>, Flow' = Flow, arrived' \in Seq(Nat),
         at' = "recv" => undelivered' = 0,
         \A m \in ToSet(accepted) : m \in 1 .. Len(traced)' /\ m \notin tested'
  PROVE  FlowInv'
<1>1. DeliveredInOrder'
  BY DEF FlowInv, DeliveredInOrder
<1> QED
  BY <1>1 DEF FlowInv

LEMMA NextFlow == TagInv /\ HelperInv /\ FlowInv /\ [Next]_vars => FlowInv'
<1> SUFFICES ASSUME TagInv, HelperInv, FlowInv, [Next]_vars PROVE FlowInv'
  OBVIOUS
<1>a. /\ arrived \in Seq(Nat) /\ accepted \in Seq(Nat) /\ tracedMsgChan \in Seq(Nat) /\ undelivered \in Nat
      /\ Len(traced) \in Nat /\ tested \subseteq 1 .. Len(traced)
      /\ \A m \in ToSet(accepted) : m \in 1 .. Len(traced) /\ m \notin tested
  BY DEF HelperInv, FlowInv
<1>b. /\ IsInjective(accepted) /\ ToSet(Flow) = ToSet(accepted) \ lost /\ OrderedBy(Flow, accepted)
      /\ Flow = FlowOf(arrived, undelivered, tracedMsgChan) /\ lost \subseteq ToSet(accepted)
  BY FlowTyped DEF FlowInv
<1>c. Flow' = FlowOf(arrived', undelivered', tracedMsgChan')
  BY DEF Flow, FlowOf
<1>0. ASSUME UNCHANGED hopVars PROVE FlowInv'
  BY <1>0, FlowKept DEF FlowInv, Flow, hopVars, helperVars, traceVars, runVars
<1>1. ASSUME NEW n \in Counts, TraceMsgByName(n) PROVE UNCHANGED hopVars
  BY <1>1 DEF TraceMsgByName
<1>2. CASE UnTraceMsgAll
  BY <1>0, <1>2 DEF UnTraceMsgAll
<1>3. ASSUME NEW s \in Senders, getTraceConf(s) \/ FilterRejects(s) \/ MakeID(s) \/ AddSeqNum(s)
      PROVE  UNCHANGED hopVars
  BY <1>3 DEF getTraceConf, FilterRejects, MakeID, AddSeqNum
<1>4. ASSUME NEW s \in Senders, RemoteHop(s) PROVE UNCHANGED hopVars
  BY <1>4 DEF RemoteHop
<1>5. ASSUME NEW s \in Senders, traceMsg(s) PROVE FlowInv'
  <2>1. PICK id \in Nat \X Nat : traced' = Append(traced, id)
    BY <1>5, KnownIDs DEF traceMsg
  <2>2. Len(traced') = Len(traced) + 1
    BY <2>1 DEF HelperInv
  <2>3. /\ tested' \subseteq tested \cup {Len(traced')}
        /\ at' = "recv" => at = "recv"
        /\ UNCHANGED <<arrived, accepted, lost, tracedMsgChan, undelivered>>
    BY <1>5 DEF traceMsg, TraceTest, runVars
  <2>4. \A m \in ToSet(accepted) : m \in 1 .. Len(traced') /\ m \notin tested'
    <3>1. \A m \in 1 .. Len(traced) : m \in 1 .. Len(traced') /\ m # Len(traced')
      BY <1>a, <2>2
    <3> QED
      BY <1>a, <2>3, <3>1
  <2>5. Flow' = Flow
    BY <2>3 DEF Flow
  <2> QED
    BY <2>3, <2>4, <2>5, FlowKept DEF FlowInv
<1>6. CASE HelperDelivers
  <2>1. /\ undelivered \in Nat \ {0} /\ undelivered' = 0
        /\ arrived' = (IF link = "up" THEN Append(arrived, undelivered) ELSE arrived)
        /\ lost' = (IF link = "up" THEN lost ELSE lost \cup {undelivered})
        /\ UNCHANGED <<tested, accepted, tracedMsgChan, traced>>
    BY <1>6, <1>a DEF HelperDelivers, Deliver, traceVars, HelperInv
  <2>2. CASE link = "up"
    <3>1. arrived' = Append(arrived, undelivered) /\ arrived' \in Seq(Nat) /\ UNCHANGED lost
      BY <1>a, <2>1, <2>2, AppendProperties
    <3>2. Flow' = Flow
      BY <1>a, <1>b, <1>c, <2>1, <3>1, FlowMoves
    <3> QED
      BY <1>a, <2>1, <3>1, <3>2, FlowKept
  <2>3. CASE link # "up"
    <3>1. arrived' = arrived /\ lost' = lost \cup {undelivered}
      BY <2>1, <2>3
    <3>2. /\ OrderedBy(Flow', accepted) /\ ToSet(Flow') = ToSet(Flow) \ {undelivered}
          /\ undelivered \in ToSet(Flow)
      BY <1>a, <1>b, <1>c, <2>1, <3>1, OrderedDrop
    <3>3. lost' \subseteq ToSet(accepted) /\ ToSet(Flow') = ToSet(accepted) \ lost'
      BY <1>b, <3>1, <3>2
    <3>4. DeliveredInOrder'
      BY <1>b, <2>1, <3>2, <3>3 DEF DeliveredInOrder, OrderedBy
    <3> QED
      BY <1>a, <2>1, <3>1, <3>3, <3>4 DEF FlowInv
  <2> QED
    BY <2>2, <2>3
<1>7. CASE HelperRuns
  <2>1. UNCHANGED traced
    BY <1>7 DEF HelperRuns
  <2>2. CASE RunConnects \/ RunFindsNone \/ DeliverFails \/ Stop \/ Break
    <3>1. /\ UNCHANGED <<tested, tracedMsgChan, accepted, arrived, lost, undelivered>>
          /\ at' = "recv" => undelivered = 0
      BY <2>2 DEF RunConnects, RunFindsNone, DeliverFails, Stop, Break, Fail, FlowInv, traceVars
    <3>2. Flow' = Flow
      BY <3>1 DEF Flow
    <3> QED
      BY <1>a, <2>1, <3>1, <3>2, FlowKept
  <2>3. CASE RunRecv
    <3>1. /\ tracedMsgChan # <<>> /\ undelivered' = Head(tracedMsgChan) /\ undelivered = 0 /\ at' = "deliver"
          /\ tracedMsgChan' = Tail(tracedMsgChan) /\ UNCHANGED <<tested, accepted, arrived, lost>>
      BY <2>3 DEF RunRecv, FlowInv
    <3>2. Head(tracedMsgChan) # 0 /\ 1 \in Nat \ {0}
      <4>1. Len(tracedMsgChan) \in Nat \ {0} /\ Head(tracedMsgChan) = tracedMsgChan[1]
        BY <1>a, <3>1, EmptySeq
      <4>2. tracedMsgChan[1] \in 1 .. Len(traced)
        BY <4>1 DEF HelperInv
      <4> QED
        BY <4>1, <4>2
    <3>3. Flow' = Flow
      BY <1>a, <1>b, <1>c, <3>1, <3>2, FlowMoves
    <3> QED
      BY <1>a, <2>1, <3>1, <3>3, FlowKept
  <2>4. ASSUME NEW m \in tested, TraceSend(m) PROVE FlowInv'
    <3>1. /\ m \in Nat /\ m \in 1 .. Len(traced) /\ m \notin ToSet(accepted) /\ tested' = tested \ {m}
          /\ UNCHANGED <<undelivered, arrived, lost, at>>
          /\ \/ UNCHANGED <<tracedMsgChan, accepted>>
             \/ tracedMsgChan' = Append(tracedMsgChan, m) /\ accepted' = Append(accepted, m)
      BY <1>a, <2>4 DEF TraceSend, runVars
    <3>2. CASE UNCHANGED <<tracedMsgChan, accepted>>
      <4>1. Flow' = Flow
        BY <3>1, <3>2 DEF Flow
      <4>2. at' = "recv" => undelivered' = 0
        BY <3>1 DEF FlowInv
      <4> QED
        BY <1>a, <2>1, <3>1, <3>2, <4>1, <4>2, FlowKept
    <3>3. CASE tracedMsgChan' = Append(tracedMsgChan, m) /\ accepted' = Append(accepted, m)
      <4>1. Flow \in Seq(Nat) /\ Flow' = Append(Flow, m)
        BY <1>a, <1>b, <1>c, <3>1, <3>3, FlowGrows, SMTT(30)
      <4>2. /\ accepted' \in Seq(Nat) /\ ToSet(accepted') = ToSet(accepted) \cup {m} /\ IsInjective(accepted')
            /\ ToSet(Flow') = ToSet(Flow) \cup {m}
        BY <1>a, <1>b, <3>1, <3>3, <4>1, AppendSet
      <4>3. ToSet(Flow') = ToSet(accepted') \ lost' /\ lost' \subseteq ToSet(accepted')
        BY <1>b, <3>1, <4>2
      <4>4. OrderedBy(Flow', accepted')
        <5>1. ToSet(Flow) \subseteq ToSet(accepted)
          BY <1>b
        <5> QED
          BY <1>a, <1>b, <3>1, <3>3, <4>1, <5>1, OrderedGrow
      <4>5. DeliveredInOrder'
        BY <4>2, <4>3, <4>4 DEF DeliveredInOrder, OrderedBy
      <4>6. \A k \in ToSet(accepted') : k \in 1 .. Len(traced') /\ k \notin tested'
        BY <1>a, <2>1, <3>1, <4>2
      <4>7. arrived' \in Seq(Nat) /\ (at' = "recv" => undelivered' = 0)
        BY <3>1 DEF FlowInv
      <4> QED
        BY <4>2, <4>3, <4>5, <4>6, <4>7 DEF FlowInv
    <3> QED
      BY <3>1, <3>2, <3>3
  <2> QED
    BY <1>7, <2>2, <2>3, <2>4 DEF HelperRuns
<1>8. ASSUME NEW r \in DOMAIN token, Lookup(r) \/ AppendRecord(r) \/ MoveToFront(r) \/ CreateSession(r)
      PROVE  UNCHANGED hopVars
  BY <1>8 DEF Lookup, AppendRecord, MoveToFront, CreateSession, PushSession
<1>9. ASSUME NEW d \in Readers, TakeToken(d) \/ TakeAll(d) \/ ReadSession(d) \/ Reply(d)
      PROVE  UNCHANGED hopVars
  BY <1>9 DEF TakeToken, TakeAll, ReadSession, Reply
<1>10. CASE UNCHANGED vars
  BY <1>0, <1>10 DEF vars
<1> QED
  BY <1>0, <1>1, <1>2, <1>3, <1>4, <1>5, <1>6, <1>7, <1>8, <1>9, <1>10 DEF Next

LEMMA InitFlow == Init => FlowInv
<1> SUFFICES ASSUME Init PROVE FlowInv
  OBVIOUS
<1>1. arrived = <<>> /\ accepted = <<>> /\ undelivered = 0 /\ tracedMsgChan = <<>> /\ lost = {} /\ at = "off"
  BY DEF Init, HelperInit
<1>2. /\ arrived \in Seq(Nat) /\ accepted \in Seq(Nat) /\ Len(accepted) = 0 /\ DOMAIN accepted = {}
  BY <1>1
<1>3. Flow = <<>> /\ DOMAIN Flow = {}
  BY <1>1, ConcatEmptySeq DEF Flow
<1>4. ToSet(accepted) = {} /\ ToSet(Flow) = {}
  BY <1>2, <1>3 DEF ToSet
<1> QED
  BY <1>1, <1>2, <1>3, <1>4 DEF FlowInv, DeliveredInOrder, IsInjective

-----------------------------------------------------------------------------
(* The collector.                                                          *)

(* Nothing else disturbs it. *)
LEMMA CollectFrame == CollectInv /\ UNCHANGED tracerVars => CollectInv'
  BY DEF CollectInv, CollectType, RecordInv, SessionInv, ReadInv, IndexesAgree, ReturnedOnce, Records,
         tracerVars, writerVars, readerVars

(* A record that arrives has no session and is in none. *)
LEMMA ArriveCollect == ASSUME CollectInv, NEW id \in Nat \X Nat, Arrive(id) PROVE CollectInv'
<1> DEFINE n == Len(token) + 1
           PC == {"arrive", "append", "move", "create", "done"}
<1>0. CollectType /\ RecordInv /\ SessionInv /\ ReadInv /\ IndexesAgree /\ ReturnedOnce
  BY DEF CollectInv
<1>1. UNCHANGED <<lru, lut, twinned, rpc, taken, result>>
  BY DEF Arrive, readerVars
<1>2. /\ token' \in Seq(Nat \X Nat) /\ Len(token') = n /\ Len(token) \in Nat
      /\ \A s \in Records : token'[s] = token[s]
  BY <1>0 DEF Arrive, CollectType, Records
<1>3. pc' \in Seq(PC) /\ Len(pc') = n /\ pc'[n] = "arrive" /\ \A s \in Records : pc'[s] = pc[s]
  BY <1>0 DEF Arrive, CollectType, Records
<1>4. elem' \in Seq(Nat \cup {None}) /\ Len(elem') = n /\ \A s \in Records : elem'[s] = elem[s]
  BY <1>0 DEF Arrive, CollectType, Records
<1>5. /\ records' \in Seq(SUBSET Nat) /\ Len(records') = n /\ records'[n] = {}
      /\ \A s \in Records : records'[s] = records[s]
  <2>1. {} \in SUBSET Nat
    OBVIOUS
  <2> QED
    BY <1>0, <2>1, AppendProperties DEF Arrive, CollectType, Records
<1>6. Records' = Records \cup {n} /\ n \notin Records
  BY <1>2 DEF Records
<1> HIDE DEF n, PC
<1>7. CollectType'
  BY <1>0, <1>1, <1>2, <1>3, <1>4, <1>5 DEF CollectType, PC
<1>8. RecordInv'
  <2>1. \A s \in Records' : pc'[s] \in {"arrive", "create"} => records'[s] = {}
    BY <1>0, <1>3, <1>5, <1>6 DEF RecordInv
  <2>2. \A s \in Records' : \A r \in records'[s] : r \in Records' /\ pc'[r] \in {"move", "done"}
    BY <1>0, <1>3, <1>5, <1>6 DEF RecordInv
  <2>3. \A s, t \in Records' : s # t => records'[s] \cap records'[t] = {}
    BY <1>0, <1>5, <1>6 DEF RecordInv
  <2>4. \A r \in Records' : pc'[r] \in {"append", "move"} => elem'[r] \in Records' /\ pc'[elem'[r]] = "done"
    BY <1>0, <1>3, <1>4, <1>6 DEF RecordInv
  <2> QED
    BY <2>1, <2>2, <2>3, <2>4 DEF RecordInv
<1>9. SessionInv'
  BY <1>0, <1>1, <1>3, <1>6 DEF SessionInv
<1>10. ReadInv'
  BY <1>0, <1>1, <1>5, <1>6 DEF ReadInv
<1>11. IndexesAgree'
  <2>1. \A s \in ToSet(lru) : token'[s] = token[s]
    BY <1>0, <1>2 DEF SessionInv
  <2>2. \A t \in DOMAIN lut : lut[t] \in ToSet(lru)
    BY <1>0, ListElements DEF IndexesAgree, CollectType
  <2> QED
    BY <1>0, <1>1, <2>1, <2>2 DEF IndexesAgree
<1>12. ReturnedOnce'
  BY <1>0, <1>1 DEF ReturnedOnce
<1> QED
  BY <1>7, <1>8, <1>9, <1>10, <1>11, <1>12 DEF CollectInv

(* What a handler changes of its own program counter. *)
LEMMA PcStep ==
    ASSUME CollectType, NEW r \in Records,
           NEW x \in {"arrive", "append", "move", "create", "done"}, pc' = [pc EXCEPT ![r] = x]
    PROVE  /\ pc' \in Seq({"arrive", "append", "move", "create", "done"}) /\ Len(pc') = Len(token)
           /\ \A s \in Records : pc'[s] = IF s = r THEN x ELSE pc[s]
<1> DEFINE PC == {"arrive", "append", "move", "create", "done"}
<1>1. pc \in Seq(PC) /\ Len(pc) = Len(token) /\ r \in 1 .. Len(pc) /\ x \in PC
  BY DEF CollectType, Records
<1> HIDE DEF PC
<1>2. /\ pc' \in Seq(PC) /\ Len(pc') = Len(pc)
      /\ \A s \in 1 .. Len(pc) : pc'[s] = IF s = r THEN x ELSE pc[s]
  BY <1>1, ExceptSeq
<1> QED
  BY <1>1, <1>2 DEF PC, Records

(* A handler finds the session of its record's ID, or none. *)
LEMMA LookupCollect == ASSUME CollectInv, NEW r \in Records, Lookup(r) PROVE CollectInv'
<1> DEFINE has == token[r] \in DOMAIN lut
<1>0. CollectType /\ RecordInv /\ SessionInv /\ ReadInv /\ IndexesAgree /\ ReturnedOnce
  BY DEF CollectInv
<1>1. pc[r] = "arrive" /\ UNCHANGED <<token, lru, lut, records, twinned, rpc, taken, result>>
  BY DEF Lookup, readerVars
<1>2. has => lut[token[r]] \in ToSet(lru)
  BY <1>0, ListElements DEF IndexesAgree, CollectType
<1>3. has => lut[token[r]] \in Records /\ pc[lut[token[r]]] = "done"
  BY <1>0, <1>2 DEF SessionInv
<1>4. PICK e \in Nat \cup {None} : e = IF has THEN lut[token[r]] ELSE None
  <2>1. CASE has
    BY <1>3, <2>1 DEF Records
  <2>2. CASE ~has
    BY <2>2
  <2> QED
    BY <2>1, <2>2
<1>5. /\ elem' \in Seq(Nat \cup {None}) /\ Len(elem') = Len(token)
      /\ \A s \in Records : elem'[s] = IF s = r THEN e ELSE elem[s]
  BY <1>0, <1>4, ExceptSeq DEF Lookup, CollectType, Records
<1>6. PICK x \in {"append", "create"} : x = IF has THEN "append" ELSE "create"
  OBVIOUS
<1>7. /\ pc' \in Seq({"arrive", "append", "move", "create", "done"}) /\ Len(pc') = Len(token)
      /\ \A s \in Records : pc'[s] = IF s = r THEN x ELSE pc[s]
  <2>1. pc' = [pc EXCEPT ![r] = x]
    BY <1>6 DEF Lookup
  <2>2. x \in {"arrive", "append", "move", "create", "done"}
    OBVIOUS
  <2> QED
    BY <1>0, <2>1, <2>2, PcStep
<1>8. x = "append" => e \in Records /\ pc[e] = "done"
  BY <1>3, <1>4, <1>6
<1>9. Records' = Records
  BY <1>1 DEF Records
<1> HIDE DEF has
<1>10. CollectType'
  BY <1>0, <1>1, <1>5, <1>7 DEF CollectType
<1>11. RecordInv'
  BY <1>0, <1>1, <1>5, <1>7, <1>8, <1>9 DEF RecordInv
<1>12. SessionInv'
  BY <1>0, <1>1, <1>7, <1>9 DEF SessionInv
<1>13. ReadInv' /\ IndexesAgree' /\ ReturnedOnce'
  BY <1>0, <1>1, <1>9 DEF ReadInv, IndexesAgree, ReturnedOnce
<1> QED
  BY <1>10, <1>11, <1>12, <1>13 DEF CollectInv

(* A handler appends its record to the session that it found. *)
LEMMA AppendCollect == ASSUME CollectInv, NEW r \in Records, AppendRecord(r) PROVE CollectInv'
<1> DEFINE e == elem[r]
<1>0. CollectType /\ RecordInv /\ SessionInv /\ ReadInv /\ IndexesAgree /\ ReturnedOnce
  BY DEF CollectInv
<1>1. pc[r] = "append" /\ UNCHANGED <<token, lru, lut, elem, twinned, rpc, taken, result>>
  BY DEF AppendRecord, readerVars
<1>2. e \in Records /\ pc[e] = "done" /\ e # r
  BY <1>0, <1>1 DEF RecordInv
<1>3. records[e] \in SUBSET Nat /\ records[e] \cup {r} \in SUBSET Nat
  <2>1. records[e] \in SUBSET Nat
    BY <1>0, <1>2, ElementOfSeq DEF CollectType, Records
  <2> QED
    BY <2>1 DEF Records
<1>4. /\ records' \in Seq(SUBSET Nat) /\ Len(records') = Len(token)
      /\ \A s \in Records : records'[s] = IF s = e THEN records[e] \cup {r} ELSE records[s]
  <2>1. records' = [records EXCEPT ![e] = records[e] \cup {r}]
    BY DEF AppendRecord
  <2>2. records \in Seq(SUBSET Nat) /\ Len(records) = Len(token) /\ e \in 1 .. Len(records)
    BY <1>0, <1>2 DEF CollectType, Records
  <2> HIDE DEF e
  <2>3. /\ records' \in Seq(SUBSET Nat) /\ Len(records') = Len(records)
        /\ \A s \in 1 .. Len(records) : records'[s] = IF s = e THEN records[e] \cup {r} ELSE records[s]
    BY <1>3, <2>1, <2>2, ExceptSeq
  <2> QED
    BY <2>2, <2>3 DEF Records
<1>5. /\ pc' \in Seq({"arrive", "append", "move", "create", "done"}) /\ Len(pc') = Len(token)
      /\ \A s \in Records : pc'[s] = IF s = r THEN "move" ELSE pc[s]
  BY <1>0, PcStep DEF AppendRecord
<1>6. \A s \in Records : r \notin records[s]
  BY <1>0, <1>1 DEF RecordInv
<1>7. Records' = Records
  BY <1>1 DEF Records
<1>8. elem'[r] = e
  BY <1>1
<1> HIDE DEF e
<1>9. CollectType'
  BY <1>0, <1>1, <1>4, <1>5 DEF CollectType
<1>10. RecordInv'
  <2>1. \A s \in Records : pc'[s] \in {"arrive", "create"} => records'[s] = {}
    BY <1>0, <1>2, <1>4, <1>5 DEF RecordInv
  <2>2. \A s \in Records : \A x \in records'[s] : x \in Records /\ pc'[x] \in {"move", "done"}
    BY <1>0, <1>4, <1>5 DEF RecordInv
  <2>3. \A s, t \in Records : s # t => records'[s] \cap records'[t] = {}
    BY <1>0, <1>4, <1>6 DEF RecordInv
  <2>4. \A x \in Records : pc'[x] \in {"append", "move"} => elem[x] \in Records /\ pc'[elem[x]] = "done"
    BY <1>0, <1>1, <1>5 DEF RecordInv
  <2> QED
    BY <1>1, <1>7, <2>1, <2>2, <2>3, <2>4 DEF RecordInv
<1>11. SessionInv'
  BY <1>0, <1>1, <1>5, <1>7 DEF SessionInv
<1>12. ReadInv'
  BY <1>0, <1>1, <1>4, <1>7 DEF ReadInv
<1>13. IndexesAgree' /\ ReturnedOnce'
  BY <1>0, <1>1 DEF IndexesAgree, ReturnedOnce
<1> QED
  BY <1>9, <1>10, <1>11, <1>12, <1>13 DEF CollectInv

(* A handler moves the session to the front, unless it left the list. *)
LEMMA MoveCollect == ASSUME CollectInv, NEW r \in Records, MoveToFront(r) PROVE CollectInv'
<1>0. CollectType /\ RecordInv /\ SessionInv /\ ReadInv /\ IndexesAgree /\ ReturnedOnce
  BY DEF CollectInv
<1>1. pc[r] = "move" /\ UNCHANGED <<token, lut, records, elem, twinned, rpc, taken, result>>
  BY DEF MoveToFront, readerVars
<1>2. lru' \in Seq(Nat) /\ IsInjective(lru') /\ Len(lru') = Len(lru) /\ ToSet(lru') = ToSet(lru)
  <2>1. lru \in Seq(Nat) /\ IsInjective(lru) /\ Len(lru) \in Nat
    BY <1>0 DEF CollectType, IndexesAgree
  <2>2. CASE ~Contains(lru, elem[r])
    BY <2>1, <2>2 DEF MoveToFront
  <2>3. CASE Contains(lru, elem[r])
    <3>1. elem[r] \in ToSet(lru)
      BY <2>1, <2>3, ListElements
    <3>2. PICK q \in Seq(Nat) : q = RemoveFirst(lru, elem[r])
      BY <2>1, <3>1, RemoveFirstOf
    <3>3. IsInjective(q) /\ Len(q) = Len(lru) - 1 /\ ToSet(q) = ToSet(lru) \ {elem[r]}
      BY <2>1, <3>1, <3>2, RemoveFirstOf
    <3>4. elem[r] \in Nat /\ lru' = <<elem[r]>> \o q
      BY <1>0, <2>3, <3>1, <3>2 DEF SessionInv, Records, MoveToFront
    <3>5. /\ lru' \in Seq(Nat) /\ IsInjective(lru') /\ Len(lru') = Len(q) + 1
          /\ ToSet(lru') = ToSet(q) \cup {elem[r]}
      BY <3>3, <3>4, PushFrontOf
    <3> QED
      BY <2>1, <3>1, <3>3, <3>5
  <2> QED
    BY <2>2, <2>3
<1>3. /\ pc' \in Seq({"arrive", "append", "move", "create", "done"}) /\ Len(pc') = Len(token)
      /\ \A s \in Records : pc'[s] = IF s = r THEN "done" ELSE pc[s]
  BY <1>0, PcStep DEF MoveToFront
<1>4. Records' = Records
  BY <1>1 DEF Records
<1>5. CollectType'
  BY <1>0, <1>1, <1>2, <1>3 DEF CollectType
<1>6. RecordInv'
  BY <1>0, <1>1, <1>3, <1>4 DEF RecordInv
<1>7. SessionInv'
  BY <1>0, <1>1, <1>2, <1>3, <1>4 DEF SessionInv
<1>8. ReadInv' /\ ReturnedOnce'
  BY <1>0, <1>1, <1>2, <1>4 DEF ReadInv, ReturnedOnce
<1>9. IndexesAgree'
  <2>1. \A e : Contains(lru', e) <=> Contains(lru, e)
    BY <1>0, <1>2, ListElements DEF CollectType
  <2> QED
    BY <1>0, <1>1, <1>2, <2>1 DEF IndexesAgree
<1> QED
  BY <1>5, <1>6, <1>7, <1>8, <1>9 DEF CollectInv

(* A handler makes a session, with the oldest one evicted from a full list. *)
LEMMA CreateCollect == ASSUME CollectInv, NEW r \in Records, CreateSession(r) PROVE CollectInv'
<1> DEFINE full == Len(lru) >= Cap
           room == IF full THEN Front(lru) ELSE lru
           kept == IF full THEN Without(lut, token[Last(lru)]) ELSE lut
<1>0. CollectType /\ RecordInv /\ SessionInv /\ ReadInv /\ IndexesAgree /\ ReturnedOnce
  BY DEF CollectInv
<1>1. PushSession(r, room, kept)
  BY DEF CreateSession
<1>2. /\ lru \in Seq(Nat) /\ IsInjective(lru) /\ Len(lru) \in Nat /\ Len(lru) <= Cap /\ Cap \in Nat \ {0}
      /\ \A t \in DOMAIN lut : lut[t] \in ToSet(lru) /\ token[lut[t]] = t
      /\ \A s \in ToSet(lru) : token[s] \notin twinned => token[s] \in DOMAIN lut /\ lut[token[s]] = s
  BY <1>0, ListElements, TracingAssumption DEF CollectType, IndexesAgree
<1>3. /\ room \in Seq(Nat) /\ IsInjective(room) /\ Len(room) < Cap /\ Len(room) \in Nat
      /\ ToSet(room) \subseteq ToSet(lru)
      /\ DOMAIN kept \subseteq DOMAIN lut
      /\ \A t \in DOMAIN kept : kept[t] = lut[t] /\ lut[t] \in ToSet(room)
      /\ \A s \in ToSet(room) : token[s] \notin twinned => token[s] \in DOMAIN kept
  <2>1. CASE ~full
    BY <1>2, <2>1
  <2>2. CASE full
    <3>1. Len(lru) > 0
      BY <1>2, <2>2
    <3>2. /\ room = Front(lru) /\ room \in Seq(Nat) /\ IsInjective(room) /\ Len(room) = Len(lru) - 1
          /\ ToSet(room) = ToSet(lru) \ {Last(lru)} /\ Last(lru) \in ToSet(lru)
      BY <1>2, <2>2, <3>1, FrontOf
    <3>3. /\ DOMAIN kept = DOMAIN lut \ {token[Last(lru)]}
          /\ \A t \in DOMAIN kept : kept[t] = lut[t]
      BY <2>2 DEF Without, Restrict
    <3> HIDE DEF room, kept
    <3>4. \A t \in DOMAIN kept : lut[t] # Last(lru)
      BY <1>2, <3>3
    <3>5. ASSUME NEW s \in ToSet(room), token[s] \notin twinned PROVE token[s] # token[Last(lru)]
      BY <1>2, <3>2, <3>5
    <3> QED
      BY <1>2, <3>1, <3>2, <3>3, <3>4, <3>5
  <2> QED
    BY <2>1, <2>2
<1> HIDE DEF room, kept, full
<1>4. /\ pc[r] = "create" /\ lru' = <<r>> \o room
      /\ lut' = [t \in DOMAIN kept \cup {token[r]} |-> IF t = token[r] THEN r ELSE kept[t]]
      /\ twinned' = twinned \cup ({token[r]} \cap DOMAIN lut)
      /\ UNCHANGED <<token, elem, rpc, taken, result>>
  BY <1>1 DEF PushSession, readerVars
<1>5. r \notin ToSet(lru) /\ r \in Nat /\ \A d \in Readers : r \notin taken[d]
  BY <1>0, <1>4 DEF SessionInv, Records
<1>6. /\ lru' \in Seq(Nat) /\ IsInjective(lru') /\ Len(lru') <= Cap
      /\ ToSet(lru') = ToSet(room) \cup {r}
  <2>1. r \notin ToSet(room)
    BY <1>3, <1>5
  <2>2. /\ Len(lru') = Len(room) + 1 /\ lru' \in Seq(Nat) /\ IsInjective(lru')
        /\ ToSet(lru') = ToSet(room) \cup {r}
    BY <1>3, <1>4, <1>5, <2>1, PushFrontOf
  <2> QED
    BY <1>2, <1>3, <2>2
<1>7. /\ pc' \in Seq({"arrive", "append", "move", "create", "done"}) /\ Len(pc') = Len(token)
      /\ \A s \in Records : pc'[s] = IF s = r THEN "done" ELSE pc[s]
  BY <1>0, <1>1, PcStep DEF PushSession
<1>8. /\ records' \in Seq(SUBSET Nat) /\ Len(records') = Len(token)
      /\ \A s \in Records : records'[s] = IF s = r THEN {r} ELSE records[s]
  <2>1. /\ records' = [records EXCEPT ![r] = {r}] /\ {r} \in SUBSET Nat
        /\ records \in Seq(SUBSET Nat) /\ Len(records) = Len(token) /\ r \in 1 .. Len(records)
    BY <1>0, <1>1, <1>5 DEF PushSession, CollectType, Records
  <2>2. /\ records' \in Seq(SUBSET Nat) /\ Len(records') = Len(records)
        /\ \A s \in 1 .. Len(records) : records'[s] = IF s = r THEN {r} ELSE records[s]
    BY <2>1, ExceptSeq
  <2> QED
    BY <2>1, <2>2 DEF Records
<1>9. Records' = Records
  BY <1>4 DEF Records
<1>10. records[r] = {} /\ \A s \in Records : r \notin records[s]
  BY <1>0, <1>4 DEF RecordInv
<1>11. CollectType'
  BY <1>0, <1>4, <1>6, <1>7, <1>8 DEF CollectType
<1>12. RecordInv'
  <2>1. \A s \in Records : pc'[s] \in {"arrive", "create"} => records'[s] = {}
    BY <1>0, <1>7, <1>8 DEF RecordInv
  <2>2. \A s \in Records : \A x \in records'[s] : x \in Records /\ pc'[x] \in {"move", "done"}
    BY <1>0, <1>7, <1>8 DEF RecordInv
  <2>3. \A s, t \in Records : s # t => records'[s] \cap records'[t] = {}
    BY <1>0, <1>8, <1>10 DEF RecordInv
  <2>4. \A x \in Records : pc'[x] \in {"append", "move"} => elem[x] \in Records /\ pc'[elem[x]] = "done"
    BY <1>0, <1>7 DEF RecordInv
  <2> QED
    BY <1>4, <1>9, <2>1, <2>2, <2>3, <2>4 DEF RecordInv
<1>13. SessionInv'
  BY <1>0, <1>3, <1>4, <1>5, <1>6, <1>7, <1>9 DEF SessionInv
<1>14. ReadInv'
  <2> SUFFICES ASSUME NEW d \in Readers, NEW x \in result[d]
               PROVE  \E s \in Records : /\ x \in records'[s] /\ s \notin ToSet(lru')
                                         /\ \A e \in Readers : s \notin taken[e]
    BY <1>4, <1>9 DEF ReadInv
  <2>1. PICK s \in Records : x \in records[s] /\ s \notin ToSet(lru) /\ \A e \in Readers : s \notin taken[e]
    BY <1>0 DEF ReadInv
  <2>2. s # r
    BY <1>10, <2>1
  <2> QED
    BY <1>3, <1>6, <1>8, <2>1, <2>2
<1>15. IndexesAgree'
  <2>1. \A t \in DOMAIN lut' : lut'[t] \in ToSet(lru') /\ token[lut'[t]] = t
    BY <1>2, <1>3, <1>4, <1>6
  <2>2. ASSUME NEW s \in ToSet(lru'), token[s] \notin twinned'
        PROVE  token[s] \in DOMAIN lut' /\ lut'[token[s]] = s
    <3>1. CASE s = r
      BY <1>4, <3>1
    <3>2. CASE s # r
      <4>1. s \in ToSet(room) /\ token[s] \in DOMAIN kept /\ kept[token[s]] = s
        BY <1>2, <1>3, <1>4, <1>6, <2>2, <3>2
      <4>2. token[s] # token[r]
        BY <1>3, <1>4, <2>2, <4>1
      <4> QED
        BY <1>4, <4>1, <4>2
    <3> QED
      BY <3>1, <3>2
  <2>3. \A t \in DOMAIN lut' : Contains(lru', lut'[t])
    BY <1>6, <2>1, ListElements
  <2> QED
    BY <1>4, <1>6, <2>1, <2>2, <2>3 DEF IndexesAgree
<1>16. ReturnedOnce'
  BY <1>0, <1>4 DEF ReturnedOnce
<1> QED
  BY <1>11, <1>12, <1>13, <1>14, <1>15, <1>16 DEF CollectInv

(* Taking sessions out of the list, for one reader. *)
LEMMA TakeOut ==
    ASSUME CollectInv, NEW d \in Readers, rpc[d] = "arrive", NEW T \in SUBSET ToSet(lru),
           taken' = [taken EXCEPT ![d] = T], rpc' = [rpc EXCEPT ![d] = "read"],
           lru' \in Seq(Nat), ToSet(lru') = ToSet(lru) \ T,
           UNCHANGED <<token, records, pc, elem, result>>
    PROVE  CollectType' /\ RecordInv' /\ SessionInv' /\ ReadInv' /\ ReturnedOnce'
<1>0. CollectType /\ RecordInv /\ SessionInv /\ ReadInv /\ ReturnedOnce
  BY DEF CollectInv
<1>1. Records' = Records
  BY DEF Records
<1>2. T \in SUBSET Records /\ T \in SUBSET Nat
  BY <1>0 DEF SessionInv, Records
<1>3. \A e \in Readers : taken'[e] = (IF e = d THEN T ELSE taken[e])
  BY <1>0 DEF CollectType
<1>4. CollectType'
  BY <1>0, <1>2 DEF CollectType
<1>5. RecordInv' /\ ReturnedOnce'
  BY <1>0, <1>1 DEF RecordInv, ReturnedOnce
<1>6. SessionInv'
  <2>1. \A s \in ToSet(lru') : s \in Records /\ pc[s] = "done"
    BY <1>0 DEF SessionInv
  <2>2. \A e \in Readers : \A s \in taken'[e] : s \in Records /\ pc[s] = "done" /\ s \notin ToSet(lru')
    BY <1>0, <1>3 DEF SessionInv
  <2>3. \A e, f \in Readers : e # f => taken'[e] \cap taken'[f] = {}
    BY <1>0, <1>3 DEF SessionInv
  <2>4. \A e \in Readers : rpc'[e] = "arrive" => taken'[e] = {}
    BY <1>0, <1>3 DEF SessionInv, CollectType
  <2> QED
    BY <1>1, <2>1, <2>2, <2>3, <2>4 DEF SessionInv
<1>7. ReadInv'
  BY <1>0, <1>1, <1>3 DEF ReadInv
<1> QED
  BY <1>4, <1>5, <1>6, <1>7

(* A reader takes out the session of an ID. *)
LEMMA TakeTokenCollect == ASSUME CollectInv, NEW d \in Readers, TakeToken(d) PROVE CollectInv'
<1> DEFINE w == Wanted[d]
           T == {lut[t] : t \in {w} \cap DOMAIN lut}
<1>1. /\ rpc[d] = "arrive" /\ taken' = [taken EXCEPT ![d] = T] /\ rpc' = [rpc EXCEPT ![d] = "read"]
      /\ lut' = Without(lut, w)
      /\ lru' = (IF w \in DOMAIN lut THEN RemoveFirst(lru, lut[w]) ELSE lru)
      /\ UNCHANGED <<token, records, pc, elem, twinned, result>>
  BY DEF TakeToken, writerVars
<1>2. /\ lru \in Seq(Nat) /\ IsInjective(lru) /\ Len(lru) \in Nat /\ Len(lru) <= Cap /\ Cap \in Nat
      /\ \A t \in DOMAIN lut : lut[t] \in ToSet(lru) /\ token[lut[t]] = t
      /\ \A s \in ToSet(lru) : token[s] \notin twinned => token[s] \in DOMAIN lut /\ lut[token[s]] = s
  BY ListElements, TracingAssumption DEF CollectInv, CollectType, IndexesAgree
<1>3. T \in SUBSET ToSet(lru)
  BY <1>2
<1>4. lru' \in Seq(Nat) /\ IsInjective(lru') /\ Len(lru') <= Cap /\ ToSet(lru') = ToSet(lru) \ T
  <2>1. CASE w \in DOMAIN lut
    <3>1. T = {lut[w]} /\ lut[w] \in ToSet(lru)
      BY <1>2, <2>1
    <3>2. /\ lru' \in Seq(Nat) /\ IsInjective(lru') /\ Len(lru') = Len(lru) - 1
          /\ ToSet(lru') = ToSet(lru) \ {lut[w]}
      BY <1>1, <1>2, <2>1, <3>1, RemoveFirstOf
    <3> QED
      BY <1>2, <3>1, <3>2
  <2>2. CASE w \notin DOMAIN lut
    BY <1>1, <1>2, <2>2
  <2> QED
    BY <2>1, <2>2
<1>5. DOMAIN lut' = DOMAIN lut \ {w} /\ \A t \in DOMAIN lut' : lut'[t] = lut[t]
  BY <1>1 DEF Without, Restrict
<1>6. \A x \in T : w \in DOMAIN lut /\ x = lut[w]
  OBVIOUS
<1>7. w \in DOMAIN lut => lut[w] \in T
  OBVIOUS
<1> HIDE DEF T, w
<1>8. CollectType' /\ RecordInv' /\ SessionInv' /\ ReadInv' /\ ReturnedOnce'
  BY <1>1, <1>3, <1>4, TakeOut
<1>9. IndexesAgree'
  <2>1. \A t \in DOMAIN lut' : lut'[t] \in ToSet(lru') /\ token[lut'[t]] = t
    BY <1>2, <1>4, <1>5, <1>6
  <2>2. ASSUME NEW s \in ToSet(lru'), token[s] \notin twinned
        PROVE  token[s] \in DOMAIN lut' /\ lut'[token[s]] = s
    BY <1>2, <1>4, <1>5, <1>7, <2>2
  <2>3. \A t \in DOMAIN lut' : Contains(lru', lut'[t])
    BY <1>4, <2>1, ListElements
  <2> QED
    BY <1>1, <1>4, <2>1, <2>2, <2>3 DEF IndexesAgree
<1> QED
  BY <1>8, <1>9 DEF CollectInv

(* A reader takes out everything. *)
LEMMA TakeAllCollect == ASSUME CollectInv, NEW d \in Readers, TakeAll(d) PROVE CollectInv'
<1>1. /\ rpc[d] = "arrive" /\ taken' = [taken EXCEPT ![d] = ToSet(lru)] /\ rpc' = [rpc EXCEPT ![d] = "read"]
      /\ lut' = <<>> /\ lru' = <<>> /\ UNCHANGED <<token, records, pc, elem, twinned, result>>
  BY DEF TakeAll, writerVars
<1>2. lru' \in Seq(Nat) /\ Len(lru') = 0 /\ IsInjective(lru') /\ ToSet(lru') = {}
  BY <1>1 DEF IsInjective, ToSet
<1>3. DOMAIN lut' = {}
  BY <1>1
<1>4. CollectType' /\ RecordInv' /\ SessionInv' /\ ReadInv' /\ ReturnedOnce'
  BY <1>1, <1>2, TakeOut
<1>5. IndexesAgree'
  BY <1>2, <1>3, TracingAssumption DEF IndexesAgree
<1> QED
  BY <1>4, <1>5 DEF CollectInv

(* A reader collects the records of a session that only it has. *)
LEMMA ReadCollect == ASSUME CollectInv, NEW d \in Readers, ReadSession(d) PROVE CollectInv'
<1>0. CollectType /\ RecordInv /\ SessionInv /\ ReadInv /\ IndexesAgree /\ ReturnedOnce
  BY DEF CollectInv
<1>1. PICK s \in taken[d] : /\ taken' = [taken EXCEPT ![d] = @ \ {s}]
                            /\ result' = [result EXCEPT ![d] = @ \cup records[s]]
  BY DEF ReadSession
<1>2. UNCHANGED <<token, lru, lut, records, pc, elem, twinned, rpc>>
  BY DEF ReadSession, writerVars
<1>3. s \in Records /\ s \notin ToSet(lru) /\ \A e \in Readers : e # d => s \notin taken[e]
  BY <1>0 DEF SessionInv
<1>4. records[s] \in SUBSET Nat
  BY <1>0, <1>3, ElementOfSeq DEF CollectType, Records
<1>5. /\ \A e \in Readers : taken'[e] = IF e = d THEN taken[d] \ {s} ELSE taken[e]
      /\ \A e \in Readers : result'[e] = IF e = d THEN result[d] \cup records[s] ELSE result[e]
  BY <1>0, <1>1 DEF CollectType
<1>6. Records' = Records
  BY <1>2 DEF Records
<1>7. CollectType'
  BY <1>0, <1>1, <1>2, <1>4 DEF CollectType
<1>8. RecordInv' /\ IndexesAgree'
  BY <1>0, <1>2, <1>6 DEF RecordInv, IndexesAgree
<1>9. SessionInv'
  BY <1>0, <1>2, <1>5, <1>6 DEF SessionInv
<1>10. ReadInv'
  BY <1>0, <1>2, <1>3, <1>5, <1>6 DEF ReadInv
<1>11. ReturnedOnce'
  <2>1. ASSUME NEW e \in Readers, e # d PROVE records[s] \cap result[e] = {}
    <3>1. ASSUME NEW x \in records[s], x \in result[e] PROVE FALSE
      <4>1. PICK t \in Records : x \in records[t] /\ t \notin taken[d]
        BY <1>0, <3>1 DEF ReadInv
      <4> QED
        BY <1>0, <1>3, <3>1, <4>1 DEF RecordInv
    <3> QED
      BY <3>1
  <2> QED
    BY <1>0, <1>5, <2>1 DEF ReturnedOnce
<1> QED
  BY <1>7, <1>8, <1>9, <1>10, <1>11 DEF CollectInv

(* A reader replies. *)
LEMMA ReplyCollect == ASSUME CollectInv, NEW d \in Readers, Reply(d) PROVE CollectInv'
<1>0. CollectType /\ RecordInv /\ SessionInv /\ ReadInv /\ IndexesAgree /\ ReturnedOnce
  BY DEF CollectInv
<1>1. /\ rpc' = [rpc EXCEPT ![d] = "done"]
      /\ UNCHANGED <<token, lru, lut, records, pc, elem, twinned, taken, result>>
  BY DEF Reply, writerVars
<1>2. Records' = Records
  BY <1>1 DEF Records
<1>3. CollectType'
  BY <1>0, <1>1 DEF CollectType
<1>4. RecordInv' /\ ReadInv' /\ IndexesAgree' /\ ReturnedOnce'
  BY <1>0, <1>1, <1>2 DEF RecordInv, ReadInv, IndexesAgree, ReturnedOnce
<1>5. SessionInv'
  BY <1>0, <1>1, <1>2 DEF SessionInv, CollectType
<1> QED
  BY <1>3, <1>4, <1>5 DEF CollectInv

(* Every step keeps the collector's structures in order. *)
LEMMA NextCollect == TagInv /\ HelperInv /\ CollectInv /\ [Next]_vars => CollectInv'
<1> SUFFICES ASSUME TagInv, HelperInv, CollectInv, [Next]_vars PROVE CollectInv'
  OBVIOUS
<1>1. ASSUME NEW n \in Counts, TraceMsgByName(n) PROVE UNCHANGED tracerVars
  BY <1>1 DEF TraceMsgByName
<1>2. CASE UnTraceMsgAll
  BY <1>2, CollectFrame DEF UnTraceMsgAll
<1>3. ASSUME NEW s \in Senders, getTraceConf(s) \/ FilterRejects(s) \/ MakeID(s) \/ AddSeqNum(s)
      PROVE  UNCHANGED tracerVars
  BY <1>3 DEF getTraceConf, FilterRejects, MakeID, AddSeqNum
<1>4. ASSUME NEW s \in Senders, RemoteHop(s) PROVE CollectInv'
  <2>1. PICK id \in Known(s) : Arrive(id)
    BY <1>4 DEF RemoteHop
  <2> QED
    BY <2>1, KnownIDs, ArriveCollect
<1>5. ASSUME NEW s \in Senders, traceMsg(s) PROVE UNCHANGED tracerVars
  BY <1>5 DEF traceMsg
<1>6. CASE HelperDelivers
  <2>1. CASE link = "up"
    <3>1. undelivered \in 1 .. Len(traced) /\ traced \in Seq(Nat \X Nat)
      BY <1>6 DEF HelperDelivers, Deliver, HelperInv
    <3>2. traced[undelivered] \in Nat \X Nat
      BY <3>1, ElementOfSeq
    <3> QED
      BY <1>6, <2>1, <3>2, ArriveCollect DEF HelperDelivers
  <2>2. CASE link # "up"
    BY <1>6, <2>2, CollectFrame DEF HelperDelivers
  <2> QED
    BY <2>1, <2>2
<1>7. CASE HelperRuns
  BY <1>7, CollectFrame DEF HelperRuns
<1>8. ASSUME NEW r \in DOMAIN token, Lookup(r) \/ AppendRecord(r) \/ MoveToFront(r) \/ CreateSession(r)
      PROVE  CollectInv'
  <2>1. r \in Records
    BY DEF CollectInv, CollectType, Records
  <2> QED
    BY <1>8, <2>1, LookupCollect, AppendCollect, MoveCollect, CreateCollect
<1>9. ASSUME NEW d \in Readers, TakeToken(d) \/ TakeAll(d) \/ ReadSession(d) \/ Reply(d)
      PROVE  CollectInv'
  BY <1>9, TakeTokenCollect, TakeAllCollect, ReadCollect, ReplyCollect
<1>10. CASE UNCHANGED vars
  BY <1>10, CollectFrame DEF vars
<1> QED
  BY <1>1, <1>2, <1>3, <1>4, <1>5, <1>6, <1>7, <1>8, <1>9, <1>10, CollectFrame DEF Next

(* Initially nothing is recorded. *)
LEMMA InitCollect == Init => HelperInv /\ CollectInv
<1> SUFFICES ASSUME Init PROVE HelperInv /\ CollectInv
  OBVIOUS
<1>1. HelperInv
  <2>1. traced \in Seq(Nat \X Nat) /\ tracedMsgChan \in Seq(Nat) /\ Len(traced) = 0 /\ Len(tracedMsgChan) = 0
    BY DEF Init, HelperInit
  <2> QED
    BY <2>1 DEF Init, HelperInit, HelperInv
<1>2. /\ token \in Seq(Nat \X Nat) /\ elem \in Seq(Nat \cup {None}) /\ records \in Seq(SUBSET Nat)
      /\ lru \in Seq(Nat) /\ pc \in Seq({"arrive", "append", "move", "create", "done"})
      /\ Len(token) = 0 /\ Len(elem) = 0 /\ Len(records) = 0 /\ Len(pc) = 0 /\ Len(lru) = 0
  BY DEF Init
<1>3. Records = {} /\ ToSet(lru) = {} /\ DOMAIN lut = {} /\ IsInjective(lru)
  BY <1>2 DEF Init, Records, ToSet, IsInjective
<1>4. CollectType
  BY <1>2 DEF Init, CollectType
<1>5. RecordInv /\ SessionInv /\ ReadInv /\ ReturnedOnce
  BY <1>3 DEF Init, RecordInv, SessionInv, ReadInv, ReturnedOnce
<1>6. IndexesAgree
  BY <1>2, <1>3, TracingAssumption DEF IndexesAgree
<1> QED
  BY <1>1, <1>4, <1>5, <1>6 DEF CollectInv

(* The invariant of the whole: IDs, the helper's records, the collector. *)
LEMMA SpecIInv == Spec => []IInv
<1>1. Init => IInv
  BY InitTag, InitFlow, InitCollect DEF IInv
<1>2. IInv /\ [Next]_vars => IInv'
  BY NextTag, NextHelper, NextFlow, NextCollect DEF IInv
<1> QED
  BY <1>1, <1>2, PTL DEF Spec

(* Every record that traceMsg accepted reaches the service once and in the order
   of acceptance, or is the one kept for a retry, or still in the buffer, or was
   lost under a send on a broken connection, whatever fails and is retried
   (msgTraceHelper.run and deliver), for every size of the buffer.          *)
THEOREM SpecDeliveredInOrder == Spec => []DeliveredInOrder
<1>1. IInv => DeliveredInOrder
  BY DEF IInv, FlowInv
<1> QED
  BY <1>1, SpecIInv, PTL

(* The list of sessions and the table of IDs agree, within the limit, whatever
   handlers, evictions and reads interleave (tracedMessageRecord.Handle and
   readTracedMsg.Handle), for any number of records, readers and IDs.       *)
THEOREM SpecIndexesAgree == Spec => []IndexesAgree
<1>1. IInv => IndexesAgree
  BY DEF IInv, CollectInv
<1> QED
  BY <1>1, SpecIInv, PTL

(* No record is returned to two readers, although sessions are read with no lock
   while handlers still append to them (readTracedMsg.Handle).              *)
THEOREM SpecReturnedOnce == Spec => []ReturnedOnce
<1>1. IInv => ReturnedOnce
  BY DEF IInv, CollectInv
<1> QED
  BY <1>1, SpecIInv, PTL

=============================================================================
