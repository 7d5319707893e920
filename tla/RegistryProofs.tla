--------------------------- MODULE RegistryProofs ---------------------------
(***************************************************************************)
(* Proofs about the two kinds of registries.  The root registry keeps its  *)
(* live servers, for any number of services, incarnations and crashes; the *)
(* daemons of a LAN keep the services of their nodes, for any number of    *)
(* nodes, services and restarts.                                           *)
(***************************************************************************)
EXTENDS RootRegistry, LANRegistry, WellFoundedInduction, TLAPS

-----------------------------------------------------------------------------
(* The root registry.                                                      *)

(* The line that is saved for the server at address a; the lines of q are of the
   servers in S; the line of a is the last one for its key.                 *)
LineOf(a) == makeServiceInfo(KeyOf[a], Info(a))
Lists(q, S) == \A i \in 1 .. Len(q) : \E a \in S : q[i] = LineOf(a)
LastOf(q, a) ==
    \E i \in 1 .. Len(q) : q[i] = LineOf(a) /\ \A j \in 1 .. Len(q) : j > i => q[j].key # KeyOf[a]

(* What is registered, looked at or saved has started, and has its own key; of a
   provider one incarnation is up at a time.                                *)
Born == Addrs \ unborn
SlotInv ==
    \A k \in Keys : providers[k] # None => \E a \in Born : providers[k] = Info(a) /\ KeyOf[a] = k
LookInv == cur # None => \E a \in Born : cur.info = Info(a) /\ cur.key = KeyOf[a]
FileInv == Lists(infos, Born) /\ Lists(updating, Born) /\ Lists(record, Born)
ServerInv ==
    /\ \A a \in Addrs : reg[a] # "none" => a \in Born
    /\ \A a, b \in up : KeyOf[a] = KeyOf[b] => a = b

(* Where registryCheckSaver is. *)
SaverInv ==
    /\ todo \subseteq Present
    /\ cur = None <=> pc \notin {"ping", "delete"}
    /\ pc = "delete" => cur.info.addr \notin up
    /\ pc = "sleep" => cand = {} /\ infos = <<>>
    /\ pc \in {"sleep", "write"} => todo = {}
    /\ pc = "write" => /\ Len(updating) <= Len(infos)
                       /\ \A i \in 1 .. Len(updating) : updating[i] = infos[i]

(* A registry that has ended does nothing, and only what is saved will be kept. *)
DeadInv ==
    ~alive => /\ pc = "sleep" /\ dels = {} /\ \A a \in Addrs : reg[a] = "none"
              /\ kept \subseteq durable

(* Nobody else can change the slot of a server that must be kept. *)
KeptInv ==
    \A a \in kept :
        /\ reg[a] = "none"
        /\ \A b \in Addrs \ {a} : KeyOf[b] = KeyOf[a] =>
             b \notin dels /\ reg[b] = "none" /\ (cur # None => cur.info.addr # b)

(* A server that was kept when the walk began is ahead of the walk, looked at, or
   its line is the last one of its key.                                     *)
WalkInv ==
    \A a \in cand :
        \/ LastOf(infos, a)
        \/ pc \in {"walk", "ping", "delete"} /\ KeyOf[a] \in todo
        \/ cur # None /\ cur.info = Info(a)

(* The record holds what a finished save covers. *)
DurableInv == \A a \in durable : LastOf(record, a)

(* The inductive invariant. *)
IInv ==
    /\ TypeOK /\ SlotInv /\ LookInv /\ FileInv /\ ServerInv /\ SaverInv
    /\ DeadInv /\ KeptInv /\ WalkInv /\ DurableInv /\ LiveKept

-----------------------------------------------------------------------------
(* A nonempty set of positions has a greatest one. *)
LEMMA MaxIn ==
    ASSUME NEW n \in Nat, NEW S \in SUBSET (1 .. n), S # {}
    PROVE  Max(S) \in S /\ \A i \in S : i <= Max(S)
<1> DEFINE D == {n - i : i \in S}
<1>1. D \subseteq Nat /\ D # {}
  <2>1. \A i \in S : i \in 1 .. n /\ n - i \in Nat
    OBVIOUS
  <2>2. PICK i \in S : TRUE
    OBVIOUS
  <2> QED
    BY <2>1, <2>2
<1>2. PICK d \in D : \A e \in D : ~(<<e, d>> \in OpToRel(<, Nat))
  BY <1>1, WFMin, NatLessThanWellFounded
<1>3. \A e \in D : ~(e < d)
  BY <1>1, <1>2 DEF OpToRel
<1>4. PICK i \in S : d = n - i
  OBVIOUS
<1>5. \A j \in S : i >= j
  BY <1>3, <1>4
<1> QED
  BY <1>5 DEF Max

(* Parsing undoes what makeServiceInfo has written. *)
LEMMA ParseLineOf ==
    ASSUME NEW a \in Addrs
    PROVE  /\ LineOf(a).key = KeyOf[a] /\ ParseLine(LineOf(a)) = Info(a)
           /\ LineOf(a) \in Line /\ Info(a) \in providerInfo /\ Info(a).addr = a
<1>1. Info(a) \in providerInfo /\ Info(a).addr = a /\ Info(a).proxied = (a \in Proxied)
  BY DEF Info, providerInfo
<1>2. LineOf(a).key = KeyOf[a] /\ LineOf(a).addr = Text(Info(a))
  BY DEF LineOf, makeServiceInfo
<1>3. LineOf(a) \in Line
  BY <1>1, RootRegistryAssumption DEF LineOf, makeServiceInfo, Line
<1>4. CASE a \in Proxied
  <2>1. Text(Info(a)) = <<a, "P">>
    BY <1>1, <1>4 DEF Text
  <2>2. Last(<<a, "P">>) = "P" /\ Head(Front(<<a, "P">>)) = a
    BY DEF Last, Front
  <2> QED
    BY <1>1, <1>2, <1>3, <1>4, <2>1, <2>2 DEF ParseLine, Info
<1>5. CASE a \notin Proxied
  <2>1. Text(Info(a)) = <<a>>
    BY <1>1, <1>5 DEF Text
  <2>2. Last(<<a>>) = a /\ Head(<<a>>) = a /\ a # "P"
    <3>1. a # "P"
      BY RootRegistryAssumption
    <3> QED
      BY <3>1 DEF Last
  <2>3. Info(a) = [addr |-> a, proxied |-> FALSE]
    <3>1. (a \in Proxied) = FALSE
      BY <1>5
    <3> QED
      BY <3>1, Zenon DEF Info
  <2>4. ParseLine(LineOf(a)) = [addr |-> a, proxied |-> FALSE]
    BY <1>2, <2>1, <2>2 DEF ParseLine
  <2> QED
    BY <1>1, <1>2, <1>3, <2>3, <2>4
<1> QED
  BY <1>4, <1>5

(* A restarted registry finds the server whose line is the last of its key. *)
LEMMA LoadLast ==
    ASSUME NEW q \in Seq(Line), NEW a \in Addrs, LastOf(q, a)
    PROVE  LoadRecord(q)[KeyOf[a]] = Info(a)
<1> DEFINE mine == {i \in 1 .. Len(q) : q[i].key = KeyOf[a]}
<1>1. PICK i \in 1 .. Len(q) : q[i] = LineOf(a) /\ \A j \in 1 .. Len(q) : j > i => q[j].key # KeyOf[a]
  BY DEF LastOf
<1>2. i \in mine /\ \A j \in mine : j <= i
  BY <1>1, ParseLineOf
<1>3. Max(mine) \in mine /\ \A j \in mine : j <= Max(mine)
  <2>1. Len(q) \in Nat
    OBVIOUS
  <2> QED
    BY <1>2, <2>1, MaxIn
<1>4. Max(mine) = i
  BY <1>2, <1>3
<1>5. KeyOf[a] \in Keys
  BY RootRegistryAssumption
<1> QED
  BY <1>1, <1>2, <1>4, <1>5, ParseLineOf DEF LoadRecord

(* Whatever it finds is a server of the file, under its own key. *)
LEMMA LoadLists ==
    ASSUME NEW q \in Seq(Line), NEW S \in SUBSET Addrs, Lists(q, S), NEW k \in Keys
    PROVE  LoadRecord(q)[k] = None \/ \E a \in S : LoadRecord(q)[k] = Info(a) /\ KeyOf[a] = k
<1> DEFINE mine == {i \in 1 .. Len(q) : q[i].key = k}
<1>1. CASE mine = {}
  BY <1>1 DEF LoadRecord
<1>2. CASE mine # {}
  <2>1. Max(mine) \in mine
    <3>1. Len(q) \in Nat
      OBVIOUS
    <3> QED
      BY <1>2, <3>1, MaxIn
  <2>2. PICK a \in S : q[Max(mine)] = LineOf(a)
    BY <2>1 DEF Lists
  <2>3. LoadRecord(q)[k] = ParseLine(q[Max(mine)])
    BY <1>2 DEF LoadRecord
  <2> QED
    BY <2>1, <2>2, <2>3, ParseLineOf
<1> QED
  BY <1>1, <1>2

(* A line added to the file is the last one of its key and of no other. *)
LEMMA AppendLine ==
    ASSUME NEW q \in Seq(Line), NEW S \in SUBSET Addrs, NEW b \in S
    PROVE  /\ Append(q, LineOf(b)) \in Seq(Line)
           /\ Lists(q, S) => Lists(Append(q, LineOf(b)), S)
           /\ LastOf(Append(q, LineOf(b)), b)
           /\ \A a \in Addrs : LastOf(q, a) /\ KeyOf[a] # KeyOf[b] => LastOf(Append(q, LineOf(b)), a)
<1> DEFINE r == Append(q, LineOf(b))
<1>1. LineOf(b) \in Line /\ LineOf(b).key = KeyOf[b]
  BY ParseLineOf
<1>2. /\ r \in Seq(Line) /\ Len(q) \in Nat /\ Len(r) = Len(q) + 1
      /\ \A i \in 1 .. Len(q) : r[i] = q[i]
      /\ r[Len(q) + 1] = LineOf(b)
  BY <1>1
<1> HIDE DEF r
<1>3. Lists(q, S) => Lists(r, S)
  <2>1. ASSUME Lists(q, S), NEW i \in 1 .. Len(r) PROVE \E a \in S : r[i] = LineOf(a)
    <3>1. CASE i \in 1 .. Len(q)
      BY <1>2, <2>1, <3>1 DEF Lists
    <3>2. CASE i = Len(q) + 1
      BY <1>2, <3>2
    <3> QED
      BY <1>2, <3>1, <3>2
  <2> QED
    BY <2>1 DEF Lists
<1>4. LastOf(r, b)
  <2>1. Len(r) \in 1 .. Len(r) /\ r[Len(r)] = LineOf(b) /\ \A j \in 1 .. Len(r) : ~(j > Len(r))
    BY <1>2
  <2> QED
    BY <2>1 DEF LastOf
<1>5. ASSUME NEW a \in Addrs, LastOf(q, a), KeyOf[a] # KeyOf[b] PROVE LastOf(r, a)
  <2>1. PICK i \in 1 .. Len(q) : q[i] = LineOf(a) /\ \A j \in 1 .. Len(q) : j > i => q[j].key # KeyOf[a]
    BY <1>5 DEF LastOf
  <2>2. i \in 1 .. Len(r) /\ r[i] = LineOf(a)
    BY <1>2, <2>1
  <2>3. ASSUME NEW j \in 1 .. Len(r), j > i PROVE r[j].key # KeyOf[a]
    <3>1. CASE j \in 1 .. Len(q)
      BY <1>2, <2>1, <2>3, <3>1
    <3>2. CASE j = Len(q) + 1
      BY <1>1, <1>2, <1>5, <3>2
    <3> QED
      BY <1>2, <3>1, <3>2
  <2> QED
    BY <2>2, <2>3 DEF LastOf
<1> QED
  BY <1>2, <1>3, <1>4, <1>5 DEF r

(* The invariant holds initially. *)
LEMMA InitIInv == Init => IInv
<1> SUFFICES ASSUME Init PROVE IInv
  OBVIOUS
<1>1. TypeOK
  BY RootRegistryAssumption DEF Init, TypeOK
<1>2. SlotInv /\ LookInv /\ FileInv /\ ServerInv
  BY DEF Init, SlotInv, LookInv, FileInv, Lists, ServerInv, Born
<1>3. SaverInv /\ DeadInv /\ KeptInv /\ WalkInv /\ DurableInv /\ LiveKept
  BY DEF Init, SaverInv, DeadInv, KeptInv, WalkInv, DurableInv, LiveKept
<1> QED
  BY <1>1, <1>2, <1>3 DEF IInv

(* Every step preserves the invariant: one part per action of servers, handlers,
   checkSaver and process.                                                  *)
LEMMA NextIInv == IInv /\ [Next]_vars => IInv'
<1> SUFFICES ASSUME IInv, [Next]_vars PROVE IInv'
  OBVIOUS
<1> USE RootRegistryAssumption
<1>0. /\ TypeOK /\ SlotInv /\ LookInv /\ FileInv /\ ServerInv /\ SaverInv
      /\ DeadInv /\ KeptInv /\ WalkInv /\ DurableInv /\ LiveKept
  BY DEF IInv
<1>1. ASSUME NEW a \in Addrs, regServiceWAN(a) PROVE IInv'
  <2>1. TypeOK'
    BY <1>0, <1>1 DEF regServiceWAN, TypeOK, registryVars, saverVars, fileVars, history
  <2>2. SlotInv'
    BY <1>0, <1>1 DEF regServiceWAN, SlotInv, Born, TypeOK, registryVars, saverVars, fileVars, history
  <2>3. LookInv'
    BY <1>0, <1>1 DEF regServiceWAN, LookInv, Born, TypeOK, registryVars, saverVars, fileVars, history
  <2>4. FileInv'
    BY <1>0, <1>1 DEF regServiceWAN, FileInv, Lists, Born, TypeOK, registryVars, saverVars, fileVars, history
  <2>5. ServerInv'
    BY <1>0, <1>1 DEF regServiceWAN, ServerInv, Born, TypeOK, registryVars, saverVars, fileVars, history
  <2>6. SaverInv'
    <3>1. pc = "delete" => cur.info.addr # a
      BY <1>0, <1>1, ParseLineOf DEF regServiceWAN, LookInv, SaverInv, Born, TypeOK
    <3> QED
      BY <1>0, <1>1, <3>1 DEF regServiceWAN, SaverInv, Present, registryVars, saverVars, fileVars, history
  <2>7. DeadInv'
    BY <1>0, <1>1 DEF regServiceWAN, DeadInv, TypeOK, registryVars, saverVars, fileVars, history
  <2>8. KeptInv'
    BY <1>0, <1>1 DEF regServiceWAN, KeptInv, TypeOK, ServerInv, DeadInv, registryVars, saverVars,
         fileVars, history
  <2>9. WalkInv'
    BY <1>0, <1>1 DEF regServiceWAN, WalkInv, TypeOK, KeptInv, SaverInv, registryVars, saverVars,
         fileVars, history
  <2>10. DurableInv'
    BY <1>0, <1>1 DEF regServiceWAN, DurableInv, TypeOK, registryVars, saverVars, fileVars, history
  <2>11. LiveKept'
    BY <1>0, <1>1 DEF regServiceWAN, LiveKept, TypeOK, KeptInv, DeadInv, registryVars, saverVars,
         fileVars, history
  <2> QED
    BY <2>1, <2>2, <2>3, <2>4, <2>5, <2>6, <2>7, <2>8, <2>9, <2>10, <2>11 DEF IInv
<1>2. ASSUME NEW a \in Addrs, delServiceWAN(a) PROVE IInv'
  <2>1. TypeOK'
    BY <1>0, <1>2 DEF delServiceWAN, TypeOK, registryVars, saverVars, fileVars
  <2>2. SlotInv'
    BY <1>0, <1>2 DEF delServiceWAN, SlotInv, Born, TypeOK, registryVars, saverVars, fileVars
  <2>3. LookInv'
    BY <1>0, <1>2 DEF delServiceWAN, LookInv, Born, TypeOK, registryVars, saverVars, fileVars
  <2>4. FileInv'
    BY <1>0, <1>2 DEF delServiceWAN, FileInv, Lists, Born, TypeOK, registryVars, saverVars, fileVars
  <2>5. ServerInv'
    BY <1>0, <1>2 DEF delServiceWAN, ServerInv, Born, TypeOK, registryVars, saverVars, fileVars
  <2>6. SaverInv'
    BY <1>0, <1>2 DEF delServiceWAN, SaverInv, Present, TypeOK, DeadInv, registryVars, saverVars, fileVars
  <2>7. DeadInv'
    BY <1>0, <1>2 DEF delServiceWAN, DeadInv, TypeOK, registryVars, saverVars, fileVars
  <2>8. KeptInv'
    BY <1>0, <1>2 DEF delServiceWAN, KeptInv, TypeOK, ServerInv, DeadInv, registryVars, saverVars, fileVars
  <2>9. WalkInv'
    BY <1>0, <1>2 DEF delServiceWAN, WalkInv, TypeOK, KeptInv, SaverInv, registryVars, saverVars, fileVars
  <2>10. DurableInv'
    BY <1>0, <1>2 DEF delServiceWAN, DurableInv, TypeOK, registryVars, saverVars, fileVars
  <2>11. LiveKept'
    BY <1>0, <1>2 DEF delServiceWAN, LiveKept, TypeOK, KeptInv, DeadInv, registryVars, saverVars, fileVars
  <2> QED
    BY <2>1, <2>2, <2>3, <2>4, <2>5, <2>6, <2>7, <2>8, <2>9, <2>10, <2>11 DEF IInv
<1>3. ASSUME NEW a \in Addrs, ServerDies(a) PROVE IInv'
  <2>1. TypeOK'
    BY <1>0, <1>3 DEF ServerDies, TypeOK, registryVars, saverVars, fileVars
  <2>2. SlotInv'
    BY <1>0, <1>3 DEF ServerDies, SlotInv, Born, TypeOK, registryVars, saverVars, fileVars
  <2>3. LookInv'
    BY <1>0, <1>3 DEF ServerDies, LookInv, Born, TypeOK, registryVars, saverVars, fileVars
  <2>4. FileInv'
    BY <1>0, <1>3 DEF ServerDies, FileInv, Lists, Born, TypeOK, registryVars, saverVars, fileVars
  <2>5. ServerInv'
    BY <1>0, <1>3 DEF ServerDies, ServerInv, Born, TypeOK, registryVars, saverVars, fileVars
  <2>6. SaverInv'
    BY <1>0, <1>3 DEF ServerDies, SaverInv, Present, TypeOK, DeadInv, registryVars, saverVars, fileVars
  <2>7. DeadInv'
    BY <1>0, <1>3 DEF ServerDies, DeadInv, TypeOK, registryVars, saverVars, fileVars
  <2>8. KeptInv'
    BY <1>0, <1>3 DEF ServerDies, KeptInv, TypeOK, ServerInv, DeadInv, registryVars, saverVars, fileVars
  <2>9. WalkInv'
    BY <1>0, <1>3 DEF ServerDies, WalkInv, TypeOK, KeptInv, SaverInv, registryVars, saverVars, fileVars
  <2>10. DurableInv'
    BY <1>0, <1>3 DEF ServerDies, DurableInv, TypeOK, registryVars, saverVars, fileVars
  <2>11. LiveKept'
    BY <1>0, <1>3 DEF ServerDies, LiveKept, TypeOK, KeptInv, DeadInv, registryVars, saverVars, fileVars
  <2> QED
    BY <2>1, <2>2, <2>3, <2>4, <2>5, <2>6, <2>7, <2>8, <2>9, <2>10, <2>11 DEF IInv
<1>4. ASSUME NEW a \in Addrs, RegPing(a) PROVE IInv'
  <2>1. TypeOK'
    BY <1>0, <1>4 DEF RegPing, TypeOK, registryVars, saverVars, fileVars, history
  <2>2. SlotInv'
    BY <1>0, <1>4 DEF RegPing, SlotInv, Born, TypeOK, registryVars, saverVars, fileVars, history
  <2>3. LookInv'
    BY <1>0, <1>4 DEF RegPing, LookInv, Born, TypeOK, registryVars, saverVars, fileVars, history
  <2>4. FileInv'
    BY <1>0, <1>4 DEF RegPing, FileInv, Lists, Born, TypeOK, registryVars, saverVars, fileVars, history
  <2>5. ServerInv'
    BY <1>0, <1>4 DEF RegPing, ServerInv, Born, TypeOK, registryVars, saverVars, fileVars, history
  <2>6. SaverInv'
    BY <1>0, <1>4 DEF RegPing, SaverInv, Present, TypeOK, DeadInv, registryVars, saverVars, fileVars, history
  <2>7. DeadInv'
    BY <1>0, <1>4 DEF RegPing, DeadInv, TypeOK, registryVars, saverVars, fileVars, history
  <2>8. KeptInv'
    BY <1>0, <1>4 DEF RegPing, KeptInv, TypeOK, ServerInv, DeadInv, registryVars, saverVars, fileVars, history
  <2>9. WalkInv'
    BY <1>0, <1>4 DEF RegPing, WalkInv, TypeOK, KeptInv, SaverInv, registryVars, saverVars, fileVars, history
  <2>10. DurableInv'
    BY <1>0, <1>4 DEF RegPing, DurableInv, TypeOK, registryVars, saverVars, fileVars, history
  <2>11. LiveKept'
    BY <1>0, <1>4 DEF RegPing, LiveKept, TypeOK, KeptInv, DeadInv, registryVars, saverVars, fileVars, history
  <2> QED
    BY <2>1, <2>2, <2>3, <2>4, <2>5, <2>6, <2>7, <2>8, <2>9, <2>10, <2>11 DEF IInv
<1>5. ASSUME NEW a \in Addrs, RegUnreachable(a) PROVE IInv'
  <2>1. TypeOK'
    <3>1. a \notin kept
      BY <1>0, <1>5 DEF RegUnreachable, KeptInv
    <3> QED
      BY <1>0, <1>5, <3>1 DEF RegUnreachable, TypeOK, registryVars, saverVars, fileVars, history
  <2>2. SlotInv'
    BY <1>0, <1>5 DEF RegUnreachable, SlotInv, Born, TypeOK, registryVars, saverVars, fileVars, history
  <2>3. LookInv'
    BY <1>0, <1>5 DEF RegUnreachable, LookInv, Born, TypeOK, registryVars, saverVars, fileVars, history
  <2>4. FileInv'
    BY <1>0, <1>5 DEF RegUnreachable, FileInv, Lists, Born, TypeOK, registryVars, saverVars, fileVars, history
  <2>5. ServerInv'
    BY <1>0, <1>5 DEF RegUnreachable, ServerInv, Born, TypeOK, registryVars, saverVars, fileVars, history
  <2>6. SaverInv'
    BY <1>0, <1>5 DEF RegUnreachable, SaverInv, Present, TypeOK, DeadInv, registryVars, saverVars,
         fileVars, history
  <2>7. DeadInv'
    BY <1>0, <1>5 DEF RegUnreachable, DeadInv, TypeOK, registryVars, saverVars, fileVars, history
  <2>8. KeptInv'
    BY <1>0, <1>5 DEF RegUnreachable, KeptInv, TypeOK, ServerInv, DeadInv, registryVars, saverVars,
         fileVars, history
  <2>9. WalkInv'
    BY <1>0, <1>5 DEF RegUnreachable, WalkInv, TypeOK, KeptInv, SaverInv, registryVars, saverVars,
         fileVars, history
  <2>10. DurableInv'
    BY <1>0, <1>5 DEF RegUnreachable, DurableInv, TypeOK, registryVars, saverVars, fileVars, history
  <2>11. LiveKept'
    BY <1>0, <1>5 DEF RegUnreachable, LiveKept, TypeOK, KeptInv, DeadInv, registryVars, saverVars,
         fileVars, history
  <2> QED
    BY <2>1, <2>2, <2>3, <2>4, <2>5, <2>6, <2>7, <2>8, <2>9, <2>10, <2>11 DEF IInv
<1>6. ASSUME NEW a \in Addrs, RegInsert(a) PROVE IInv'
  <2>0. a \in Born /\ KeyOf[a] \in Keys /\ Info(a) \in providerInfo /\ Info(a) # None
    BY <1>0, <1>6, ParseLineOf DEF RegInsert, ServerInv, providerInfo
  <2>1. TypeOK'
    BY <1>0, <1>6, <2>0 DEF RegInsert, TypeOK, MayVisit, fileVars
  <2>2. SlotInv'
    BY <1>0, <1>6, <2>0 DEF RegInsert, SlotInv, Born, TypeOK
  <2>3. LookInv'
    BY <1>0, <1>6 DEF RegInsert, LookInv, Born, TypeOK, fileVars
  <2>4. FileInv'
    BY <1>0, <1>6 DEF RegInsert, FileInv, Lists, Born, TypeOK, fileVars
  <2>5. ServerInv'
    BY <1>0, <1>6 DEF RegInsert, ServerInv, Born, TypeOK, fileVars
  <2>6. SaverInv'
    <3>1. Present' = Present \cup {KeyOf[a]}
      BY <1>0, <1>6, <2>0 DEF RegInsert, Present, TypeOK
    <3> QED
      BY <1>0, <1>6, <3>1 DEF RegInsert, SaverInv, MayVisit, fileVars
  <2>7. DeadInv'
    BY <1>0, <1>6 DEF RegInsert, DeadInv, TypeOK, fileVars
  <2>8. KeptInv'
    BY <1>0, <1>6 DEF RegInsert, KeptInv, TypeOK, Rivals, ServerInv, DeadInv, fileVars
  <2>9. WalkInv'
    BY <1>0, <1>6 DEF RegInsert, WalkInv, TypeOK, KeptInv, SaverInv, MayVisit, fileVars
  <2>10. DurableInv'
    BY <1>0, <1>6 DEF RegInsert, DurableInv, TypeOK, fileVars
  <2>11. LiveKept'
    BY <1>0, <1>6 DEF RegInsert, LiveKept, TypeOK, KeptInv, DeadInv, fileVars
  <2> QED
    BY <2>1, <2>2, <2>3, <2>4, <2>5, <2>6, <2>7, <2>8, <2>9, <2>10, <2>11 DEF IInv
<1>7. ASSUME NEW a \in Addrs, delHandle(a) PROVE IInv'
  <2>1. TypeOK'
    BY <1>0, <1>7 DEF delHandle, TypeOK, fileVars, history
  <2>2. SlotInv'
    BY <1>0, <1>7 DEF delHandle, SlotInv, Born, TypeOK, fileVars, history
  <2>3. LookInv'
    BY <1>0, <1>7 DEF delHandle, LookInv, Born, TypeOK, fileVars, history
  <2>4. FileInv'
    BY <1>0, <1>7 DEF delHandle, FileInv, Lists, Born, TypeOK, fileVars, history
  <2>5. ServerInv'
    BY <1>0, <1>7 DEF delHandle, ServerInv, Born, TypeOK, fileVars, history
  <2>6. SaverInv'
    BY <1>0, <1>7 DEF delHandle, SaverInv, Present, TypeOK, DeadInv, fileVars, history
  <2>7. DeadInv'
    BY <1>0, <1>7 DEF delHandle, DeadInv, TypeOK, fileVars, history
  <2>8. KeptInv'
    BY <1>0, <1>7 DEF delHandle, KeptInv, TypeOK, ServerInv, DeadInv, fileVars, history
  <2>9. WalkInv'
    BY <1>0, <1>7 DEF delHandle, WalkInv, TypeOK, KeptInv, SaverInv, fileVars, history
  <2>10. DurableInv'
    BY <1>0, <1>7 DEF delHandle, DurableInv, TypeOK, fileVars, history
  <2>11. LiveKept'
    BY <1>0, <1>7 DEF delHandle, LiveKept, TypeOK, KeptInv, DeadInv, fileVars, history
  <2> QED
    BY <2>1, <2>2, <2>3, <2>4, <2>5, <2>6, <2>7, <2>8, <2>9, <2>10, <2>11 DEF IInv
<1>8. ASSUME NEW a \in Addrs, Age(a) PROVE IInv'
  <2>1. TypeOK'
    BY <1>0, <1>8 DEF Age, TypeOK, serverVars, saverVars, fileVars, history
  <2>2. SlotInv'
    BY <1>0, <1>8 DEF Age, SlotInv, Born, TypeOK, serverVars, saverVars, fileVars, history
  <2>3. LookInv'
    BY <1>0, <1>8 DEF Age, LookInv, Born, TypeOK, serverVars, saverVars, fileVars, history
  <2>4. FileInv'
    BY <1>0, <1>8 DEF Age, FileInv, Lists, Born, TypeOK, serverVars, saverVars, fileVars, history
  <2>5. ServerInv'
    BY <1>0, <1>8 DEF Age, ServerInv, Born, TypeOK, serverVars, saverVars, fileVars, history
  <2>6. SaverInv'
    BY <1>0, <1>8 DEF Age, SaverInv, Present, TypeOK, DeadInv, serverVars, saverVars, fileVars, history
  <2>7. DeadInv'
    BY <1>0, <1>8 DEF Age, DeadInv, TypeOK, serverVars, saverVars, fileVars, history
  <2>8. KeptInv'
    BY <1>0, <1>8 DEF Age, KeptInv, TypeOK, ServerInv, DeadInv, serverVars, saverVars, fileVars, history
  <2>9. WalkInv'
    BY <1>0, <1>8 DEF Age, WalkInv, TypeOK, KeptInv, SaverInv, serverVars, saverVars, fileVars, history
  <2>10. DurableInv'
    BY <1>0, <1>8 DEF Age, DurableInv, TypeOK, serverVars, saverVars, fileVars, history
  <2>11. LiveKept'
    BY <1>0, <1>8 DEF Age, LiveKept, TypeOK, KeptInv, DeadInv, serverVars, saverVars, fileVars, history
  <2> QED
    BY <2>1, <2>2, <2>3, <2>4, <2>5, <2>6, <2>7, <2>8, <2>9, <2>10, <2>11 DEF IInv
<1>9. ASSUME WalkStart PROVE IInv'
  <2>1. TypeOK'
    BY <1>0, <1>9 DEF WalkStart, TypeOK, Present, serverVars, registryVars, fileVars
  <2>2. SlotInv'
    BY <1>0, <1>9 DEF WalkStart, SlotInv, Born, TypeOK, serverVars, registryVars, fileVars
  <2>3. LookInv'
    BY <1>0, <1>9 DEF WalkStart, LookInv, Born, TypeOK, serverVars, registryVars, fileVars
  <2>4. FileInv'
    BY <1>0, <1>9 DEF WalkStart, FileInv, Lists, Born, TypeOK, serverVars, registryVars, fileVars
  <2>5. ServerInv'
    BY <1>0, <1>9 DEF WalkStart, ServerInv, Born, TypeOK, serverVars, registryVars, fileVars
  <2>6. SaverInv'
    BY <1>0, <1>9 DEF WalkStart, SaverInv, Present, TypeOK, DeadInv, serverVars, registryVars, fileVars
  <2>7. DeadInv'
    BY <1>0, <1>9 DEF WalkStart, DeadInv, TypeOK, serverVars, registryVars, fileVars
  <2>8. KeptInv'
    BY <1>0, <1>9 DEF WalkStart, KeptInv, TypeOK, ServerInv, DeadInv, serverVars, registryVars, fileVars
  <2>9. WalkInv'
    <3>1. \A a \in kept : KeyOf[a] \in Present
      BY <1>0, <1>9, ParseLineOf DEF WalkStart, LiveKept, TypeOK, Present, providerInfo
    <3> QED
      BY <1>9, <3>1 DEF WalkStart, WalkInv
  <2>10. DurableInv'
    BY <1>0, <1>9 DEF WalkStart, DurableInv, TypeOK, serverVars, registryVars, fileVars
  <2>11. LiveKept'
    BY <1>0, <1>9 DEF WalkStart, LiveKept, TypeOK, KeptInv, DeadInv, serverVars, registryVars, fileVars
  <2> QED
    BY <2>1, <2>2, <2>3, <2>4, <2>5, <2>6, <2>7, <2>8, <2>9, <2>10, <2>11 DEF IInv
<1>10. ASSUME NEW k \in Keys, walkProviders(k) PROVE IInv'
  <2>a. alive /\ cur = None /\ providers[k] # None
    BY <1>0, <1>10 DEF walkProviders, DeadInv, SaverInv, Present
  <2>b. PICK b \in Born : providers[k] = Info(b) /\ KeyOf[b] = k
    BY <1>0, <2>a DEF SlotInv
  <2>c. b \in Addrs /\ Info(b) \in providerInfo /\ Info(b).addr = b
    BY ParseLineOf DEF Born
  <2>d. cur' = [key |-> k, info |-> Info(b), expired |-> b \in aged]
    BY <1>10, <2>b, <2>c DEF walkProviders
  <2>e. cur' \in [key : Keys, info : providerInfo, expired : BOOLEAN]
    BY <2>c, <2>d
  <2>f. cur' # None /\ cur'.info = Info(b) /\ cur'.key = k
    BY <2>d, <2>e DEF providerInfo
  <2>1. TypeOK'
    BY <1>0, <1>10, <2>e DEF walkProviders, TypeOK, serverVars, registryVars, fileVars, history
  <2>2. SlotInv'
    BY <1>0, <1>10 DEF walkProviders, SlotInv, Born, TypeOK, serverVars, registryVars, fileVars, history
  <2>3. LookInv'
    BY <1>10, <2>b, <2>f DEF walkProviders, LookInv, Born, serverVars
  <2>4. FileInv'
    BY <1>0, <1>10 DEF walkProviders, FileInv, Lists, Born, TypeOK, serverVars, registryVars, fileVars,
         history
  <2>5. ServerInv'
    BY <1>0, <1>10 DEF walkProviders, ServerInv, Born, TypeOK, serverVars, registryVars, fileVars, history
  <2>6. SaverInv'
    BY <1>0, <1>10, <2>f DEF walkProviders, SaverInv, Present, serverVars, registryVars, fileVars, history
  <2>7. DeadInv'
    BY <1>0, <1>10 DEF walkProviders, DeadInv, TypeOK, serverVars, registryVars, fileVars, history
  <2>8. KeptInv'
    <3>1. ASSUME NEW a \in kept, NEW c \in Addrs \ {a}, KeyOf[c] = KeyOf[a] PROVE b # c
      <4>1. providers[KeyOf[a]] = Info(a) /\ Info(a).addr = a
        BY <1>0, <2>a, ParseLineOf DEF LiveKept, TypeOK
      <4> QED
        BY <2>b, <2>c, <3>1, <4>1
    <3> QED
      BY <1>0, <1>10, <2>c, <2>f, <3>1 DEF walkProviders, KeptInv, serverVars, history
  <2>9. WalkInv'
    <3>1. \A a \in cand : KeyOf[a] = k => Info(a) = Info(b)
      BY <1>0, <2>a, <2>b DEF LiveKept, TypeOK
    <3> QED
      BY <1>0, <1>10, <2>a, <2>f, <3>1 DEF walkProviders, WalkInv, history
  <2>10. DurableInv'
    BY <1>0, <1>10 DEF walkProviders, DurableInv, TypeOK, serverVars, registryVars, fileVars, history
  <2>11. LiveKept'
    BY <1>0, <1>10 DEF walkProviders, LiveKept, TypeOK, KeptInv, DeadInv, serverVars, registryVars,
         fileVars, history
  <2> QED
    BY <2>1, <2>2, <2>3, <2>4, <2>5, <2>6, <2>7, <2>8, <2>9, <2>10, <2>11 DEF IInv
<1>11. ASSUME CheckPing PROVE IInv'
  <2>a. cur # None
    BY <1>0, <1>11 DEF CheckPing, SaverInv
  <2>b. PICK b \in Born : cur.info = Info(b) /\ cur.key = KeyOf[b]
    BY <1>0, <2>a DEF LookInv
  <2>c. b \in Addrs /\ Info(b).addr = b
    BY ParseLineOf DEF Born
  <2>d. \/ pc' = "walk" /\ cur' = None /\ infos' = Append(infos, LineOf(b)) /\ aged' \subseteq aged
        \/ pc' = "delete" /\ UNCHANGED <<infos, cur, aged>> /\ b \notin up
    BY <1>11, <2>b, <2>c DEF CheckPing, Collected, LineOf
  <2>e. Append(infos, LineOf(b)) \in Seq(Line) /\ Lists(Append(infos, LineOf(b)), Born)
    BY <1>0, AppendLine DEF TypeOK, FileInv, Born
  <2>f. ASSUME NEW a \in kept, a # b PROVE KeyOf[a] # KeyOf[b] /\ Info(a) # Info(b)
    BY <1>0, <2>a, <2>b, <2>c, <2>f, ParseLineOf DEF KeptInv, TypeOK
  <2>1. TypeOK'
    BY <1>0, <1>11, <2>d, <2>e, ZenonT(30) DEF CheckPing, TypeOK, serverVars, fileVars, history
  <2>2. SlotInv'
    BY <1>0, <1>11 DEF CheckPing, SlotInv, Born, TypeOK, serverVars, fileVars, history
  <2>3. LookInv'
    BY <1>0, <1>11 DEF CheckPing, LookInv, Born, TypeOK, serverVars, fileVars, history
  <2>4. FileInv'
    BY <1>0, <1>11, <2>d, <2>e DEF CheckPing, FileInv, Born, serverVars, fileVars
  <2>5. ServerInv'
    BY <1>0, <1>11 DEF CheckPing, ServerInv, Born, TypeOK, serverVars, fileVars, history
  <2>6. SaverInv'
    BY <1>0, <1>11, <2>b, <2>c, <2>d DEF CheckPing, SaverInv, Present, serverVars, fileVars, history
  <2>7. DeadInv'
    BY <1>0, <1>11 DEF CheckPing, DeadInv, TypeOK, serverVars, fileVars, history
  <2>8. KeptInv'
    BY <1>0, <1>11 DEF CheckPing, KeptInv, TypeOK, ServerInv, DeadInv, serverVars, fileVars, history
  <2>9. WalkInv'
    <3>1. \A a \in cand : a \in kept /\ a \in Addrs
      BY <1>0 DEF TypeOK
    <3>2. ASSUME NEW a \in cand, infos' = Append(infos, LineOf(b)), pc' = "walk"
          PROVE  LastOf(infos', a) \/ KeyOf[a] \in todo
      <4>1. infos \in Seq(Line)
        BY <1>0 DEF TypeOK
      <4>2. /\ LastOf(Append(infos, LineOf(b)), b)
            /\ \A c \in Addrs : LastOf(infos, c) /\ KeyOf[c] # KeyOf[b] => LastOf(Append(infos, LineOf(b)), c)
        BY <2>c, <4>1, AppendLine, Addrs \in SUBSET Addrs
      <4>3. CASE a = b
        BY <3>2, <4>3, <4>2
      <4>4. CASE a # b
        <5>1. KeyOf[a] # KeyOf[b] /\ cur.info # Info(a)
          BY <2>b, <2>f, <3>1, <4>4
        <5>2. LastOf(infos, a) \/ KeyOf[a] \in todo
          BY <1>0, <5>1 DEF WalkInv
        <5> QED
          BY <3>1, <3>2, <4>2, <5>1, <5>2
      <4> QED
        BY <4>3, <4>4
    <3> QED
      BY <1>0, <1>11, <2>d, <3>2 DEF CheckPing, WalkInv, history
  <2>10. DurableInv'
    BY <1>0, <1>11 DEF CheckPing, DurableInv, TypeOK, serverVars, fileVars, history
  <2>11. LiveKept'
    BY <1>0, <1>11 DEF CheckPing, LiveKept, TypeOK, KeptInv, DeadInv, serverVars, fileVars, history
  <2> QED
    BY <2>1, <2>2, <2>3, <2>4, <2>5, <2>6, <2>7, <2>8, <2>9, <2>10, <2>11 DEF IInv
<1>12. ASSUME CheckDelete PROVE IInv'
  <2>a. cur # None /\ cur.info.addr \notin up
    BY <1>0, <1>12 DEF CheckDelete, SaverInv
  <2>b. PICK b \in Born : cur.info = Info(b) /\ cur.key = KeyOf[b]
    BY <1>0, <2>a DEF LookInv
  <2>c. b \in Addrs /\ Info(b).addr = b
    BY ParseLineOf DEF Born
  <2>d. ASSUME NEW a \in kept PROVE KeyOf[a] # cur.key /\ Info(a) # cur.info
    BY <1>0, <2>a, <2>b, <2>c, ParseLineOf DEF KeptInv, TypeOK
  <2>1. TypeOK'
    BY <1>0, <1>12 DEF CheckDelete, TypeOK, serverVars, fileVars, history
  <2>2. SlotInv'
    BY <1>0, <1>12 DEF CheckDelete, SlotInv, Born, TypeOK, serverVars, fileVars, history
  <2>3. LookInv'
    BY <1>0, <1>12 DEF CheckDelete, LookInv, Born, TypeOK, serverVars, fileVars, history
  <2>4. FileInv'
    BY <1>0, <1>12 DEF CheckDelete, FileInv, Lists, Born, TypeOK, serverVars, fileVars, history
  <2>5. ServerInv'
    BY <1>0, <1>12 DEF CheckDelete, ServerInv, Born, TypeOK, serverVars, fileVars, history
  <2>6. SaverInv'
    BY <1>0, <1>12 DEF CheckDelete, SaverInv, Present, TypeOK, DeadInv, serverVars, fileVars, history
  <2>7. DeadInv'
    BY <1>0, <1>12 DEF CheckDelete, DeadInv, TypeOK, serverVars, fileVars, history
  <2>8. KeptInv'
    BY <1>0, <1>12 DEF CheckDelete, KeptInv, TypeOK, ServerInv, DeadInv, serverVars, fileVars, history
  <2>9. WalkInv'
    BY <1>0, <1>12, <2>d DEF CheckDelete, WalkInv, TypeOK, history
  <2>10. DurableInv'
    BY <1>0, <1>12 DEF CheckDelete, DurableInv, TypeOK, serverVars, fileVars, history
  <2>11. LiveKept'
    BY <1>0, <1>12, <2>d DEF CheckDelete, LiveKept, TypeOK, history
  <2> QED
    BY <2>1, <2>2, <2>3, <2>4, <2>5, <2>6, <2>7, <2>8, <2>9, <2>10, <2>11 DEF IInv
<1>13. ASSUME SaveCreate PROVE IInv'
  <2>0. <<>> \in Seq(Line) /\ Lists(<<>>, Born)
    BY DEF Lists
  <2>1. TypeOK'
    BY <1>0, <1>13, <2>0 DEF SaveCreate, TypeOK, serverVars, registryVars
  <2>2. SlotInv'
    BY <1>0, <1>13 DEF SaveCreate, SlotInv, Born, TypeOK, serverVars, registryVars
  <2>3. LookInv'
    BY <1>0, <1>13 DEF SaveCreate, LookInv, Born, TypeOK, serverVars, registryVars
  <2>4. FileInv'
    BY <1>0, <1>13, <2>0 DEF SaveCreate, FileInv, Born, serverVars, registryVars
  <2>5. ServerInv'
    BY <1>0, <1>13 DEF SaveCreate, ServerInv, Born, TypeOK, serverVars, registryVars
  <2>6. SaverInv'
    BY <1>0, <1>13 DEF SaveCreate, SaverInv, Present, TypeOK, DeadInv, serverVars, registryVars
  <2>7. DeadInv'
    BY <1>0, <1>13 DEF SaveCreate, DeadInv, TypeOK, serverVars, registryVars
  <2>8. KeptInv'
    BY <1>0, <1>13 DEF SaveCreate, KeptInv, TypeOK, ServerInv, DeadInv, serverVars, registryVars
  <2>9. WalkInv'
    BY <1>0, <1>13 DEF SaveCreate, WalkInv, TypeOK, KeptInv, SaverInv, serverVars, registryVars
  <2>10. DurableInv'
    BY <1>0, <1>13 DEF SaveCreate, DurableInv, TypeOK, serverVars, registryVars
  <2>11. LiveKept'
    BY <1>0, <1>13 DEF SaveCreate, LiveKept, TypeOK, KeptInv, DeadInv, serverVars, registryVars
  <2> QED
    BY <2>1, <2>2, <2>3, <2>4, <2>5, <2>6, <2>7, <2>8, <2>9, <2>10, <2>11 DEF IInv
<1>14. ASSUME SaveWrite PROVE IInv'
  <2>1. TypeOK'
    BY <1>0, <1>14 DEF SaveWrite, TypeOK, serverVars, registryVars, saverVars, history
  <2>2. SlotInv'
    BY <1>0, <1>14 DEF SaveWrite, SlotInv, Born, TypeOK, serverVars, registryVars, saverVars, history
  <2>3. LookInv'
    BY <1>0, <1>14 DEF SaveWrite, LookInv, Born, TypeOK, serverVars, registryVars, saverVars, history
  <2>4. FileInv'
    BY <1>0, <1>14 DEF SaveWrite, FileInv, Lists, Born, TypeOK, serverVars, registryVars, saverVars, history
  <2>5. ServerInv'
    BY <1>0, <1>14 DEF SaveWrite, ServerInv, Born, TypeOK, serverVars, registryVars, saverVars, history
  <2>6. SaverInv'
    BY <1>0, <1>14 DEF SaveWrite, SaverInv, Present, TypeOK, DeadInv, serverVars, registryVars,
         saverVars, history
  <2>7. DeadInv'
    BY <1>0, <1>14 DEF SaveWrite, DeadInv, TypeOK, serverVars, registryVars, saverVars, history
  <2>8. KeptInv'
    BY <1>0, <1>14 DEF SaveWrite, KeptInv, TypeOK, ServerInv, DeadInv, serverVars, registryVars,
         saverVars, history
  <2>9. WalkInv'
    BY <1>0, <1>14 DEF SaveWrite, WalkInv, TypeOK, KeptInv, SaverInv, serverVars, registryVars,
         saverVars, history
  <2>10. DurableInv'
    BY <1>0, <1>14 DEF SaveWrite, DurableInv, TypeOK, serverVars, registryVars, saverVars, history
  <2>11. LiveKept'
    BY <1>0, <1>14 DEF SaveWrite, LiveKept, TypeOK, KeptInv, DeadInv, serverVars, registryVars,
         saverVars, history
  <2> QED
    BY <2>1, <2>2, <2>3, <2>4, <2>5, <2>6, <2>7, <2>8, <2>9, <2>10, <2>11 DEF IInv
<1>15. ASSUME SaveRename PROVE IInv'
  <2>1. TypeOK'
    BY <1>0, <1>15 DEF SaveRename, TypeOK, serverVars, registryVars
  <2>2. SlotInv'
    BY <1>0, <1>15 DEF SaveRename, SlotInv, Born, TypeOK, serverVars, registryVars
  <2>3. LookInv'
    BY <1>0, <1>15 DEF SaveRename, LookInv, Born, TypeOK, serverVars, registryVars
  <2>4. FileInv'
    BY <1>0, <1>15 DEF SaveRename, FileInv, Lists, Born, TypeOK, serverVars, registryVars
  <2>5. ServerInv'
    BY <1>0, <1>15 DEF SaveRename, ServerInv, Born, TypeOK, serverVars, registryVars
  <2>6. SaverInv'
    BY <1>0, <1>15 DEF SaveRename, SaverInv, Present, TypeOK, DeadInv, serverVars, registryVars
  <2>7. DeadInv'
    BY <1>0, <1>15 DEF SaveRename, DeadInv, TypeOK, serverVars, registryVars
  <2>8. KeptInv'
    BY <1>0, <1>15 DEF SaveRename, KeptInv, TypeOK, ServerInv, DeadInv, serverVars, registryVars
  <2>9. WalkInv'
    BY <1>0, <1>15 DEF SaveRename, WalkInv, TypeOK, KeptInv, SaverInv, serverVars, registryVars
  <2>10. DurableInv'
    <3>1. \A a \in cand : LastOf(infos, a)
      BY <1>0, <1>15 DEF SaveRename, WalkInv, SaverInv
    <3>2. Len(updating) = Len(infos) /\ \A i \in 1 .. Len(infos) : updating[i] = infos[i]
      BY <1>0, <1>15 DEF SaveRename, SaverInv
    <3>3. \A a \in cand : LastOf(updating, a)
      BY <3>1, <3>2 DEF LastOf
    <3> QED
      BY <1>15, <3>3 DEF SaveRename, DurableInv
  <2>11. LiveKept'
    BY <1>0, <1>15 DEF SaveRename, LiveKept, TypeOK, KeptInv, DeadInv, serverVars, registryVars
  <2> QED
    BY <2>1, <2>2, <2>3, <2>4, <2>5, <2>6, <2>7, <2>8, <2>9, <2>10, <2>11 DEF IInv
<1>16. ASSUME Crash PROVE IInv'
  <2>1. TypeOK'
    <3>1. \A a \in durable : a \in up /\ reg[a] = "none"
      BY <1>0 DEF KeptInv, TypeOK
    <3>2. durable \subseteq up'
      BY <1>16, <3>1 DEF Crash
    <3>3. crashes' \in 0 .. MaxCrashes
      BY <1>0, <1>16 DEF Crash, TypeOK
    <3>4. reg' \in [Addrs -> {"none", "sent", "pinged"}] /\ providers' \in [Keys -> providerInfo \cup {None}]
      BY <1>16 DEF Crash
    <3>5. infos' \in Seq(Line)
      BY <1>16 DEF Crash
    <3> QED
      BY <1>0, <1>16, <3>2, <3>3, <3>4, <3>5 DEF Crash, TypeOK, fileVars
  <2>2. SlotInv'
    BY <1>0, <1>16 DEF Crash, SlotInv, Born, TypeOK, fileVars
  <2>3. LookInv'
    BY <1>0, <1>16 DEF Crash, LookInv, Born, TypeOK, fileVars
  <2>4. FileInv'
    BY <1>0, <1>16 DEF Crash, FileInv, Lists, Born, TypeOK, fileVars
  <2>5. ServerInv'
    BY <1>0, <1>16 DEF Crash, ServerInv, Born, TypeOK, fileVars
  <2>6. SaverInv'
    BY <1>0, <1>16 DEF Crash, SaverInv, Present, TypeOK, DeadInv, fileVars
  <2>7. DeadInv'
    BY <1>0, <1>16 DEF Crash, DeadInv, TypeOK, fileVars
  <2>8. KeptInv'
    BY <1>0, <1>16 DEF Crash, KeptInv, TypeOK, ServerInv, DeadInv, fileVars
  <2>9. WalkInv'
    BY <1>0, <1>16 DEF Crash, WalkInv, TypeOK, KeptInv, SaverInv, fileVars
  <2>10. DurableInv'
    BY <1>0, <1>16 DEF Crash, DurableInv, TypeOK, fileVars
  <2>11. LiveKept'
    BY <1>0, <1>16 DEF Crash, LiveKept, TypeOK, KeptInv, DeadInv, fileVars
  <2> QED
    BY <2>1, <2>2, <2>3, <2>4, <2>5, <2>6, <2>7, <2>8, <2>9, <2>10, <2>11 DEF IInv
<1>17. ASSUME startRootRegistry PROVE IInv'
  <2>a. record \in Seq(Line) /\ Lists(record, Born) /\ Born \in SUBSET Addrs
    BY <1>0 DEF TypeOK, FileInv, Born
  <2>b. \A k \in Keys : providers'[k] = None \/ \E a \in Born : providers'[k] = Info(a) /\ KeyOf[a] = k
    BY <1>17, <2>a, LoadLists DEF startRootRegistry
  <2>1. TypeOK'
    <3>1. \A k \in Keys : providers'[k] \in providerInfo \cup {None}
      BY <2>a, <2>b, ParseLineOf
    <3>2. providers' = [k \in Keys |-> providers'[k]]
      BY <1>17 DEF startRootRegistry, LoadRecord
    <3>3. providers' \in [Keys -> providerInfo \cup {None}]
      BY <3>1, <3>2
    <3> QED
      BY <1>0, <1>17, <3>3 DEF startRootRegistry, TypeOK, serverVars, saverVars, fileVars, history
  <2>2. SlotInv'
    BY <1>17, <2>b DEF startRootRegistry, SlotInv, Born, serverVars
  <2>3. LookInv'
    BY <1>0, <1>17 DEF startRootRegistry, LookInv, Born, TypeOK, serverVars, saverVars, fileVars, history
  <2>4. FileInv'
    BY <1>0, <1>17 DEF startRootRegistry, FileInv, Lists, Born, TypeOK, serverVars, saverVars, fileVars,
         history
  <2>5. ServerInv'
    BY <1>0, <1>17 DEF startRootRegistry, ServerInv, Born, TypeOK, serverVars, saverVars, fileVars, history
  <2>6. SaverInv'
    BY <1>0, <1>17 DEF startRootRegistry, SaverInv, DeadInv, serverVars, saverVars, fileVars, history
  <2>7. DeadInv'
    BY <1>0, <1>17 DEF startRootRegistry, DeadInv, TypeOK, serverVars, saverVars, fileVars, history
  <2>8. KeptInv'
    BY <1>0, <1>17 DEF startRootRegistry, KeptInv, TypeOK, ServerInv, DeadInv, serverVars, saverVars,
         fileVars, history
  <2>9. WalkInv'
    BY <1>0, <1>17 DEF startRootRegistry, WalkInv, TypeOK, KeptInv, SaverInv, serverVars, saverVars,
         fileVars, history
  <2>10. DurableInv'
    BY <1>0, <1>17 DEF startRootRegistry, DurableInv, TypeOK, serverVars, saverVars, fileVars, history
  <2>11. LiveKept'
    <3>1. \A a \in kept : a \in Addrs /\ LastOf(record, a)
      BY <1>0, <1>17 DEF startRootRegistry, DeadInv, DurableInv, TypeOK
    <3> QED
      BY <1>17, <2>a, <3>1, LoadLast DEF startRootRegistry, LiveKept, history
  <2> QED
    BY <2>1, <2>2, <2>3, <2>4, <2>5, <2>6, <2>7, <2>8, <2>9, <2>10, <2>11 DEF IInv
<1>18. CASE UNCHANGED vars
  BY <1>0, <1>18 DEF IInv, TypeOK, SlotInv, LookInv, FileInv, ServerInv, SaverInv, DeadInv, KeptInv,
       WalkInv, DurableInv, LiveKept, Born, Present, Lists, vars, serverVars, registryVars, saverVars,
       fileVars, history
<1> QED
  BY <1>1, <1>2, <1>3, <1>4, <1>5, <1>6, <1>7, <1>8, <1>9, <1>10, <1>11, <1>12, <1>13, <1>14, <1>15,
     <1>16, <1>17, <1>18 DEF Next, Handlers, registryCheckSaver

(* The invariant holds in every reachable state. *)
LEMMA SpecIInv == Spec => []IInv
  BY InitIInv, NextIInv, PTL DEF Spec

(* A server that was answered OK and still listens is found in the registry  *)
(* with its own address and mark, next to the checkSaver and after a crash   *)
(* at any point, for any number of servers and crashes (regServiceInWAN,     *)
(* registryCheckSaver, startRootRegistry).                                   *)
THEOREM SpecLiveKept == Spec => []LiveKept
<1>1. IInv => LiveKept
  BY DEF IInv
<1> QED
  BY <1>1, SpecIInv, PTL

-----------------------------------------------------------------------------
(* The LAN daemons.                                                        *)

(* The variables that are about the local services, the cache and the queries. *)
LocalType ==
    /\ listening \subseteq Nodes \X Names /\ known \subseteq listening
    /\ cmds \subseteq Cmd
    /\ table \in [Nodes -> SUBSET Names] /\ old \in [Nodes -> SUBSET Names]
    /\ \A n \in Nodes : old[n] \subseteq table[n]
    /\ running \subseteq Nodes /\ saveFile \in [Nodes -> SUBSET Names]
    /\ stops \in 0 .. MaxStops
CacheType ==
    /\ cache \in [Nodes -> SUBSET Entry] /\ stale \in [Nodes -> SUBSET Entry]
    /\ \A n \in Nodes : stale[n] \subseteq cache[n]
Queries == [st : {"asked", "delay", "due", "replied", "dropped"}, pat : Patterns]
QueryType ==
    /\ query \in [Nodes -> {Idle} \cup Queries]
    /\ replies \in [Nodes -> Seq(SUBSET Entry)] /\ \A n \in Nodes : Len(replies[n]) <= 1
    /\ memo \in [Nodes -> [Patterns -> (SUBSET Entry) \cup {Nil}]]
    /\ answer \in [Nodes -> SUBSET Entry]
    /\ net \subseteq Packet
    /\ lost \in 0 .. MaxLost

(* A reply waits in chanServiceInfo only for a query that is under way. *)
ReplyInv == \A n \in Nodes : replies[n] # <<>> => query[n].st = "replied"

(* The pending commands are those of daemons that run; one that does not run has
   nothing in memory.                                                       *)
DaemonInv ==
    /\ \A c \in cmds : c.node \in running
    /\ \A n \in Nodes \ running : table[n] = {}

(* What must be known is in the table of a daemon that runs, or in the file of one
   that does not, and no command will remove it.                            *)
KnownInv ==
    \A p \in known :
        /\ p[2] \in IF p[1] \in running THEN table[p[1]] ELSE saveFile[p[1]]
        /\ [op |-> "delete", node |-> p[1], name |-> p[2]] \notin cmds

(* The inductive invariant of the LAN daemons. *)
LocalInv == LocalType /\ DaemonInv /\ KnownInv
LANInv == LocalInv /\ CacheType /\ QueryType /\ ReplyInv

LEMMA LANTypes == LocalType /\ CacheType /\ QueryType <=> LANTypeOK
  BY DEF LocalType, CacheType, QueryType, Queries, LANTypeOK

(* Commands of servers, and what run does with them and with the ticker. *)
LEMMA LocalStep ==
    ASSUME LocalInv, NEW n \in Nodes, NEW name \in Names,
           \/ registerServiceInLAN(n, name) \/ deleteServiceInLAN(n, name) \/ LocalServerDies(n, name)
           \/ RunRegister(n, name) \/ RunDelete(n, name) \/ LocalAges(n, name) \/ Tick(n)
    PROVE  LocalInv'
<1> DEFINE pair == <<n, name>>
           register == [op |-> "register", node |-> n, name |-> name]
           del == [op |-> "delete", node |-> n, name |-> name]
<1>0. /\ pair \in Nodes \X Names /\ pair[1] = n /\ pair[2] = name
      /\ register \in Cmd /\ del \in Cmd /\ register.node = n /\ del.node = n
  BY DEF Cmd
<1>p. \A p \in Nodes \X Names : p = <<p[1], p[2]>> /\ p[1] \in Nodes /\ p[2] \in Names
  OBVIOUS
<1>k. \A p \in known : p \in listening /\ p \in Nodes \X Names
  BY DEF LocalInv, LocalType
<1>1. CASE registerServiceInLAN(n, name)
  <2>1. /\ n \in running /\ listening' = listening \cup {pair} /\ cmds' = cmds \cup {register}
        /\ UNCHANGED <<table, old, known, running, saveFile, stops>>
    BY <1>1 DEF registerServiceInLAN, nodeVars
  <2>2. LocalType'
    BY <1>0, <2>1 DEF LocalInv, LocalType
  <2>3. DaemonInv'
    BY <1>0, <2>1 DEF LocalInv, DaemonInv
  <2>4. KnownInv'
    BY <2>1 DEF LocalInv, KnownInv
  <2> QED
    BY <2>2, <2>3, <2>4 DEF LocalInv
<1>2. CASE deleteServiceInLAN(n, name)
  <2>1. /\ listening' = listening \ {pair} /\ known' = known \ {pair}
        /\ cmds' = (IF n \in running THEN cmds \cup {del} ELSE cmds)
        /\ UNCHANGED <<table, old, running, saveFile, stops>>
    BY <1>2 DEF deleteServiceInLAN, nodeVars
  <2>2. LocalType'
    BY <1>0, <2>1 DEF LocalInv, LocalType
  <2>3. DaemonInv'
    BY <1>0, <2>1 DEF LocalInv, DaemonInv
  <2>4. KnownInv'
    <3> SUFFICES ASSUME NEW p \in known, p # pair
                 PROVE  /\ p[2] \in IF p[1] \in running THEN table[p[1]] ELSE saveFile[p[1]]
                        /\ [op |-> "delete", node |-> p[1], name |-> p[2]] \notin cmds'
      BY <2>1 DEF KnownInv
    <3>1. [op |-> "delete", node |-> p[1], name |-> p[2]] # del
      BY <1>p, <1>k
    <3> QED
      BY <2>1, <3>1 DEF LocalInv, KnownInv
  <2> QED
    BY <2>2, <2>3, <2>4 DEF LocalInv
<1>3. CASE LocalServerDies(n, name)
  <2>1. /\ listening' = listening \ {pair} /\ known' = known \ {pair}
        /\ UNCHANGED <<cmds, table, old, running, saveFile, stops>>
    BY <1>3 DEF LocalServerDies, nodeVars
  <2>2. LocalType'
    BY <2>1 DEF LocalInv, LocalType
  <2> QED
    BY <2>1, <2>2 DEF LocalInv, DaemonInv, KnownInv
<1>4. CASE RunRegister(n, name)
  <2>1. /\ register \in cmds /\ cmds' = cmds \ {register}
        /\ table' = [table EXCEPT ![n] = @ \cup {name}] /\ old' = [old EXCEPT ![n] = @ \ {name}]
        /\ \/ known' = known
           \/ known' = known \cup {pair} /\ pair \in listening /\ del \notin cmds
        /\ UNCHANGED <<listening, running, saveFile, stops>>
    BY <1>4 DEF RunRegister, nodeVars
  <2>2. n \in running
    BY <1>0, <2>1 DEF LocalInv, DaemonInv
  <2>3. /\ table' \in [Nodes -> SUBSET Names] /\ old' \in [Nodes -> SUBSET Names]
        /\ table'[n] = table[n] \cup {name} /\ old'[n] = old[n] \ {name}
        /\ \A m \in Nodes \ {n} : table'[m] = table[m] /\ old'[m] = old[m]
    BY <2>1 DEF LocalInv, LocalType
  <2>4. LocalType'
    <3>1. \A m \in Nodes : old'[m] \subseteq table'[m]
      BY <2>3 DEF LocalInv, LocalType
    <3> QED
      BY <1>0, <2>1, <2>3, <3>1 DEF LocalInv, LocalType
  <2>5. DaemonInv'
    BY <2>1, <2>2, <2>3 DEF LocalInv, DaemonInv
  <2>6. KnownInv'
    <3> SUFFICES ASSUME NEW p \in known'
                 PROVE  /\ p[2] \in IF p[1] \in running THEN table'[p[1]] ELSE saveFile[p[1]]
                        /\ [op |-> "delete", node |-> p[1], name |-> p[2]] \notin cmds'
      BY <2>1 DEF KnownInv
    <3>1. CASE p = pair /\ del \notin cmds
      BY <1>0, <2>1, <2>2, <2>3, <3>1
    <3>2. CASE p \in known
      <4>1. /\ p[2] \in IF p[1] \in running THEN table[p[1]] ELSE saveFile[p[1]]
            /\ [op |-> "delete", node |-> p[1], name |-> p[2]] \notin cmds
            /\ p[1] \in Nodes
        BY <1>p, <1>k, <3>2 DEF LocalInv, KnownInv
      <4>2. table[p[1]] \subseteq table'[p[1]]
        BY <2>3, <4>1
      <4> QED
        BY <2>1, <4>1, <4>2
    <3> QED
      BY <2>1, <3>1, <3>2
  <2> QED
    BY <2>4, <2>5, <2>6 DEF LocalInv
<1>5. CASE RunDelete(n, name)
  <2>1. /\ del \in cmds /\ cmds' = cmds \ {del}
        /\ table' = [table EXCEPT ![n] = @ \ {name}] /\ old' = [old EXCEPT ![n] = @ \ {name}]
        /\ UNCHANGED <<listening, known, running, saveFile, stops>>
    BY <1>5 DEF RunDelete, delService, nodeVars
  <2>2. n \in running
    BY <1>0, <2>1 DEF LocalInv, DaemonInv
  <2>3. /\ table' \in [Nodes -> SUBSET Names] /\ old' \in [Nodes -> SUBSET Names]
        /\ table'[n] = table[n] \ {name} /\ old'[n] = old[n] \ {name}
        /\ \A m \in Nodes \ {n} : table'[m] = table[m] /\ old'[m] = old[m]
    BY <2>1 DEF LocalInv, LocalType
  <2>4. LocalType'
    <3>1. \A m \in Nodes : old'[m] \subseteq table'[m]
      BY <2>3 DEF LocalInv, LocalType
    <3> QED
      BY <1>0, <2>1, <2>3, <3>1 DEF LocalInv, LocalType
  <2>5. DaemonInv'
    BY <2>1, <2>2, <2>3 DEF LocalInv, DaemonInv
  <2>6. KnownInv'
    <3> SUFFICES ASSUME NEW p \in known
                 PROVE  /\ p[2] \in IF p[1] \in running THEN table'[p[1]] ELSE saveFile[p[1]]
                        /\ [op |-> "delete", node |-> p[1], name |-> p[2]] \notin cmds'
      BY <2>1 DEF KnownInv
    <3>1. /\ p[2] \in IF p[1] \in running THEN table[p[1]] ELSE saveFile[p[1]]
          /\ [op |-> "delete", node |-> p[1], name |-> p[2]] \notin cmds
          /\ p[1] \in Nodes
      BY <1>p, <1>k DEF LocalInv, KnownInv
    <3>2. p[1] # n \/ p[2] # name
      BY <2>1, <3>1
    <3> QED
      BY <2>1, <2>3, <3>1, <3>2
  <2> QED
    BY <2>4, <2>5, <2>6 DEF LocalInv
<1>6. CASE LocalAges(n, name)
  <2>1. /\ name \in table[n] /\ old' = [old EXCEPT ![n] = @ \cup {name}]
        /\ UNCHANGED <<listening, cmds, table, known, running, saveFile, stops>>
    BY <1>6 DEF LocalAges, nodeVars
  <2>2. /\ old' \in [Nodes -> SUBSET Names] /\ old'[n] = old[n] \cup {name}
        /\ \A m \in Nodes \ {n} : old'[m] = old[m]
    BY <2>1 DEF LocalInv, LocalType
  <2>3. LocalType'
    <3>1. \A m \in Nodes : old'[m] \subseteq table'[m]
      BY <2>1, <2>2 DEF LocalInv, LocalType
    <3> QED
      BY <2>1, <2>2, <3>1 DEF LocalInv, LocalType
  <2>4. n \in running
    BY <2>1 DEF LocalInv, DaemonInv
  <2>5. DaemonInv' /\ KnownInv'
    BY <2>1, <2>2, <2>4 DEF LocalInv, DaemonInv, KnownInv
  <2> QED
    BY <2>3, <2>5 DEF LocalInv
<1>7. CASE Tick(n)
  <2> DEFINE live == {m \in table[n] : <<n, m>> \in listening}
             gone == (table[n] \ live) \cap old[n]
  <2>1. /\ n \in running
        /\ table' = [table EXCEPT ![n] = @ \ gone] /\ old' = [old EXCEPT ![n] = @ \ (live \cup gone)]
        /\ UNCHANGED <<listening, cmds, known, running, saveFile, stops>>
    BY <1>7 DEF Tick, delService, nodeVars
  <2>2. /\ table' \in [Nodes -> SUBSET Names] /\ old' \in [Nodes -> SUBSET Names]
        /\ table'[n] = table[n] \ gone /\ old'[n] = old[n] \ (live \cup gone)
        /\ \A m \in Nodes \ {n} : table'[m] = table[m] /\ old'[m] = old[m]
    BY <2>1 DEF LocalInv, LocalType
  <2>3. LocalType'
    <3>1. \A m \in Nodes : old'[m] \subseteq table'[m]
      BY <2>2 DEF LocalInv, LocalType
    <3> QED
      BY <2>1, <2>2, <3>1 DEF LocalInv, LocalType
  <2>4. DaemonInv'
    BY <2>1, <2>2 DEF LocalInv, DaemonInv
  <2>5. KnownInv'
    <3> SUFFICES ASSUME NEW p \in known
                 PROVE  /\ p[2] \in IF p[1] \in running THEN table'[p[1]] ELSE saveFile[p[1]]
                        /\ [op |-> "delete", node |-> p[1], name |-> p[2]] \notin cmds
      BY <2>1 DEF KnownInv
    <3>1. /\ p[2] \in IF p[1] \in running THEN table[p[1]] ELSE saveFile[p[1]]
          /\ [op |-> "delete", node |-> p[1], name |-> p[2]] \notin cmds
          /\ p[1] \in Nodes /\ <<p[1], p[2]>> \in listening
      BY <1>p, <1>k DEF LocalInv, KnownInv
    <3>2. p[1] = n => p[2] \notin gone
      BY <2>1, <3>1
    <3> QED
      BY <2>1, <2>2, <3>1, <3>2
  <2> QED
    BY <2>3, <2>4, <2>5 DEF LocalInv
<1> QED
  BY <1>1, <1>2, <1>3, <1>4, <1>5, <1>6, <1>7

(* A daemon that ends, saving its table or not, and one that starts. *)
LEMMA DaemonStep ==
    ASSUME LocalInv, NEW n \in Nodes, close(n) \/ DaemonCrash(n) \/ newLANRegistry(n)
    PROVE  LocalInv'
<1>p. \A p \in Nodes \X Names : p = <<p[1], p[2]>> /\ p[1] \in Nodes /\ p[2] \in Names
  OBVIOUS
<1>k. \A p \in known : /\ p \in listening /\ p[1] \in Nodes /\ p[2] \in Names
                       /\ p[2] \in IF p[1] \in running THEN table[p[1]] ELSE saveFile[p[1]]
                       /\ [op |-> "delete", node |-> p[1], name |-> p[2]] \notin cmds
  BY <1>p DEF LocalInv, LocalType, KnownInv
<1>t. MaxStops \in Nat
  BY LANRegistryAssumption
<1>1. ASSUME NEW S \in SUBSET Names, Vanish(n, S), known' \subseteq known \cap listening',
             \A p \in known' : p[1] = n => p[2] \in S
      PROVE  LocalInv'
  <2>1. /\ n \in running /\ stops < MaxStops /\ stops' = stops + 1 /\ running' = running \ {n}
        /\ saveFile' = [saveFile EXCEPT ![n] = S] /\ listening' \subseteq listening
        /\ cmds' = {c \in cmds : c.node # n}
        /\ table' = [table EXCEPT ![n] = {}] /\ old' = [old EXCEPT ![n] = {}]
    BY <1>1 DEF Vanish
  <2>2. /\ table' \in [Nodes -> SUBSET Names] /\ old' \in [Nodes -> SUBSET Names]
        /\ saveFile' \in [Nodes -> SUBSET Names]
        /\ table'[n] = {} /\ old'[n] = {} /\ saveFile'[n] = S
        /\ \A m \in Nodes \ {n} : table'[m] = table[m] /\ old'[m] = old[m] /\ saveFile'[m] = saveFile[m]
    BY <2>1 DEF LocalInv, LocalType
  <2>3. stops' \in 0 .. MaxStops
    BY <1>t, <2>1 DEF LocalInv, LocalType
  <2>4. LocalType'
    <3>1. \A m \in Nodes : old'[m] \subseteq table'[m]
      BY <2>2 DEF LocalInv, LocalType
    <3> QED
      BY <1>1, <2>1, <2>2, <2>3, <3>1, Zenon DEF LocalInv, LocalType
  <2>5. DaemonInv'
    BY <2>1, <2>2 DEF LocalInv, DaemonInv
  <2>6. KnownInv'
    <3> SUFFICES ASSUME NEW p \in known'
                 PROVE  /\ p[2] \in IF p[1] \in running' THEN table'[p[1]] ELSE saveFile'[p[1]]
                        /\ [op |-> "delete", node |-> p[1], name |-> p[2]] \notin cmds'
      BY DEF KnownInv
    <3>1. p \in known
      BY <1>1
    <3>2. CASE p[1] = n
      BY <1>1, <1>k, <2>1, <2>2, <3>1, <3>2
    <3>3. CASE p[1] # n
      BY <1>k, <2>1, <2>2, <3>1, <3>3
    <3> QED
      BY <3>2, <3>3
  <2> QED
    BY <2>4, <2>5, <2>6 DEF LocalInv
<1>2. CASE close(n)
  <2>1. /\ Vanish(n, table[n]) /\ table[n] \in SUBSET Names /\ n \in running
        /\ known' \subseteq known \cap listening'
    BY <1>2 DEF close, Vanish, LocalInv, LocalType
  <2>2. \A p \in known' : p[1] = n => p[2] \in table[n]
    BY <1>k, <2>1
  <2> QED
    BY <1>1, <2>1, <2>2
<1>3. CASE DaemonCrash(n)
  <2>1. /\ Vanish(n, {}) /\ known' = {p \in known : p[1] # n}
    BY <1>3 DEF DaemonCrash
  <2>2. known' \subseteq known \cap listening'
    <3> SUFFICES ASSUME NEW p \in known, p[1] # n PROVE p \in listening'
      BY <2>1
    <3> DEFINE waiting == {<<c.node, c.name>> : c \in {d \in cmds : d.op = "register" /\ d.node = n}}
    <3>1. listening' = listening \ waiting
      BY <2>1 DEF Vanish
    <3>2. p \notin waiting
      <4> SUFFICES ASSUME NEW c \in cmds, c.node = n, p = <<c.node, c.name>> PROVE FALSE
        OBVIOUS
      <4> QED
        OBVIOUS
    <3> HIDE DEF waiting
    <3> QED
      BY <1>k, <3>1, <3>2
  <2> QED
    BY <1>1, <2>1, <2>2
<1>4. CASE newLANRegistry(n)
  <2>1. /\ n \notin running /\ running' = running \cup {n}
        /\ table' = [table EXCEPT ![n] = saveFile[n]] /\ saveFile' = [saveFile EXCEPT ![n] = {}]
        /\ UNCHANGED <<listening, cmds, old, known, stops>>
    BY <1>4 DEF newLANRegistry
  <2>2. /\ table' \in [Nodes -> SUBSET Names] /\ saveFile' \in [Nodes -> SUBSET Names]
        /\ table'[n] = saveFile[n] /\ old[n] = {}
        /\ \A m \in Nodes \ {n} : table'[m] = table[m] /\ saveFile'[m] = saveFile[m]
    BY <2>1 DEF LocalInv, LocalType, DaemonInv
  <2>3. LocalType'
    <3>1. \A m \in Nodes : old'[m] \subseteq table'[m]
      BY <2>1, <2>2 DEF LocalInv, LocalType
    <3> QED
      BY <2>1, <2>2, <3>1 DEF LocalInv, LocalType
  <2>4. DaemonInv'
    BY <2>1 DEF LocalInv, DaemonInv
  <2>5. KnownInv'
    <3> SUFFICES ASSUME NEW p \in known
                 PROVE  /\ p[2] \in IF p[1] \in running' THEN table'[p[1]] ELSE saveFile'[p[1]]
                        /\ [op |-> "delete", node |-> p[1], name |-> p[2]] \notin cmds
      BY <2>1 DEF KnownInv
    <3> QED
      BY <1>k, <2>1, <2>2
  <2> QED
    BY <2>3, <2>4, <2>5 DEF LocalInv
<1> QED
  BY <1>2, <1>3, <1>4

(* What the clients' queries, the packets and time do to caches and answers. *)
LEMMA QueryStep ==
    ASSUME LANInv, NEW n \in Nodes,
           \/ \E pat \in Patterns : queryServiceInLAN(n, pat) \/ MemoExpires(n, pat)
           \/ RunQuery(n) \/ TimerFires(n)
           \/ getServiceInfos(n) \/ QueryReturns(n) \/ \E e \in Entry : CacheAges(n, e)
    PROVE  LANInv'
<1>1. UNCHANGED <<localVars, nodeVars>>
  BY DEF queryServiceInLAN, MemoExpires, RunQuery, TimerFires, getServiceInfos, QueryReturns, CacheAges
<1>2. LocalInv'
  BY <1>1 DEF LANInv, LocalInv, LocalType, DaemonInv, KnownInv, localVars, nodeVars
<1>3. ASSUME NEW pat \in Patterns, queryServiceInLAN(n, pat) \/ MemoExpires(n, pat) PROVE LANInv'
  <2>1. UNCHANGED <<cache, stale, replies, net, lost>>
    BY <1>3 DEF queryServiceInLAN, MemoExpires
  <2>2. /\ answer' \in [Nodes -> SUBSET Entry]
        /\ memo' \in [Nodes -> [Patterns -> (SUBSET Entry) \cup {Nil}]]
    <3>1. CASE queryServiceInLAN(n, pat)
      <4>1. memo[n][pat] \in (SUBSET Entry) \cup {Nil}
        BY DEF LANInv, QueryType
      <4> QED
        BY <3>1, <4>1 DEF queryServiceInLAN, LANInv, QueryType
    <3>2. CASE MemoExpires(n, pat)
      BY <3>2 DEF MemoExpires, LANInv, QueryType
    <3> QED
      BY <1>3, <3>1, <3>2
  <2>3. query' \in [Nodes -> {Idle} \cup Queries] /\ ReplyInv'
    <3>1. CASE UNCHANGED query
      BY <2>1, <3>1 DEF LANInv, QueryType, ReplyInv
    <3>2. CASE query[n] = Idle /\ query' = [query EXCEPT ![n] = [st |-> "asked", pat |-> pat]]
      <4>1. [st |-> "asked", pat |-> pat] \in Queries
        BY DEF Queries
      <4>2. query' \in [Nodes -> {Idle} \cup Queries]
        BY <3>2, <4>1 DEF LANInv, QueryType
      <4>3. replies[n] = <<>>
        BY <3>2 DEF LANInv, ReplyInv, Idle
      <4>4. \A m \in Nodes \ {n} : query'[m] = query[m]
        BY <3>2 DEF LANInv, QueryType
      <4> QED
        BY <2>1, <4>2, <4>3, <4>4 DEF LANInv, ReplyInv
    <3> QED
      BY <1>3, <3>1, <3>2 DEF queryServiceInLAN, MemoExpires
  <2> QED
    BY <1>2, <2>1, <2>2, <2>3 DEF LANInv, CacheType, QueryType
<1>4. ASSUME query[n].st \in {"asked", "delay"}, NEW x \in {"delay", "due", "dropped"},
             query' = [query EXCEPT ![n].st = x], net' \subseteq Packet,
             UNCHANGED <<cache, stale, replies, memo, answer, lost>>
      PROVE  LANInv'
  <2>1. query[n] \in Queries /\ replies[n] = <<>>
    BY <1>4 DEF LANInv, QueryType, ReplyInv, Idle
  <2>2. query' \in [Nodes -> {Idle} \cup Queries] /\ \A m \in Nodes \ {n} : query'[m] = query[m]
    BY <1>4, <2>1 DEF LANInv, QueryType, Queries
  <2>3. ReplyInv'
    BY <1>4, <2>1, <2>2 DEF LANInv, ReplyInv
  <2> QED
    BY <1>2, <1>4, <2>2, <2>3 DEF LANInv, CacheType, QueryType
<1>5. CASE RunQuery(n)
  <2>1. query[n].st = "asked" /\ query[n].pat \in Patterns
    BY <1>5 DEF RunQuery, LANInv, QueryType, Queries, Idle
  <2>2. net \cup [kind : {"query"}, pat : {query[n].pat}, from : {n}, to : running] \subseteq Packet
    BY <2>1 DEF LANInv, LocalInv, LocalType, QueryType, Packet
  <2>3. net \subseteq Packet
    BY DEF LANInv, QueryType
  <2> QED
    BY <1>4, <1>5, <2>1, <2>2, <2>3 DEF RunQuery
<1>6. CASE TimerFires(n)
  BY <1>4, <1>6 DEF TimerFires, LANInv, QueryType
<1>7. CASE getServiceInfos(n)
  <2> DEFINE expired == Matching(n, query[n].pat) \cap stale[n]
             res == Matching(n, query[n].pat) \ expired
  <2>1. /\ query[n].st = "due" /\ cache' = [cache EXCEPT ![n] = @ \ expired]
        /\ stale' = [stale EXCEPT ![n] = @ \ expired]
        /\ replies' = [replies EXCEPT ![n] = Append(@, res)]
        /\ query' = [query EXCEPT ![n].st = "replied"]
        /\ UNCHANGED <<memo, answer, net, lost>>
    BY <1>7 DEF getServiceInfos
  <2>2. query[n] \in Queries /\ replies[n] = <<>>
    BY <2>1 DEF LANInv, QueryType, ReplyInv, Idle
  <2>3. res \in SUBSET Entry /\ <<res>> \in Seq(SUBSET Entry) /\ Append(<<>>, res) = <<res>> /\ Len(<<res>>) = 1
    <3>1. res \in SUBSET Entry
      BY DEF Matching, LANInv, CacheType
    <3> HIDE DEF res
    <3> QED
      BY <3>1
  <2> HIDE DEF res, expired
  <2>4. CacheType'
    BY <2>1 DEF LANInv, CacheType
  <2>5. /\ replies' \in [Nodes -> Seq(SUBSET Entry)] /\ replies'[n] = <<res>>
        /\ \A m \in Nodes \ {n} : replies'[m] = replies[m]
    BY <2>1, <2>2, <2>3 DEF LANInv, QueryType
  <2>6. /\ query' \in [Nodes -> {Idle} \cup Queries] /\ query'[n].st = "replied"
        /\ \A m \in Nodes \ {n} : query'[m] = query[m]
    BY <2>1, <2>2 DEF LANInv, QueryType, Queries
  <2>7. ReplyInv' /\ \A m \in Nodes : Len(replies'[m]) <= 1
    <3>1. ASSUME NEW m \in Nodes PROVE replies'[m] # <<>> => query'[m].st = "replied"
      BY <2>5, <2>6 DEF LANInv, ReplyInv
    <3>2. ASSUME NEW m \in Nodes PROVE Len(replies'[m]) <= 1
      <4>1. CASE m = n
        <5>1. replies'[m] = <<res>> /\ Len(<<res>>) = 1
          BY <2>3, <2>5, <4>1
        <5> QED
          BY <5>1
      <4>2. CASE m # n
        BY <2>5, <4>2 DEF LANInv, QueryType
      <4> QED
        BY <4>1, <4>2
    <3> QED
      BY <3>1, <3>2 DEF ReplyInv
  <2> QED
    BY <1>2, <2>1, <2>4, <2>5, <2>6, <2>7 DEF LANInv, QueryType
<1>8. CASE QueryReturns(n)
  <2> DEFINE x == replies[n][1]
             p == query[n].pat
  <2>1. /\ replies[n] # <<>> /\ replies' = [replies EXCEPT ![n] = <<>>]
        /\ memo' = [memo EXCEPT ![n][p] = x] /\ answer' = [answer EXCEPT ![n] = x]
        /\ query' = [query EXCEPT ![n] = Idle] /\ UNCHANGED <<cache, stale, net, lost>>
    BY <1>8 DEF QueryReturns
  <2>2. x \in SUBSET Entry /\ p \in Patterns
    <3>1. replies[n] \in Seq(SUBSET Entry) /\ query[n].st = "replied"
      BY <2>1 DEF LANInv, QueryType, ReplyInv
    <3>2. x \in SUBSET Entry
      BY <2>1, <3>1
    <3> QED
      BY <3>1, <3>2 DEF LANInv, QueryType, Queries, Idle
  <2> HIDE DEF x, p
  <2>3. /\ memo' \in [Nodes -> [Patterns -> (SUBSET Entry) \cup {Nil}]] /\ answer' \in [Nodes -> SUBSET Entry]
        /\ query' \in [Nodes -> {Idle} \cup Queries]
    BY <2>1, <2>2 DEF LANInv, QueryType
  <2>4. /\ <<>> \in Seq(SUBSET Entry) /\ Len(<<>>) = 0
    OBVIOUS
  <2>5. /\ replies' \in [Nodes -> Seq(SUBSET Entry)] /\ replies'[n] = <<>>
        /\ \A m \in Nodes \ {n} : replies'[m] = replies[m] /\ query'[m] = query[m]
    BY <2>1, <2>4 DEF LANInv, QueryType
  <2>6. ReplyInv' /\ \A m \in Nodes : Len(replies'[m]) <= 1
    <3>1. ASSUME NEW m \in Nodes PROVE replies'[m] # <<>> => query'[m].st = "replied"
      BY <2>5 DEF LANInv, ReplyInv
    <3>2. ASSUME NEW m \in Nodes PROVE Len(replies'[m]) <= 1
      <4>1. CASE m = n
        BY <2>4, <2>5, <4>1
      <4>2. CASE m # n
        BY <2>5, <4>2 DEF LANInv, QueryType
      <4> QED
        BY <4>1, <4>2
    <3> QED
      BY <3>1, <3>2 DEF ReplyInv
  <2> QED
    BY <1>2, <2>1, <2>3, <2>5, <2>6 DEF LANInv, CacheType, QueryType
<1>9. ASSUME NEW e \in Entry, CacheAges(n, e) PROVE LANInv'
  <2>1. e \in cache[n] /\ stale' = [stale EXCEPT ![n] = @ \cup {e}] /\ UNCHANGED <<cache, queryVars, net, lost>>
    BY <1>9 DEF CacheAges
  <2>2. CacheType'
    BY <2>1 DEF LANInv, CacheType
  <2> QED
    BY <1>2, <2>1, <2>2 DEF LANInv, QueryType, ReplyInv, queryVars
<1> QED
  BY <1>3, <1>5, <1>6, <1>7, <1>8, <1>9

(* A packet of kind k has the fields of its kind. *)
LEMMA PacketFields ==
    ASSUME NEW p \in Packet
    PROVE  /\ p.kind = "query" => p.pat \in Patterns /\ p.from \in Nodes /\ p.to \in Nodes
           /\ p.kind = "found" => p.name \in Names /\ p.from \in Nodes /\ p.to \in Nodes
  BY DEF Packet

LEMMA PacketStep ==
    ASSUME LANInv, NEW p \in net, RunQueryPacket(p) \/ RunFoundPacket(p) \/ Lose(p)
    PROVE  LANInv'
<1>1. UNCHANGED <<localVars, nodeVars, queryVars>>
  BY DEF RunQueryPacket, RunFoundPacket, Lose
<1>2. LocalInv'
  BY <1>1 DEF LANInv, LocalInv, LocalType, DaemonInv, KnownInv, localVars, nodeVars
<1>3. p \in Packet /\ net \subseteq Packet /\ MaxLost \in Nat
  BY LANRegistryAssumption DEF LANInv, QueryType
<1>4. CASE RunQueryPacket(p)
  <2>1. [kind : {"found"}, name : table[p.to] \cap p.pat, from : {p.to}, to : {p.from} \cap running] \subseteq Packet
    <3>1. p.to \in Nodes /\ p.from \in Nodes
      BY <1>3, <1>4, PacketFields DEF RunQueryPacket
    <3>2. table[p.to] \subseteq Names
      BY <3>1 DEF LANInv, LocalInv, LocalType
    <3> QED
      BY <3>1, <3>2 DEF Packet
  <2>2. net' \subseteq Packet /\ UNCHANGED <<cache, stale, lost>>
    BY <1>3, <1>4, <2>1 DEF RunQueryPacket
  <2> QED
    BY <1>1, <1>2, <2>2 DEF LANInv, CacheType, QueryType, ReplyInv, queryVars
<1>5. CASE RunFoundPacket(p)
  <2>1. p.to \in Nodes /\ <<p.name, p.from>> \in Entry
    BY <1>3, <1>5, PacketFields DEF RunFoundPacket, Entry
  <2>2. /\ cache' = [cache EXCEPT ![p.to] = @ \cup {<<p.name, p.from>>}]
        /\ stale' = [stale EXCEPT ![p.to] = @ \ {<<p.name, p.from>>}]
        /\ net' \subseteq net /\ UNCHANGED lost
    BY <1>5 DEF RunFoundPacket
  <2>3. CacheType'
    BY <2>1, <2>2 DEF LANInv, CacheType
  <2>4. QueryType' /\ ReplyInv'
    BY <1>1, <1>3, <2>2 DEF LANInv, QueryType, ReplyInv, queryVars
  <2> QED
    BY <1>2, <2>3, <2>4 DEF LANInv
<1>6. CASE Lose(p)
  <2>1. net' \subseteq net /\ lost' \in 0 .. MaxLost /\ UNCHANGED <<cache, stale>>
    BY <1>3, <1>6 DEF Lose, LANInv, QueryType
  <2>2. CacheType'
    BY <2>1 DEF LANInv, CacheType
  <2>3. QueryType' /\ ReplyInv'
    BY <1>1, <1>3, <2>1 DEF LANInv, QueryType, ReplyInv, queryVars
  <2> QED
    BY <1>2, <2>2, <2>3 DEF LANInv
<1> QED
  BY <1>4, <1>5, <1>6

(* The steps that change local services leave the rest well-formed. *)
LEMMA LocalFrame ==
    ASSUME LANInv, LocalInv', CacheType', UNCHANGED <<queryVars, net, lost>>
    PROVE  LANInv'
  BY DEF LANInv, QueryType, ReplyInv, queryVars

LEMMA DelServiceCache ==
    ASSUME CacheType, NEW n \in Nodes, NEW S, delService(n, S) PROVE CacheType'
  BY DEF CacheType, delService

LEMMA VanishRest ==
    ASSUME LANInv, NEW n \in Nodes, NEW S, Vanish(n, S) PROVE CacheType' /\ QueryType' /\ ReplyInv'
<1>1. /\ cache' = [cache EXCEPT ![n] = {}] /\ stale' = [stale EXCEPT ![n] = {}]
      /\ query' = [query EXCEPT ![n] = Idle] /\ replies' = [replies EXCEPT ![n] = <<>>]
      /\ memo' = [memo EXCEPT ![n] = [p \in Patterns |-> Nil]]
      /\ net' \subseteq net /\ UNCHANGED <<answer, lost>>
  BY DEF Vanish
<1>2. CacheType'
  BY <1>1 DEF LANInv, CacheType
<1>3. <<>> \in Seq(SUBSET Entry) /\ Len(<<>>) = 0
  OBVIOUS
<1>4. /\ replies' \in [Nodes -> Seq(SUBSET Entry)] /\ replies'[n] = <<>>
      /\ \A m \in Nodes \ {n} : replies'[m] = replies[m] /\ query'[m] = query[m]
  BY <1>1, <1>3 DEF LANInv, QueryType
<1>5. ReplyInv' /\ \A m \in Nodes : Len(replies'[m]) <= 1
  <2>1. ASSUME NEW m \in Nodes PROVE replies'[m] # <<>> => query'[m].st = "replied"
    BY <1>4 DEF LANInv, ReplyInv
  <2>2. ASSUME NEW m \in Nodes PROVE Len(replies'[m]) <= 1
    <3>1. CASE m = n
      BY <1>3, <1>4, <3>1
    <3>2. CASE m # n
      BY <1>4, <3>2 DEF LANInv, QueryType
    <3> QED
      BY <3>1, <3>2
  <2> QED
    BY <2>1, <2>2 DEF ReplyInv
<1>6. /\ query' \in [Nodes -> {Idle} \cup Queries] /\ answer' \in [Nodes -> SUBSET Entry]
      /\ memo' \in [Nodes -> [Patterns -> (SUBSET Entry) \cup {Nil}]]
      /\ net' \subseteq Packet /\ lost' \in 0 .. MaxLost
  BY <1>1 DEF LANInv, QueryType
<1>7. QueryType'
  BY <1>4, <1>5, <1>6 DEF QueryType
<1> QED
  BY <1>2, <1>5, <1>7

(* Every step of the daemons, their servers, clients and network. *)
LEMMA NextLAN == LANInv /\ [LANNext]_lanVars => LANInv'
<1> SUFFICES ASSUME LANInv, [LANNext]_lanVars PROVE LANInv'
  OBVIOUS
<1>0. Publishers \subseteq Nodes /\ Queriers \subseteq Nodes
  BY LANRegistryAssumption
<1>1. ASSUME NEW n \in Publishers, NEW name \in Names,
             \/ registerServiceInLAN(n, name) \/ deleteServiceInLAN(n, name) \/ LocalServerDies(n, name)
             \/ RunRegister(n, name) \/ RunDelete(n, name) \/ LocalAges(n, name)
      PROVE  LANInv'
  <2>1. LocalInv'
    BY <1>0, <1>1, LocalStep DEF LANInv
  <2>2. UNCHANGED <<queryVars, net, lost>>
    BY <1>1 DEF registerServiceInLAN, deleteServiceInLAN, LocalServerDies, RunRegister, RunDelete, LocalAges
  <2>3. CacheType'
    <3>1. CASE RunDelete(n, name)
      BY <1>0, <3>1, DelServiceCache DEF RunDelete, LANInv
    <3>2. CASE ~RunDelete(n, name)
      <4>1. UNCHANGED <<cache, stale>>
        BY <1>1, <3>2 DEF registerServiceInLAN, deleteServiceInLAN, LocalServerDies, RunRegister, LocalAges
      <4> QED
        BY <4>1 DEF LANInv, CacheType
    <3> QED
      BY <3>1, <3>2
  <2> QED
    BY <2>1, <2>2, <2>3, LocalFrame
<1>2. ASSUME NEW n \in Queriers, NEW pat \in Patterns, queryServiceInLAN(n, pat) \/ MemoExpires(n, pat)
      PROVE  LANInv'
  BY <1>0, <1>2, QueryStep
<1>3. ASSUME NEW n \in Queriers,
             \/ RunQuery(n) \/ TimerFires(n) \/ getServiceInfos(n) \/ QueryReturns(n)
             \/ \E e \in Entry : CacheAges(n, e)
      PROVE  LANInv'
  BY <1>0, <1>3, QueryStep
<1>4. ASSUME NEW p \in net, RunQueryPacket(p) \/ RunFoundPacket(p) \/ Lose(p) PROVE LANInv'
  BY <1>4, PacketStep
<1>5. ASSUME NEW n \in Nodes, Tick(n) PROVE LANInv'
  <2>1. UNCHANGED <<queryVars, net, lost>> /\ \E S : delService(n, S)
    BY <1>5 DEF Tick
  <2>2. CacheType'
    BY <2>1, DelServiceCache DEF LANInv
  <2>3. LocalInv'
    <3>1. CASE Names = {}
      <4>1. UNCHANGED <<listening, cmds, table, old, known, running, saveFile, stops>>
        <5>1. table[n] = {} /\ old[n] = {}
          BY <3>1 DEF LANInv, LocalInv, LocalType
        <5> QED
          BY <1>5, <5>1 DEF Tick, delService, nodeVars, LANInv, LocalInv, LocalType
      <4> QED
        BY <4>1 DEF LANInv, LocalInv, LocalType, DaemonInv, KnownInv
    <3>2. CASE Names # {}
      BY <1>5, <3>2, LocalStep DEF LANInv
    <3> QED
      BY <3>1, <3>2
  <2> QED
    BY <2>1, <2>2, <2>3, LocalFrame
<1>6. ASSUME NEW n \in Nodes, close(n) \/ DaemonCrash(n) PROVE LANInv'
  <2>1. LocalInv'
    BY <1>6, DaemonStep DEF LANInv
  <2>2. \E S : Vanish(n, S)
    BY <1>6 DEF close, DaemonCrash
  <2> QED
    BY <2>1, <2>2, VanishRest DEF LANInv
<1>7. ASSUME NEW n \in Nodes, newLANRegistry(n) PROVE LANInv'
  <2>1. LocalInv'
    BY <1>7, DaemonStep DEF LANInv
  <2>2. UNCHANGED <<cache, stale, queryVars, net, lost>>
    BY <1>7 DEF newLANRegistry
  <2>3. CacheType'
    BY <2>2 DEF LANInv, CacheType
  <2> QED
    BY <2>1, <2>2, <2>3, LocalFrame
<1>8. CASE UNCHANGED lanVars
  BY <1>8 DEF LANInv, LocalInv, LocalType, DaemonInv, KnownInv, CacheType, QueryType, ReplyInv,
     lanVars, localVars, queryVars, nodeVars
<1> QED
  BY <1>1, <1>2, <1>3, <1>4, <1>5, <1>6, <1>7, <1>8 DEF LANNext

LEMMA InitLAN == LANInit => LANInv
<1> SUFFICES ASSUME LANInit PROVE LANInv
  OBVIOUS
<1>0. MaxLost \in Nat /\ MaxStops \in Nat
  BY LANRegistryAssumption
<1>1. LocalInv
  BY <1>0 DEF LANInit, LocalInv, LocalType, DaemonInv, KnownInv
<1>2. <<>> \in Seq(SUBSET Entry) /\ Len(<<>>) = 0
  OBVIOUS
<1>3. CacheType /\ QueryType /\ ReplyInv
  BY <1>0, <1>2 DEF LANInit, CacheType, QueryType, ReplyInv
<1> QED
  BY <1>1, <1>3 DEF LANInv

LEMMA SpecLANInv == LANSpec => []LANInv
  BY InitLAN, NextLAN, PTL DEF LANSpec

(* The daemons' variables keep their types, and chanServiceInfo, a channel of size
   one, never has to hold two replies (registry.go, getServiceInfos).       *)
THEOREM SpecLANTypeOK == LANSpec => []LANTypeOK
<1>1. LANInv => LANTypeOK
  BY LANTypes DEF LANInv, LocalInv
<1> QED
  BY <1>1, SpecLANInv, PTL

(* A service that was answered OK and still listens is in the table of its node's
   daemon, through pings, deletes and any number of restarts of the daemon
   (registryLAN.run, close, newLANRegistry), on any number of nodes.        *)
THEOREM SpecLocalKept == LANSpec => []LocalKept
<1>1. LANInv => LocalKept
  BY DEF LANInv, LocalInv, KnownInv, LocalKept
<1> QED
  BY <1>1, SpecLANInv, PTL

=============================================================================
