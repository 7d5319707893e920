--------------------------- MODULE DiscoverProofs ---------------------------
(***************************************************************************)
(* Proofs about Discover, for any instances, options, rounds, and order of *)
(* what services and registries do meanwhile.                              *)
(***************************************************************************)
EXTENDS Discover, FiniteSetTheorems, SequenceTheorems, WellFoundedInduction, TLAPS

(* What a search of tier t asks for, whether it is listed or not; and the  *)
(* instances that some search of this call asks for.                       *)
Asked(t) ==
    {i \in Instances :
       /\ Tier[i] = t
       /\ i \in Named[opts]
       /\ (t = 3 /\ OwnDirOnly) => Provider[i] = Self
       /\ t \in 3..5 => matchProvider(Provider[i])}
Sought(j) == Wanted(Tier[j]) /\ j \in Asked(Tier[j])

(* The key of an instance was refused, or is still to be dialled.          *)
RefusedKey(i) == \E k \in refused : Key(k) = Key(i)
Pending(i) == \E n \in 1 .. Len(todo) : Key(todo[n]) = Key(i)

(* An instance that was up since the call is listed.                       *)
WorldInv == steady \subseteq listed /\ steady \cap gone = {}

(* Where the search is.                                                    *)
StepInv ==
    /\ pc = "sleep" => timeout # 0
    /\ pc \in {"look", "sleep"} => todo = <<>>
    /\ pc = "dial" => tier \in 1..5 /\ \A n \in 1 .. Len(todo) : todo[n] \in Asked(tier)

(* The search goes on only while it has fewer connections than it expects. *)
CountInv ==
    Expect > 0 => Len(conns) <= Expect /\ (pc # "end" => Len(conns) < Expect)

(* What is connected was asked for and is marked, each key once.           *)
ConnsInv ==
    /\ \A n \in 1 .. Len(conns) : conns[n] \in Asked(Tier[conns[n]]) /\ Key(conns[n]) \in serviceList
    /\ \A m, n \in 1 .. Len(conns) : Key(conns[m]) = Key(conns[n]) => m = n

(* In the network what is to be dialled is marked beforehand, each key once. *)
NetInv ==
    pc = "dial" /\ tier \in 4..5 =>
      /\ \A n \in 1 .. Len(todo) : Key(todo[n]) \in serviceList
      /\ \A n \in 1 .. Len(todo), m \in 1 .. Len(conns) : Key(todo[n]) # Key(conns[m])
      /\ \A m, n \in 1 .. Len(todo) : Key(todo[m]) = Key(todo[n]) => m = n

(* While one connection is wanted and none was made: a marked key is       *)
(* refused or to be dialled, so is every steady instance of the tier being *)
(* searched, and those of the tiers before are refused; or they are in the *)
(* own directory, and the own ID could not be got.                         *)
Looking == Expect = 1 /\ pc \notin {"end", "stuck"} /\ tier <= 5
MarkedInv ==
    Expect = 1 /\ pc \notin {"end", "stuck"} =>
      \A i \in Instances : Key(i) \in serviceList =>
        RefusedKey(i) \/ (pc = "dial" /\ tier \in 4..5 /\ Pending(i))
PassedInv ==
    Looking => \A j \in steady : Sought(j) /\ Tier[j] < tier => RefusedKey(j) \/ Missed(j)
PendingInv ==
    Looking /\ pc = "dial" /\ tier <= 4 =>
      \A j \in steady : Sought(j) /\ Tier[j] = tier => RefusedKey(j) \/ Pending(j) \/ Missed(j)

(* No connection to a farther instance than one that was up all along.     *)
NearInv ==
    Expect = 1 =>
      \A n \in 1 .. Len(conns) : \A j \in steady :
        Sought(j) /\ Tier[j] < Tier[conns[n]] => RefusedKey(j) \/ Missed(j)

(* The own ID is only asked for to search the own directory.              *)
OwnInv == ownID = "NA" => OwnDirOnly

(* The inductive invariant.                                                *)
IInv ==
    /\ TypeOK /\ WorldInv /\ StepInv /\ CountInv /\ ConnsInv /\ NetInv
    /\ MarkedInv /\ PassedInv /\ PendingInv /\ NearInv /\ OwnInv

-----------------------------------------------------------------------------
(* The operators of the model.                                             *)

(* How Discover was called does not change, nor what follows from it. *)
LEMMA OptsFixed ==
    ASSUME opts' = opts
    PROVE  /\ Expect' = Expect
           /\ \A i \in Instances : Key(i)' = Key(i)
           /\ \A t \in 1..6 : Asked(t)' = Asked(t)
           /\ \A t \in 1..6 : Wanted(t)' <=> Wanted(t)
           /\ \A j \in Instances : Sought(j)' <=> Sought(j)
           /\ Rounds' = Rounds
           /\ ownID' = ownID => \A j \in Instances : Missed(j)' <=> Missed(j)
<1>1. Expect' = Expect
    BY DEF Expect, IsWild
<1>2. \A i \in Instances : Key(i)' = Key(i)
    BY DEF Key, OwnDirOnly, IsWild
<1>3. \A t \in 1..6 : Asked(t)' = Asked(t)
    BY DEF Asked, OwnDirOnly, IsWild, matchProvider
<1>4. \A t \in 1..6 : Wanted(t)' <=> Wanted(t)
    BY DEF Wanted, searchSelf, matchProvider
<1>5. \A j \in Instances : Tier[j] \in 1..6
    BY DiscoverAssumption
<1>6. \A j \in Instances : Sought(j)' <=> Sought(j)
    BY <1>3, <1>4, <1>5 DEF Sought
<1>7. Rounds' = Rounds
    BY DEF Rounds
<1>8. ownID' = ownID => \A j \in Instances : Missed(j)' <=> Missed(j)
    BY DEF Missed, OwnDirOnly, IsWild
<1>. QED
    BY <1>1, <1>2, <1>3, <1>4, <1>6, <1>7, <1>8

(* The number of rounds is a number; a timeout that is not negative allows some. *)
LEMMA RoundsType ==
    ASSUME opts \in Options
    PROVE  Rounds \in Int
<1>1. opts.timeout \in Int /\ opts.interval \in Nat /\ opts.interval > 0
    BY DiscoverAssumption
<1>2. opts.timeout * 1000 \in Int /\ -opts.timeout * 1000 \in Int
    BY <1>1
<1>3. \A a \in Int : a \div opts.interval \in Int
    BY <1>1
<1>. QED
    BY <1>2, <1>3 DEF Rounds

(* How many connections are wanted is a number. *)
LEMMA ExpectType ==
    ASSUME opts \in Options
    PROVE  Expect \in Int
<1>1. opts.providers \in Seq(Seq(Letters \cup {"*"}))
    BY DiscoverAssumption
<1>2. Len(opts.providers) \in Nat
    BY <1>1, LenProperties
<1>. QED
    BY <1>2 DEF Expect

(* A lookup returns what is asked for of what is listed. *)
LEMMA LookupAsks ==
    ASSUME listed \subseteq Instances, NEW t
    PROVE  lookupService(t) = listed \cap Asked(t)
BY DEF lookupService, Asked

(* An order of a finite set is a sequence that has each element once. *)
LEMMA SeqsOf ==
    ASSUME NEW S, IsFiniteSet(S), NEW q \in SetToSeqs(S)
    PROVE  /\ q \in Seq(S)
           /\ \A m, n \in 1 .. Len(q) : q[m] = q[n] => m = n
           /\ \A x \in S : \E n \in 1 .. Len(q) : q[n] = x
<1>. DEFINE c == Cardinality(S)
<1>1. c \in Nat
    BY FS_CardinalityType
<1>. HIDE DEF c
<1>2. /\ q \in [1 .. c -> S]
      /\ \A m, n \in 1 .. c : m # n => q[m] # q[n]
    BY DEF SetToSeqs, c
<1>3. q \in Seq(S) /\ Len(q) = c
    BY <1>1, <1>2
<1>4. q \in Injection(1 .. c, S)
    BY <1>2 DEF Injection, IsInjective
<1>5. Cardinality(1 .. c) = c
    BY <1>1, FS_Interval
<1>6. q \in Surjection(1 .. c, S)
    BY <1>4, <1>5, FS_Injection DEF c
<1>7. \A x \in S : \E n \in 1 .. c : q[n] = x
    BY <1>6 DEF Surjection
<1>. QED
    BY <1>2, <1>3, <1>7

(* selectAndConnect dials some of the addresses, each once. *)
LEMMA SelectAddrs ==
    ASSUME NEW addrs, IsFiniteSet(addrs), NEW q \in selectAddrs(addrs)
    PROVE  /\ q \in Seq(addrs)
           /\ \A m, n \in 1 .. Len(q) : q[m] = q[n] => m = n
<1>1. PICK R \in SUBSET addrs : q \in SetToSeqs(R)
    BY DEF selectAddrs
<1>2. IsFiniteSet(R)
    BY FS_Subset
<1>3. q \in Seq(R) /\ \A m, n \in 1 .. Len(q) : q[m] = q[n] => m = n
    BY <1>1, <1>2, SeqsOf
<1>. QED
    BY <1>3

(* getAddrs takes one of each key that is not marked. *)
LEMMA GetAddrs ==
    ASSUME NEW infos, IsFiniteSet(infos), NEW addrs \in getAddrs(infos)
    PROVE  /\ addrs \subseteq infos
           /\ \A i \in addrs : Key(i) \notin serviceList
           /\ \A i, j \in addrs : Key(i) = Key(j) => i = j
           /\ \A i \in infos : Key(i) \notin serviceList => \E j \in addrs : Key(j) = Key(i)
<1>1. /\ addrs \subseteq infos
      /\ \A i \in addrs : Key(i) \notin serviceList
    BY DEF getAddrs
<1>2. \A i \in infos : Key(i) \notin serviceList
                         => Cardinality({j \in addrs : Key(j) = Key(i)}) = 1
    BY DEF getAddrs
<1>3. ASSUME NEW i \in infos, Key(i) \notin serviceList
      PROVE  \E x : {j \in addrs : Key(j) = Key(i)} = {x}
    <2>1. IsFiniteSet({j \in addrs : Key(j) = Key(i)})
        BY <1>1, FS_Subset
    <2>. QED
        BY <1>2, <1>3, <2>1, FS_Singleton
<1>4. \A i, j \in addrs : Key(i) = Key(j) => i = j
    <2>. SUFFICES ASSUME NEW i \in addrs, NEW j \in addrs, Key(i) = Key(j) PROVE i = j
        OBVIOUS
    <2>1. PICK x : {k \in addrs : Key(k) = Key(i)} = {x}
        BY <1>1, <1>3
    <2>. QED
        BY <2>1
<1>5. ASSUME NEW i \in infos, Key(i) \notin serviceList
      PROVE  \E j \in addrs : Key(j) = Key(i)
    <2>1. PICK x : {k \in addrs : Key(k) = Key(i)} = {x}
        BY <1>3, <1>5
    <2>. QED
        BY <2>1
<1>. QED
    BY <1>1, <1>4, <1>5

(* The sequence of what is still to be dialled, without its first. *)
LEMMA TailOf ==
    ASSUME NEW S, NEW q \in Seq(S), q # <<>>
    PROVE  /\ Len(q) \in Nat \ {0} /\ Head(q) = q[1] /\ Head(q) \in S
           /\ Tail(q) \in Seq(S) /\ Len(Tail(q)) = Len(q) - 1
           /\ \A n \in 1 .. Len(Tail(q)) : n + 1 \in 1 .. Len(q) /\ Tail(q)[n] = q[n + 1]
BY HeadTailProperties

-----------------------------------------------------------------------------
(* The inductive invariant: the initial states and the world's steps.      *)

(* Discover starts with nothing connected and nothing marked. *)
LEMMA InitIInv == Init => IInv
<1>. SUFFICES ASSUME Init PROVE IInv
    OBVIOUS
<1>1. /\ opts \in Options /\ up \subseteq Instances /\ listed = up /\ steady = up /\ gone = {}
      /\ serviceList = {} /\ todo = <<>> /\ conns = <<>> /\ refused = {}
      /\ pc = "look" /\ tier = 1 /\ timeout = Rounds /\ ownID = "none"
    BY DEF Init, InScope
<1>2. Len(todo) = 0 /\ Len(conns) = 0 /\ Rounds \in Int
    BY <1>1, RoundsType
<1>3. \A i \in Instances : Tier[i] \in 1..5
    BY DiscoverAssumption
<1>4. TypeOK
    <2>1. infoUp \in BOOLEAN /\ registryAddr \in {"", "NA", "addr"}
        BY DEF Init
    <2>2. timeout \in Int /\ (Rounds >= 0 => timeout \in 0 .. Rounds)
        BY <1>1, <1>2
    <2>3. todo \in Seq(Instances) /\ conns \in Seq(Instances) /\ tier \in 1..6
        BY <1>1
    <2>. QED
        BY <1>1, <2>1, <2>2, <2>3, Zenon DEF TypeOK
<1>5. WorldInv /\ StepInv
    BY <1>1 DEF WorldInv, StepInv
<1>6. CountInv
    BY <1>1, <1>2, ExpectType DEF CountInv
<1>7. ConnsInv /\ NetInv /\ NearInv /\ OwnInv
    BY <1>1, <1>2 DEF ConnsInv, NetInv, NearInv, OwnInv
<1>8. MarkedInv /\ PassedInv /\ PendingInv
    BY <1>1, <1>3 DEF MarkedInv, PassedInv, PendingInv
<1>. QED
    BY <1>4, <1>5, <1>6, <1>7, <1>8 DEF IInv

(* The invariant is about the search and the instances up since the call,  *)
(* of which there are only fewer.                                          *)
LEMMA SearchUnchanged ==
    ASSUME IInv, UNCHANGED search, steady' \subseteq steady,
           up' \subseteq Instances, listed' \subseteq Instances, gone' \subseteq Instances,
           infoUp' \in BOOLEAN, WorldInv'
    PROVE  IInv'
<1>1. /\ opts' = opts /\ registryAddr' = registryAddr /\ serviceList' = serviceList /\ pc' = pc
      /\ tier' = tier /\ todo' = todo /\ timeout' = timeout /\ conns' = conns
      /\ refused' = refused /\ ownID' = ownID
    BY DEF search
<1>2. /\ Expect' = Expect
      /\ \A i \in Instances : Key(i)' = Key(i)
      /\ \A t \in 1..6 : Asked(t)' = Asked(t)
      /\ \A j \in Instances : Sought(j)' <=> Sought(j)
      /\ Rounds' = Rounds /\ \A j \in Instances : Missed(j)' <=> Missed(j)
    BY <1>1, OptsFixed
<1>3. TypeOK
    BY DEF IInv
<1>4. /\ todo \in Seq(Instances) /\ conns \in Seq(Instances) /\ tier \in 1..6
      /\ refused \subseteq Instances /\ steady \subseteq Instances
    BY <1>3 DEF TypeOK
<1>5. \A i \in Instances : RefusedKey(i)' <=> RefusedKey(i)
    BY <1>1, <1>2, <1>4 DEF RefusedKey
<1>6. \A i \in Instances : Pending(i)' <=> Pending(i)
    BY <1>1, <1>2, <1>4 DEF Pending
<1>7. TypeOK'
    BY <1>1, <1>2, <1>3 DEF TypeOK
<1>8. StepInv' /\ CountInv'
    BY <1>1, <1>2, <1>4 DEF IInv, StepInv, CountInv
<1>9. ConnsInv'
    <2>1. \A n \in 1 .. Len(conns) : conns[n] \in Instances /\ Tier[conns[n]] \in 1..6
        BY <1>4, DiscoverAssumption
    <2>. QED
        BY <1>1, <1>2, <2>1 DEF IInv, ConnsInv
<1>10. NetInv'
    <2>1. NetInv
        BY DEF IInv
    <2>2. /\ \A n \in 1 .. Len(todo) : todo[n] \in Instances /\ Key(todo[n])' = Key(todo[n])
          /\ \A n \in 1 .. Len(conns) : conns[n] \in Instances /\ Key(conns[n])' = Key(conns[n])
        BY <1>1, <1>2, <1>4
    <2>. QED
        BY <1>1, <2>1, <2>2 DEF NetInv
<1>11. MarkedInv'
    BY <1>1, <1>2, <1>5, <1>6 DEF IInv, MarkedInv
<1>12. PassedInv' /\ PendingInv'
    BY <1>1, <1>2, <1>4, <1>5, <1>6 DEF IInv, PassedInv, PendingInv, Looking
<1>13. NearInv'
    BY <1>1, <1>2, <1>4, <1>5 DEF IInv, NearInv
<1>14. OwnInv'
    BY <1>1, <1>2 DEF IInv, OwnInv, OwnDirOnly, IsWild
<1>. QED
    BY <1>7, <1>8, <1>9, <1>10, <1>11, <1>12, <1>13, <1>14 DEF IInv

(* A service is published, stops, or is forgotten; the info service starts. *)
LEMMA WorldStep ==
    ASSUME IInv, World
    PROVE  IInv'
<1>1. TypeOK /\ WorldInv
    BY DEF IInv
<1>2. CASE InfoAppears
    BY <1>1, <1>2, SearchUnchanged DEF InfoAppears, TypeOK, WorldInv
<1>3. ASSUME NEW i \in Instances, Appear(i)
      PROVE  IInv'
    BY <1>1, <1>3, SearchUnchanged DEF Appear, TypeOK, WorldInv
<1>4. ASSUME NEW i \in Instances, Vanish(i)
      PROVE  IInv'
    BY <1>1, <1>4, SearchUnchanged DEF Vanish, TypeOK, WorldInv
<1>5. ASSUME NEW i \in Instances, Unlist(i)
      PROVE  IInv'
    BY <1>1, <1>5, SearchUnchanged DEF Unlist, TypeOK, WorldInv
<1>. QED
    BY <1>2, <1>3, <1>4, <1>5 DEF World

-----------------------------------------------------------------------------
(* The inductive invariant: the steps of the search.                       *)

(* What no step of the search changes. *)
LEMMA WorldUnchanged ==
    ASSUME IInv, UNCHANGED world
    PROVE  /\ opts' = opts /\ steady' = steady /\ listed' = listed /\ WorldInv'
           /\ Expect' = Expect /\ Expect \in Int
           /\ \A i \in Instances : Key(i)' = Key(i)
           /\ \A t \in 1..6 : Asked(t)' = Asked(t)
           /\ \A j \in Instances : Sought(j)' <=> Sought(j)
           /\ \A i \in Instances : Tier[i] \in 1..5
           /\ Rounds' = Rounds
           /\ ownID' = ownID => \A j \in Instances : Missed(j)' <=> Missed(j)
<1>1. opts' = opts /\ steady' = steady /\ listed' = listed /\ gone' = gone
    BY DEF world
<1>2. WorldInv'
    BY <1>1 DEF IInv, WorldInv
<1>3. Expect \in Int
    BY ExpectType DEF IInv, TypeOK
<1>. QED
    BY <1>1, <1>2, <1>3, OptsFixed, DiscoverAssumption

(* The search goes on without dialling: RoundDone, Wake and TierDone. *)
LEMMA NothingDialled ==
    ASSUME IInv, UNCHANGED <<world, serviceList, ownID, todo, conns, refused>>,
           pc \notin {"end", "stuck"}, todo = <<>>, pc' \in {"look", "sleep", "end"},
           TypeOK', pc' = "sleep" => timeout' # 0, PassedInv'
    PROVE  IInv'
<1>1. /\ serviceList' = serviceList /\ todo' = todo /\ conns' = conns /\ refused' = refused
      /\ ownID' = ownID /\ UNCHANGED world
    OBVIOUS
<1>2. /\ opts' = opts /\ steady' = steady /\ WorldInv' /\ Expect' = Expect /\ Expect \in Int
      /\ \A i \in Instances : Key(i)' = Key(i)
      /\ \A t \in 1..6 : Asked(t)' = Asked(t)
      /\ \A j \in Instances : Sought(j)' <=> Sought(j)
      /\ \A i \in Instances : Tier[i] \in 1..5
      /\ Rounds' = Rounds /\ \A j \in Instances : Missed(j)' <=> Missed(j)
    BY <1>1, WorldUnchanged
<1>3. /\ conns \in Seq(Instances) /\ refused \subseteq Instances /\ steady \subseteq Instances
      /\ Len(todo) = 0
    BY DEF IInv, TypeOK
<1>4. \A i \in Instances : RefusedKey(i)' <=> RefusedKey(i)
    BY <1>1, <1>2, <1>3 DEF RefusedKey
<1>5. \A i \in Instances : ~Pending(i)
    BY <1>3 DEF Pending
<1>6. StepInv' /\ NetInv' /\ PendingInv'
    BY <1>1 DEF StepInv, NetInv, PendingInv
<1>7. CountInv'
    BY <1>1, <1>2 DEF IInv, CountInv
<1>8. ConnsInv'
    BY <1>1, <1>2, <1>3 DEF IInv, ConnsInv
<1>9. MarkedInv'
    <2>1. \A i \in Instances : Expect = 1 /\ Key(i) \in serviceList => RefusedKey(i)
        BY <1>5 DEF IInv, MarkedInv
    <2>. QED
        BY <1>1, <1>2, <1>4, <2>1 DEF MarkedInv
<1>10. NearInv'
    BY <1>1, <1>2, <1>3, <1>4 DEF IInv, NearInv
<1>11. OwnInv'
    BY <1>1, <1>2 DEF IInv, OwnInv, OwnDirOnly, IsWild
<1>. QED
    BY <1>2, <1>6, <1>7, <1>8, <1>9, <1>10, <1>11 DEF IInv

(* The next tier. *)
LEMMA TierDoneStep ==
    ASSUME IInv, TierDone
    PROVE  IInv'
<1>1. /\ UNCHANGED <<world, serviceList, ownID, todo, conns, refused>> /\ UNCHANGED world
      /\ UNCHANGED <<registryAddr, timeout>> /\ tier' = tier + 1 /\ pc' = "look"
      /\ pc \in {"look", "dial"}
    BY DEF TierDone, NextTier
<1>2. todo = <<>> /\ tier \in 1..5
    BY DEF TierDone, IInv, StepInv
<1>3. /\ opts' = opts /\ steady' = steady /\ Expect' = Expect
      /\ \A i \in Instances : Key(i)' = Key(i)
      /\ \A j \in Instances : Sought(j)' <=> Sought(j)
      /\ \A i \in Instances : Tier[i] \in 1..5
      /\ Rounds' = Rounds /\ \A j \in Instances : Missed(j)' <=> Missed(j)
    BY <1>1, WorldUnchanged
<1>4. TypeOK'
    <2>1. tier' \in 1..6
        BY <1>1, <1>2
    <2>. QED
        BY <1>1, <1>3, <2>1 DEF IInv, TypeOK, world
<1>5. PassedInv'
    <2>. SUFFICES ASSUME Expect = 1, NEW j \in steady, Sought(j), Tier[j] < tier + 1, tier + 1 <= 5
                  PROVE  RefusedKey(j)' \/ Missed(j)
        <3>1. steady \subseteq Instances
            BY DEF IInv, TypeOK
        <3>. QED
            BY <1>1, <1>3, <3>1 DEF PassedInv, Looking
    <2>1. j \in Instances /\ refused \subseteq Instances
        BY DEF IInv, TypeOK
    <2>2. Looking /\ Tier[j] \in 1..5
        BY <1>1, <1>2, <1>3, <2>1 DEF Looking
    <2>3. CASE Tier[j] < tier
        <3>1. RefusedKey(j) \/ Missed(j)
            BY <2>2, <2>3 DEF IInv, PassedInv
        <3>. QED
            BY <1>1, <1>3, <2>1, <3>1 DEF RefusedKey
    <2>4. CASE Tier[j] = tier
        <3>1. Wanted(tier)
            BY <2>4 DEF Sought
        <3>2. pc = "dial"
            BY <1>1, <3>1 DEF TierDone
        <3>3. tier <= 4
            BY <1>2
        <3>4. RefusedKey(j) \/ Pending(j) \/ Missed(j)
            BY <2>2, <2>4, <3>2, <3>3 DEF IInv, PendingInv
        <3>5. ~Pending(j)
            BY <1>2 DEF Pending
        <3>. QED
            BY <1>1, <1>3, <2>1, <3>4, <3>5 DEF RefusedKey
    <2>. QED
        BY <1>2, <2>2, <2>3, <2>4
<1>. QED
    BY <1>1, <1>2, <1>4, <1>5, NothingDialled

(* The end of a round. *)
LEMMA RoundDoneStep ==
    ASSUME IInv, RoundDone
    PROVE  IInv'
<1>1. /\ UNCHANGED <<world, serviceList, ownID, todo, conns, refused>> /\ UNCHANGED world
      /\ UNCHANGED <<registryAddr, tier, timeout>> /\ tier = 6 /\ pc = "look"
      /\ pc' = IF timeout = 0 THEN "end" ELSE "sleep"
    BY DEF RoundDone
<1>2. todo = <<>>
    BY <1>1 DEF IInv, StepInv
<1>3. TypeOK'
    BY <1>1, WorldUnchanged DEF IInv, TypeOK, world
<1>4. PassedInv'
    BY <1>1 DEF PassedInv, Looking
<1>. QED
    BY <1>1, <1>2, <1>3, <1>4, NothingDialled

(* The timer of the sleep fires. *)
LEMMA WakeStep ==
    ASSUME IInv, Wake
    PROVE  IInv'
<1>1. /\ UNCHANGED <<world, serviceList, ownID, todo, conns, refused>> /\ UNCHANGED world
      /\ UNCHANGED registryAddr /\ tier' = 1 /\ pc = "sleep" /\ pc' \in {"look", "end"}
      /\ timeout' = IF timeout < 0 THEN timeout ELSE timeout - 1
    BY DEF Wake
<1>2. todo = <<>> /\ timeout # 0
    BY <1>1 DEF IInv, StepInv
<1>3. opts' = opts /\ steady' = steady /\ \A i \in Instances : Tier[i] \in 1..5
    BY <1>1, WorldUnchanged
<1>4. TypeOK'
    <2>1. opts \in Options /\ timeout \in Int /\ (Rounds >= 0 => timeout \in 0 .. Rounds)
        BY DEF IInv, TypeOK
    <2>2. Rounds \in Int /\ Rounds' = Rounds
        BY <1>1, <2>1, RoundsType, WorldUnchanged
    <2>3. timeout' \in Int /\ (Rounds' >= 0 => timeout' \in 0 .. Rounds')
        BY <1>1, <1>2, <2>1, <2>2
    <2>4. /\ opts' \in Options /\ up' \subseteq Instances /\ listed' \subseteq Instances
          /\ gone' \subseteq Instances /\ infoUp' \in BOOLEAN
          /\ registryAddr' \in {"", "NA", "addr"} /\ ownID' \in {"none", "NA", "cached"}
          /\ todo' \in Seq(Instances) /\ conns' \in Seq(Instances)
          /\ refused' \subseteq Instances /\ steady' \subseteq Instances
        BY <1>1, Zenon DEF IInv, TypeOK, world
    <2>6. tier' \in 1..6 /\ pc' \in {"look", "dial", "sleep", "stuck", "end"}
        BY <1>1
    <2>5. serviceList' \subseteq {Key(i)' : i \in Instances}
        BY <1>1, WorldUnchanged DEF IInv, TypeOK
    <2>. QED
        BY <1>1, <1>3, <2>3, <2>4, <2>5, <2>6, Zenon DEF TypeOK
<1>5. PassedInv'
    <2>1. \A j \in steady : Tier[j] \in 1..5
        BY <1>3 DEF IInv, TypeOK
    <2>. QED
        BY <1>1, <1>3, <2>1 DEF PassedInv
<1>. QED
    BY <1>1, <1>2, <1>4, <1>5, NothingDialled

(* What is to be dialled loses its first: a key among the rest is still    *)
(* pending, and one that was pending is the first's or is still pending.   *)
LEMMA HeadTaken ==
    ASSUME IInv, UNCHANGED world, todo # <<>>, todo' = Tail(todo)
    PROVE  /\ Head(todo) \in Instances /\ todo' \in Seq(Instances)
           /\ pc = "dial" => Head(todo) \in Asked(tier)
           /\ pc = "dial" => \A n \in 1 .. Len(todo') : todo'[n] \in Asked(tier)
           /\ \A i \in Instances : Pending(i) => Key(i) = Key(Head(todo)) \/ Pending(i)'
<1>1. todo \in Seq(Instances)
    BY DEF IInv, TypeOK
<1>2. /\ Len(todo) \in Nat \ {0} /\ Head(todo) = todo[1] /\ Head(todo) \in Instances
      /\ Tail(todo) \in Seq(Instances) /\ Len(Tail(todo)) = Len(todo) - 1
      /\ \A n \in 1 .. Len(Tail(todo)) : n + 1 \in 1 .. Len(todo) /\ Tail(todo)[n] = todo[n + 1]
    BY <1>1, TailOf
<1>3. ASSUME pc = "dial"
      PROVE  /\ Head(todo) \in Asked(tier)
             /\ \A n \in 1 .. Len(todo') : todo'[n] \in Asked(tier)
    <2>1. \A n \in 1 .. Len(todo) : todo[n] \in Asked(tier)
        BY <1>3 DEF IInv, StepInv
    <2>2. 1 \in 1 .. Len(todo)
        BY <1>2
    <2>. QED
        BY <1>2, <2>1, <2>2
<1>4. ASSUME NEW i \in Instances, Pending(i), Key(i) # Key(Head(todo))
      PROVE  Pending(i)'
    <2>1. PICK n \in 1 .. Len(todo) : Key(todo[n]) = Key(i)
        BY <1>4 DEF Pending
    <2>2. n # 1
        BY <1>2, <1>4, <2>1
    <2>3. n - 1 \in 1 .. Len(Tail(todo)) /\ (n - 1) + 1 = n
        BY <1>2, <2>2
    <2>4. Tail(todo)[n - 1] = todo[n] /\ todo[n] \in Instances
        BY <1>1, <1>2, <2>3
    <2>5. Key(todo[n - 1])' = Key(i)'
        BY <2>1, <2>4, WorldUnchanged
    <2>. QED
        BY <2>3, <2>5 DEF Pending
<1>. QED
    BY <1>2, <1>3, <1>4

(* A step that keeps the tier and the timeout keeps the types. *)
LEMMA TypeStep ==
    ASSUME IInv, UNCHANGED world, UNCHANGED <<tier, timeout>>,
           registryAddr' \in {"", "NA", "addr"}, ownID' \in {"none", "NA", "cached"}, serviceList' \subseteq {Key(i) : i \in Instances},
           pc' \in {"look", "dial", "sleep", "stuck", "end"},
           todo' \in Seq(Instances), conns' \in Seq(Instances), refused' \subseteq Instances
    PROVE  TypeOK'
<1>1. serviceList' \subseteq {Key(i)' : i \in Instances}
    BY WorldUnchanged
<1>2. Rounds' = Rounds
    BY WorldUnchanged
<1>3. timeout' \in Int /\ (Rounds' >= 0 => timeout' \in 0 .. Rounds')
    BY <1>2, Zenon DEF IInv, TypeOK
<1>. QED
    BY <1>1, <1>3, Zenon DEF IInv, TypeOK, world

(* An instance that was marked already is skipped. *)
LEMMA SkipStep ==
    ASSUME IInv, Skip
    PROVE  IInv'
<1>1. /\ UNCHANGED world /\ UNCHANGED <<registryAddr, ownID, serviceList, pc, tier, timeout, conns, refused>>
      /\ UNCHANGED <<tier, timeout>>
      /\ pc = "dial" /\ tier \in 1..3 /\ todo # <<>> /\ todo' = Tail(todo)
      /\ Key(Head(todo)) \in serviceList
    BY DEF Skip, OSTiers
<1>2. /\ opts' = opts /\ steady' = steady /\ WorldInv' /\ Expect' = Expect
      /\ \A i \in Instances : Key(i)' = Key(i)
      /\ \A t \in 1..6 : Asked(t)' = Asked(t)
      /\ \A j \in Instances : Sought(j)' <=> Sought(j)
      /\ \A i \in Instances : Tier[i] \in 1..5
      /\ \A j \in Instances : Missed(j)' <=> Missed(j)
    BY <1>1, WorldUnchanged
<1>3. /\ Head(todo) \in Instances /\ todo' \in Seq(Instances)
      /\ \A n \in 1 .. Len(todo') : todo'[n] \in Asked(tier)
      /\ \A i \in Instances : Pending(i) => Key(i) = Key(Head(todo)) \/ Pending(i)'
    BY <1>1, HeadTaken
<1>4. /\ conns \in Seq(Instances) /\ refused \subseteq Instances /\ steady \subseteq Instances
    BY DEF IInv, TypeOK
<1>5. TypeOK'
    <2>1. /\ registryAddr' \in {"", "NA", "addr"} /\ ownID' \in {"none", "NA", "cached"}
          /\ serviceList' \subseteq {Key(i) : i \in Instances}
          /\ pc' \in {"look", "dial", "sleep", "stuck", "end"}
          /\ conns' \in Seq(Instances) /\ refused' \subseteq Instances
        BY <1>1, Zenon DEF IInv, TypeOK
    <2>. QED
        BY <1>1, <1>3, <2>1, TypeStep
<1>6. \A i \in Instances : RefusedKey(i)' <=> RefusedKey(i)
    BY <1>1, <1>2, <1>4 DEF RefusedKey
<1>7. \A i \in Instances : Expect = 1 /\ Key(i) \in serviceList => RefusedKey(i)
    BY <1>1 DEF IInv, MarkedInv
<1>8. StepInv'
    BY <1>1, <1>2, <1>3 DEF StepInv
<1>9. CountInv'
    BY <1>1, <1>2 DEF IInv, CountInv
<1>10. ConnsInv'
    <2>1. \A n \in 1..Len(conns) : conns[n] \in Instances /\ Tier[conns[n]] \in 1..6
        BY <1>2, <1>4
    <2> QED
        BY <1>1, <1>2, <2>1, SMTT(30) DEF IInv, ConnsInv
<1>11. NetInv'
    BY <1>1 DEF NetInv
<1>12. MarkedInv'
    BY <1>1, <1>2, <1>6, <1>7 DEF MarkedInv
<1>13. PassedInv'
    BY <1>1, <1>2, <1>4, <1>6 DEF IInv, PassedInv, Looking
<1>14. PendingInv'
    <2>. SUFFICES ASSUME Expect = 1, NEW j \in steady, Sought(j), Tier[j] = tier
                  PROVE  RefusedKey(j) \/ Pending(j)' \/ Missed(j)
        BY <1>1, <1>2, <1>4, <1>6 DEF PendingInv, Looking
    <2>1. RefusedKey(j) \/ Pending(j) \/ Missed(j)
        BY <1>1 DEF IInv, PendingInv, Looking
    <2>2. j \in Instances
        BY <1>4
    <2>3. ASSUME Key(j) = Key(Head(todo)) PROVE RefusedKey(j)
        BY <1>1, <1>7, <2>2, <2>3
    <2>. QED
        BY <1>3, <2>1, <2>2, <2>3
<1>15. NearInv'
    BY <1>1, <1>2, <1>4, <1>6 DEF IInv, NearInv
<1>16. OwnInv'
    BY <1>1, <1>2 DEF IInv, OwnInv, OwnDirOnly, IsWild
<1>. QED
    BY <1>2, <1>5, <1>8, <1>9, <1>10, <1>11, <1>12, <1>13, <1>14, <1>15, <1>16 DEF IInv

(* What holds when an instance is dialled, whether it accepts or not: it   *)
(* was asked for, is marked now, and is not connected yet.                 *)
LEMMA DialledStep ==
    ASSUME IInv, UNCHANGED <<world, tier, timeout>>, UNCHANGED world,
           NEW i \in Instances, Dialled(i)
    PROVE  /\ i = Head(todo) /\ pc = "dial" /\ tier \in 1..5 /\ i \in Asked(tier) /\ Tier[i] = tier
           /\ Key(i) \in serviceList' /\ serviceList \subseteq serviceList'
           /\ serviceList' \subseteq {Key(k) : k \in Instances}
           /\ \A k \in Instances : Key(k) \in serviceList' => Key(k) \in serviceList \/ Key(k) = Key(i)
           /\ \A m \in 1 .. Len(conns) : Key(conns[m]) # Key(i)
           /\ todo' \in Seq(Instances)
           /\ \A n \in 1 .. Len(todo') : todo'[n] \in Asked(tier)
           /\ \A k \in Instances : Pending(k) => Key(k) = Key(i) \/ Pending(k)'
           /\ tier \in 4..5 =>
                /\ \A n \in 1 .. Len(todo') : Key(todo'[n]) \in serviceList /\ Key(todo'[n]) # Key(i)
                /\ \A n \in 1 .. Len(todo'), m \in 1 .. Len(conns) : Key(todo'[n]) # Key(conns[m])
                /\ \A m, n \in 1 .. Len(todo') : Key(todo'[m]) = Key(todo'[n]) => m = n
<1>1. /\ pc = "dial" /\ todo # <<>> /\ i = Head(todo) /\ todo' = Tail(todo)
      /\ tier \in 1..3 => Key(i) \notin serviceList
      /\ serviceList' = IF tier \in 1..3 THEN serviceList \cup {Key(i)} ELSE serviceList
    BY DEF Dialled, OSTiers, addToserviceList
<1>2. /\ todo' \in Seq(Instances) /\ i \in Asked(tier)
      /\ \A n \in 1 .. Len(todo') : todo'[n] \in Asked(tier)
      /\ \A k \in Instances : Pending(k) => Key(k) = Key(i) \/ Pending(k)'
    BY <1>1, HeadTaken
<1>3. tier \in 1..5
    BY <1>1 DEF IInv, StepInv
<1>4. Tier[i] = tier
    BY <1>2 DEF Asked
<1>5. todo \in Seq(Instances) /\ conns \in Seq(Instances)
      /\ serviceList \subseteq {Key(k) : k \in Instances}
    BY DEF IInv, TypeOK
<1>6. /\ Len(todo) \in Nat \ {0} /\ Head(todo) = todo[1] /\ Len(Tail(todo)) = Len(todo) - 1
      /\ \A n \in 1 .. Len(Tail(todo)) : n + 1 \in 1 .. Len(todo) /\ Tail(todo)[n] = todo[n + 1]
    BY <1>1, <1>5, TailOf
<1>7. 1 \in 1 .. Len(todo)
    BY <1>6
<1>8. ASSUME tier \in 4..5
      PROVE  /\ \A n \in 1 .. Len(todo) : Key(todo[n]) \in serviceList
             /\ \A n \in 1 .. Len(todo), m \in 1 .. Len(conns) : Key(todo[n]) # Key(conns[m])
             /\ \A m, n \in 1 .. Len(todo) : Key(todo[m]) = Key(todo[n]) => m = n
    BY <1>1, <1>8 DEF IInv, NetInv
<1>9. Key(i) \in serviceList' /\ serviceList \subseteq serviceList'
    <2>1. CASE tier \in 1..3
        BY <1>1, <2>1
    <2>2. CASE tier \in 4..5
        BY <1>1, <1>6, <1>7, <1>8, <2>2
    <2>. QED
        BY <1>3, <2>1, <2>2
<1>10. /\ serviceList' \subseteq {Key(k) : k \in Instances}
       /\ \A k \in Instances : Key(k) \in serviceList' => Key(k) \in serviceList \/ Key(k) = Key(i)
    BY <1>1, <1>5
<1>11. \A m \in 1 .. Len(conns) : Key(conns[m]) # Key(i)
    <2>1. CASE tier \in 1..3
        BY <1>1, <2>1 DEF IInv, ConnsInv
    <2>2. CASE tier \in 4..5
        BY <1>1, <1>6, <1>7, <1>8, <2>2
    <2>. QED
        BY <1>3, <2>1, <2>2
<1>12. ASSUME tier \in 4..5
       PROVE  /\ \A n \in 1 .. Len(todo') : Key(todo'[n]) \in serviceList /\ Key(todo'[n]) # Key(i)
              /\ \A n \in 1 .. Len(todo'), m \in 1 .. Len(conns) : Key(todo'[n]) # Key(conns[m])
              /\ \A m, n \in 1 .. Len(todo') : Key(todo'[m]) = Key(todo'[n]) => m = n
    <2>1. \A n \in 1 .. Len(todo') : n + 1 \in 1 .. Len(todo) /\ todo'[n] = todo[n + 1]
        BY <1>1, <1>6
    <2>2. \A n \in 1 .. Len(todo') : n + 1 # 1
        OBVIOUS
    <2>3. \A n \in 1 .. Len(todo') : Key(todo'[n]) \in serviceList /\ Key(todo'[n]) # Key(i)
        BY <1>1, <1>6, <1>7, <1>8, <1>12, <2>1, <2>2
    <2>4. \A n \in 1 .. Len(todo'), m \in 1 .. Len(conns) : Key(todo'[n]) # Key(conns[m])
        BY <1>8, <1>12, <2>1
    <2>5. ASSUME NEW m \in 1 .. Len(todo'), NEW n \in 1 .. Len(todo'), Key(todo'[m]) = Key(todo'[n])
          PROVE  m = n
        <3>1. m + 1 = n + 1
            BY <1>8, <1>12, <2>1, <2>5
        <3>. QED
            BY <3>1
    <2>. QED
        BY <2>3, <2>4, <2>5
<1>. QED
    BY <1>1, <1>2, <1>3, <1>4, <1>9, <1>10, <1>11, <1>12

(* An instance that is dialled accepts. *)
LEMMA ConnectStep ==
    ASSUME IInv, NEW i \in Instances, Connect(i)
    PROVE  IInv'
<1>1. /\ Dialled(i) /\ UNCHANGED world /\ UNCHANGED <<world, tier, timeout>>
      /\ UNCHANGED <<tier, timeout>> /\ UNCHANGED <<registryAddr, ownID, refused>>
      /\ conns' = Append(conns, i) /\ pc' = IF Len(conns') = Expect THEN "end" ELSE "dial"
    BY DEF Connect, Enough
<1>2. /\ opts' = opts /\ steady' = steady /\ WorldInv' /\ Expect' = Expect /\ Expect \in Int
      /\ \A k \in Instances : Key(k)' = Key(k)
      /\ \A t \in 1..6 : Asked(t)' = Asked(t)
      /\ \A j \in Instances : Sought(j)' <=> Sought(j)
      /\ \A k \in Instances : Tier[k] \in 1..5
      /\ \A j \in Instances : Missed(j)' <=> Missed(j)
    BY <1>1, WorldUnchanged
<1>3. /\ pc = "dial" /\ tier \in 1..5 /\ i \in Asked(tier) /\ Tier[i] = tier
      /\ Key(i) \in serviceList' /\ serviceList \subseteq serviceList'
      /\ serviceList' \subseteq {Key(k) : k \in Instances}
      /\ \A m \in 1 .. Len(conns) : Key(conns[m]) # Key(i)
      /\ todo' \in Seq(Instances)
      /\ \A n \in 1 .. Len(todo') : todo'[n] \in Asked(tier)
      /\ tier \in 4..5 =>
           /\ \A n \in 1 .. Len(todo') : Key(todo'[n]) \in serviceList /\ Key(todo'[n]) # Key(i)
           /\ \A n \in 1 .. Len(todo'), m \in 1 .. Len(conns) : Key(todo'[n]) # Key(conns[m])
           /\ \A m, n \in 1 .. Len(todo') : Key(todo'[m]) = Key(todo'[n]) => m = n
    BY <1>1, DialledStep
<1>4. conns \in Seq(Instances) /\ refused \subseteq Instances /\ steady \subseteq Instances
    BY DEF IInv, TypeOK
<1>5. /\ conns' \in Seq(Instances) /\ Len(conns) \in Nat /\ Len(conns') = Len(conns) + 1
      /\ \A n \in 1 .. Len(conns) : conns'[n] = conns[n] /\ conns[n] \in Instances
      /\ conns'[Len(conns) + 1] = i
    BY <1>1, <1>4, AppendProperties
<1>6. \A n \in 1 .. Len(conns') : n \in 1 .. Len(conns) \/ n = Len(conns) + 1
    BY <1>5
<1>7. TypeOK'
    <2>1. registryAddr' \in {"", "NA", "addr"} /\ ownID' \in {"none", "NA", "cached"} /\ refused' \subseteq Instances
        BY <1>1, Zenon DEF IInv, TypeOK
    <2>2. pc' \in {"look", "dial", "sleep", "stuck", "end"}
        BY <1>1
    <2>. QED
        BY <1>1, <1>3, <1>5, <2>1, <2>2, TypeStep
<1>8. StepInv'
    BY <1>1, <1>2, <1>3 DEF StepInv
<1>9. CountInv'
    <2>1. Expect > 0 => Len(conns) < Expect
        BY <1>3 DEF IInv, CountInv
    <2>. QED
        BY <1>1, <1>2, <1>5, <2>1 DEF CountInv
<1>10. ConnsInv'
    <2>1. \A n \in 1 .. Len(conns) : conns[n] \in Asked(Tier[conns[n]]) /\ Key(conns[n]) \in serviceList
        BY DEF IInv, ConnsInv
    <2>2. ASSUME NEW n \in 1 .. Len(conns')
          PROVE  conns'[n] \in Asked(Tier[conns'[n]]) /\ Key(conns'[n]) \in serviceList'
        <3>1. CASE n \in 1 .. Len(conns)
            BY <1>2, <1>3, <1>5, <2>1, <3>1
        <3>2. CASE n = Len(conns) + 1
            BY <1>2, <1>3, <1>5, <3>2
        <3>. QED
            BY <1>6, <3>1, <3>2
    <2>3. \A m, n \in 1 .. Len(conns) : Key(conns[m]) = Key(conns[n]) => m = n
        BY DEF IInv, ConnsInv
    <2>4. ASSUME NEW m \in 1 .. Len(conns'), NEW n \in 1 .. Len(conns'),
                 Key(conns'[m]) = Key(conns'[n])
          PROVE  m = n
        BY <1>3, <1>5, <1>6, <2>3, <2>4
    <2>5. \A n \in 1 .. Len(conns') : conns'[n] \in Instances /\ Tier[conns'[n]] \in 1..6
        BY <1>2, <1>5, <1>6
    <2>. QED
        BY <1>2, <2>2, <2>4, <2>5 DEF ConnsInv
<1>11. NetInv'
    <2>1. \A n \in 1 .. Len(conns') : conns'[n] \in Instances
        BY <1>5, <1>6
    <2>2. \A n \in 1 .. Len(todo') : todo'[n] \in Instances
        BY <1>3
    <2>3. ASSUME tier \in 4..5
          PROVE  \A n \in 1 .. Len(todo'), m \in 1 .. Len(conns') : Key(todo'[n]) # Key(conns'[m])
        BY <1>3, <1>5, <1>6, <2>3
    <2>. QED
        BY <1>1, <1>2, <1>3, <2>1, <2>2, <2>3 DEF NetInv
<1>12. Expect = 1 => pc' = "end" /\ Len(conns) = 0
    <2>1. Expect = 1 => Len(conns) < Expect
        BY <1>3 DEF IInv, CountInv
    <2>. QED
        BY <1>1, <1>2, <1>5, <2>1
<1>13. MarkedInv' /\ PassedInv' /\ PendingInv'
    BY <1>2, <1>12 DEF MarkedInv, PassedInv, PendingInv, Looking
<1>14. NearInv'
    <2>. SUFFICES ASSUME Expect = 1, NEW n \in 1 .. Len(conns'), NEW j \in steady,
                         Sought(j), Tier[j] < Tier[conns'[n]]
                  PROVE  RefusedKey(j)' \/ Missed(j)
        BY <1>2, <1>4 DEF NearInv
    <2>1. conns'[n] = i
        BY <1>5, <1>12
    <2>2. RefusedKey(j) \/ Missed(j)
        BY <1>3, <2>1 DEF IInv, PassedInv, Looking
    <2>. QED
        BY <1>1, <1>2, <1>4, <2>2 DEF RefusedKey
<1>15. OwnInv'
    BY <1>1, <1>2 DEF IInv, OwnInv, OwnDirOnly, IsWild
<1>. QED
    BY <1>2, <1>7, <1>8, <1>9, <1>10, <1>11, <1>13, <1>14, <1>15 DEF IInv

(* An instance that is dialled does not accept. *)
LEMMA RefusedStep ==
    ASSUME IInv, NEW i \in Instances, Refused(i)
    PROVE  IInv'
<1>1. /\ Dialled(i) /\ UNCHANGED world /\ UNCHANGED <<world, tier, timeout>>
      /\ UNCHANGED <<tier, timeout>> /\ UNCHANGED <<registryAddr, ownID, pc, conns>>
      /\ refused' = refused \cup {i}
    BY DEF Refused
<1>2. /\ opts' = opts /\ steady' = steady /\ WorldInv' /\ Expect' = Expect /\ Expect \in Int
      /\ \A k \in Instances : Key(k)' = Key(k)
      /\ \A t \in 1..6 : Asked(t)' = Asked(t)
      /\ \A j \in Instances : Sought(j)' <=> Sought(j)
      /\ \A k \in Instances : Tier[k] \in 1..5
      /\ \A j \in Instances : Missed(j)' <=> Missed(j)
    BY <1>1, WorldUnchanged
<1>3. /\ pc = "dial" /\ tier \in 1..5 /\ serviceList \subseteq serviceList'
      /\ serviceList' \subseteq {Key(k) : k \in Instances}
      /\ \A k \in Instances : Key(k) \in serviceList' => Key(k) \in serviceList \/ Key(k) = Key(i)
      /\ todo' \in Seq(Instances)
      /\ \A n \in 1 .. Len(todo') : todo'[n] \in Asked(tier)
      /\ \A k \in Instances : Pending(k) => Key(k) = Key(i) \/ Pending(k)'
      /\ tier \in 4..5 =>
           /\ \A n \in 1 .. Len(todo') : Key(todo'[n]) \in serviceList
           /\ \A n \in 1 .. Len(todo'), m \in 1 .. Len(conns) : Key(todo'[n]) # Key(conns[m])
           /\ \A m, n \in 1 .. Len(todo') : Key(todo'[m]) = Key(todo'[n]) => m = n
    BY <1>1, DialledStep
<1>4. conns \in Seq(Instances) /\ refused \subseteq Instances /\ steady \subseteq Instances
    BY DEF IInv, TypeOK
<1>5. \A k \in Instances : (RefusedKey(k) => RefusedKey(k)') /\ (Key(k) = Key(i) => RefusedKey(k)')
    BY <1>1, <1>2, <1>4 DEF RefusedKey
<1>6. TypeOK'
    <2>1. /\ registryAddr' \in {"", "NA", "addr"} /\ ownID' \in {"none", "NA", "cached"}
          /\ conns' \in Seq(Instances)
          /\ pc' \in {"look", "dial", "sleep", "stuck", "end"}
        BY <1>1, Zenon DEF IInv, TypeOK
    <2>2. refused' \subseteq Instances
        BY <1>1, <1>4
    <2>. QED
        BY <1>1, <1>3, <2>1, <2>2, TypeStep
<1>7. StepInv'
    BY <1>1, <1>2, <1>3 DEF StepInv
<1>8. CountInv'
    BY <1>1, <1>2 DEF IInv, CountInv
<1>9. ConnsInv'
    BY <1>1, <1>2, <1>3, <1>4, SMTT(30) DEF IInv, ConnsInv
<1>10. NetInv'
    BY <1>1, <1>2, <1>3, <1>4 DEF NetInv
<1>11. MarkedInv'
    <2>. SUFFICES ASSUME Expect = 1, NEW k \in Instances, Key(k) \in serviceList'
                  PROVE  RefusedKey(k)' \/ (tier \in 4..5 /\ Pending(k)')
        BY <1>1, <1>2, <1>3 DEF MarkedInv
    <2>1. Key(k) \in serviceList => RefusedKey(k) \/ (tier \in 4..5 /\ Pending(k))
        BY <1>3 DEF IInv, MarkedInv
    <2>. QED
        BY <1>3, <1>5, <2>1
<1>12. PassedInv'
    BY <1>1, <1>2, <1>4, <1>5 DEF IInv, PassedInv, Looking
<1>13. PendingInv'
    <2>. SUFFICES ASSUME Expect = 1, tier <= 4, NEW j \in steady, Sought(j), Tier[j] = tier
                  PROVE  RefusedKey(j)' \/ Pending(j)' \/ Missed(j)
        BY <1>1, <1>2, <1>4 DEF PendingInv, Looking
    <2>1. RefusedKey(j) \/ Pending(j) \/ Missed(j)
        BY <1>3 DEF IInv, PendingInv, Looking
    <2>2. j \in Instances
        BY <1>4
    <2>. QED
        BY <1>3, <1>5, <2>1, <2>2
<1>14. NearInv'
    BY <1>1, <1>2, <1>4, <1>5 DEF IInv, NearInv
<1>15. OwnInv'
    BY <1>1, <1>2 DEF IInv, OwnInv, OwnDirOnly, IsWild
<1>. QED
    BY <1>2, <1>6, <1>7, <1>8, <1>9, <1>10, <1>11, <1>12, <1>13, <1>14, <1>15 DEF IInv

(* A search in the process or the OS looks up what there is. *)
LEMMA LookWithinOSStep ==
    ASSUME IInv, LookWithinOS
    PROVE  IInv'
<1>. DEFINE infos == IF tier = 3 /\ ownID' = "NA" THEN {} ELSE lookupService(tier)
<1>1. /\ UNCHANGED world /\ UNCHANGED <<registryAddr, serviceList, conns, refused>>
      /\ UNCHANGED <<tier, timeout>>
      /\ pc = "look" /\ pc' = "dial" /\ tier \in 1..3 /\ todo' \in SetToSeqs(infos)
      /\ ownID' \in GetSelfProviderID
    BY DEF LookWithinOS, OSTiers
<1>2. /\ opts' = opts /\ steady' = steady /\ WorldInv' /\ Expect' = Expect
      /\ \A i \in Instances : Key(i)' = Key(i)
      /\ \A t \in 1..6 : Asked(t)' = Asked(t)
      /\ \A j \in Instances : Sought(j)' <=> Sought(j)
      /\ \A i \in Instances : Tier[i] \in 1..5
    BY <1>1, WorldUnchanged
<1>3. /\ conns \in Seq(Instances) /\ refused \subseteq Instances /\ steady \subseteq Instances
      /\ listed \subseteq Instances /\ steady \subseteq listed
    BY DEF IInv, TypeOK, WorldInv
<1>4. lookupService(tier) = listed \cap Asked(tier)
    BY <1>3, LookupAsks
<1>5. infos \subseteq Instances /\ infos \subseteq Asked(tier)
    BY <1>3, <1>4
<1>6. /\ todo' \in Seq(Instances) /\ \A n \in 1 .. Len(todo') : todo'[n] \in Asked(tier)
      /\ \A x \in infos : \E n \in 1 .. Len(todo') : todo'[n] = x
    <2>. HIDE DEF infos
    <2>1. IsFiniteSet(infos)
        BY <1>5, FS_Subset, DiscoverAssumption
    <2>2. todo' \in Seq(infos) /\ \A x \in infos : \E n \in 1 .. Len(todo') : todo'[n] = x
        BY <1>1, <2>1, SeqsOf
    <2>3. todo' \in Seq(Instances)
        BY <1>5, <2>2
    <2>4. \A n \in 1 .. Len(todo') : todo'[n] \in infos
        BY <2>2
    <2>. QED
        BY <1>5, <2>2, <2>3, <2>4
<1>7. TypeOK'
    <2>1. /\ registryAddr' \in {"", "NA", "addr"} /\ serviceList' \subseteq {Key(i) : i \in Instances}
          /\ conns' \in Seq(Instances) /\ refused' \subseteq Instances
        BY <1>1, Zenon DEF IInv, TypeOK
    <2>2. pc' \in {"look", "dial", "sleep", "stuck", "end"}
        BY <1>1
    <2>3. ownID' \in {"none", "NA", "cached"}
        BY <1>1, Zenon DEF IInv, TypeOK, GetSelfProviderID
    <2>. QED
        BY <1>1, <1>6, <2>1, <2>2, <2>3, TypeStep
<1>8. \A i \in Instances : RefusedKey(i)' <=> RefusedKey(i)
    BY <1>1, <1>2, <1>3 DEF RefusedKey
<1>9. StepInv'
    BY <1>1, <1>2, <1>6 DEF StepInv
<1>10. CountInv'
    BY <1>1, <1>2 DEF IInv, CountInv
<1>11. ConnsInv'
    BY <1>1, <1>2, <1>3 DEF IInv, ConnsInv
<1>12. NetInv'
    BY <1>1 DEF NetInv
<1>13. MarkedInv'
    BY <1>1, <1>2, <1>8 DEF IInv, MarkedInv
<1>14. PassedInv'
    <2>. SUFFICES ASSUME Expect = 1, NEW j \in steady, Sought(j), Tier[j] < tier
                  PROVE  RefusedKey(j)
        BY <1>1, <1>2, <1>3, <1>8 DEF PassedInv, Looking
    <2>1. RefusedKey(j) \/ Missed(j)
        BY <1>1 DEF IInv, PassedInv, Looking
    <2>2. ~Missed(j)
        BY <1>1, <1>2, <1>3 DEF Missed
    <2>. QED
        BY <2>1, <2>2
<1>15. PendingInv'
    <2>. SUFFICES ASSUME NEW j \in steady, Sought(j), Tier[j] = tier
                  PROVE  Pending(j)' \/ Missed(j)'
        BY <1>1, <1>2, <1>3 DEF PendingInv
    <2>1. j \in lookupService(tier)
        BY <1>3, <1>4 DEF Sought
    <2>2. CASE j \in infos
        <3>1. PICK n \in 1 .. Len(todo') : todo'[n] = j
            BY <1>6, <2>2
        <3>. QED
            BY <3>1 DEF Pending
    <2>3. CASE tier = 3 /\ ownID' = "NA"
        <3>1. OwnDirOnly
            BY <1>1, <2>3 DEF IInv, OwnInv, GetSelfProviderID
        <3>2. OwnDirOnly'
            BY <1>2, <3>1 DEF OwnDirOnly, IsWild
        <3>. QED
            BY <2>3, <3>2 DEF Missed
    <2>. QED
        BY <2>1, <2>2, <2>3
<1>16. NearInv'
    <2>1. Expect = 1 => Len(conns) = 0
        <3>1. Len(conns) \in Nat
            BY <1>3
        <3>. QED
            BY <1>1, <3>1 DEF IInv, CountInv
    <2>. QED
        BY <1>1, <1>2, <2>1 DEF NearInv
<1>17. OwnInv'
    <2>1. OwnDirOnly' <=> OwnDirOnly
        BY <1>2 DEF OwnDirOnly, IsWild
    <2>. QED
        BY <1>1, <2>1 DEF IInv, OwnInv, GetSelfProviderID
<1>. QED
    BY <1>2, <1>7, <1>9, <1>10, <1>11, <1>12, <1>13, <1>14, <1>15, <1>16, <1>17 DEF IInv

(* A search in the network marks what it is about to dial. *)
LEMMA LookNetworkStep ==
    ASSUME IInv, LookNetwork
    PROVE  IInv'
<1>. DEFINE infos == IF tier = 5 /\ ResolvedAddr = "NA" THEN {} ELSE lookupService(tier)
<1>1. /\ UNCHANGED world /\ UNCHANGED conns /\ UNCHANGED ownID /\ UNCHANGED <<tier, timeout>>
      /\ pc = "look" /\ tier \in 4..5 /\ registryAddr' = ResolvedAddr
    BY DEF LookNetwork
<1>2. PICK addrs \in getAddrs(infos) :
        /\ serviceList' = serviceList \cup {Key(i) : i \in addrs}
        /\ todo' \in selectAddrs(addrs)
        /\ refused' = refused \cup (addrs \ Range(todo'))
        /\ pc' = IF opts.measured /\ addrs \cap Proxied \cap up # {} THEN "stuck" ELSE "dial"
    BY DEF LookNetwork, addToserviceList
<1>3. /\ opts' = opts /\ steady' = steady /\ WorldInv' /\ Expect' = Expect
      /\ \A i \in Instances : Key(i)' = Key(i)
      /\ \A t \in 1..6 : Asked(t)' = Asked(t)
      /\ \A j \in Instances : Sought(j)' <=> Sought(j)
      /\ \A i \in Instances : Tier[i] \in 1..5
      /\ \A j \in Instances : Missed(j)' <=> Missed(j)
    BY <1>1, WorldUnchanged
<1>4. /\ conns \in Seq(Instances) /\ refused \subseteq Instances /\ steady \subseteq Instances
      /\ listed \subseteq Instances /\ steady \subseteq listed
      /\ serviceList \subseteq {Key(i) : i \in Instances}
    BY DEF IInv, TypeOK, WorldInv
<1>5. lookupService(tier) = listed \cap Asked(tier)
    BY <1>4, LookupAsks
<1>6. infos \subseteq listed \cap Asked(tier) /\ (tier = 4 => infos = listed \cap Asked(tier))
    BY <1>5
<1>. HIDE DEF infos
<1>7. IsFiniteSet(infos)
    <2>1. infos \in SUBSET Instances
        BY <1>4, <1>6
    <2>. QED
        BY <2>1, FS_Subset, DiscoverAssumption
<1>8. /\ addrs \subseteq infos
      /\ \A i \in addrs : Key(i) \notin serviceList
      /\ \A i, j \in addrs : Key(i) = Key(j) => i = j
      /\ \A i \in infos : Key(i) \notin serviceList => \E j \in addrs : Key(j) = Key(i)
    BY <1>2, <1>7, GetAddrs
<1>9. /\ todo' \in Seq(addrs)
      /\ \A m, n \in 1 .. Len(todo') : todo'[m] = todo'[n] => m = n
    <2>1. IsFiniteSet(addrs)
        BY <1>7, <1>8, FS_Subset
    <2>. QED
        BY <1>2, <2>1, SelectAddrs
<1>10. /\ addrs \subseteq Instances /\ addrs \subseteq Asked(tier)
       /\ \A n \in 1 .. Len(todo') : todo'[n] \in addrs
       /\ todo' \in Seq(Instances)
    <2>1. addrs \subseteq Instances /\ addrs \subseteq Asked(tier)
        BY <1>4, <1>6, <1>8
    <2>2. \A n \in 1 .. Len(todo') : todo'[n] \in addrs
        BY <1>9
    <2>3. todo' \in Seq(Instances)
        BY <1>9, <2>1
    <2>. QED
        BY <2>1, <2>2, <2>3
<1>11. \A i \in addrs : i \in refused' \/ \E n \in 1 .. Len(todo') : todo'[n] = i
    <2>1. DOMAIN todo' = 1 .. Len(todo')
        BY <1>10
    <2>. QED
        BY <1>2, <2>1 DEF Range
<1>12. \A i \in Instances : RefusedKey(i) => RefusedKey(i)'
    BY <1>2, <1>3, <1>4 DEF RefusedKey
<1>13. \A i \in Instances, a \in addrs : Key(a) = Key(i) => RefusedKey(i)' \/ Pending(i)'
    <2>. SUFFICES ASSUME NEW i \in Instances, NEW a \in addrs, Key(a) = Key(i)
                  PROVE  RefusedKey(i)' \/ Pending(i)'
        OBVIOUS
    <2>1. Key(a)' = Key(i)'
        BY <1>3, <1>10
    <2>2. CASE a \in refused'
        BY <2>1, <2>2 DEF RefusedKey
    <2>3. CASE \E n \in 1 .. Len(todo') : todo'[n] = a
        BY <2>1, <2>3 DEF Pending
    <2>. QED
        BY <1>11, <2>2, <2>3
<1>14. TypeOK'
    <2>1. registryAddr' \in {"", "NA", "addr"}
        BY <1>1 DEF ResolvedAddr, IInv, TypeOK
    <2>2. serviceList' \subseteq {Key(i) : i \in Instances}
        BY <1>2, <1>4, <1>10
    <2>3. refused' \subseteq Instances /\ conns' \in Seq(Instances)
        BY <1>1, <1>2, <1>4, <1>10
    <2>4. pc' \in {"look", "dial", "sleep", "stuck", "end"}
        BY <1>2
    <2>5. ownID' \in {"none", "NA", "cached"}
        BY <1>1, Zenon DEF IInv, TypeOK
    <2>. QED
        BY <1>1, <1>10, <2>1, <2>2, <2>3, <2>4, <2>5, TypeStep
<1>15. StepInv'
    BY <1>1, <1>2, <1>3, <1>10 DEF StepInv
<1>16. CountInv'
    BY <1>1, <1>3 DEF IInv, CountInv
<1>17. ConnsInv'
    BY <1>1, <1>2, <1>3, <1>4 DEF IInv, ConnsInv
<1>18. NetInv'
    <2>1. \A n \in 1 .. Len(todo') : todo'[n] \in Instances /\ Key(todo'[n])  \in serviceList'
        BY <1>2, <1>10
    <2>2. \A n \in 1 .. Len(todo'), m \in 1 .. Len(conns) : Key(todo'[n]) # Key(conns[m])
        <3>1. \A m \in 1 .. Len(conns) : Key(conns[m]) \in serviceList
            BY DEF IInv, ConnsInv
        <3>. QED
            BY <1>8, <1>10, <3>1
    <2>3. \A m, n \in 1 .. Len(todo') : Key(todo'[m]) = Key(todo'[n]) => m = n
        BY <1>8, <1>9, <1>10
    <2>. QED
        BY <1>1, <1>3, <1>4, <2>1, <2>2, <2>3, SMTT(60) DEF NetInv
<1>19. \A i \in Instances : Expect = 1 /\ Key(i) \in serviceList => RefusedKey(i)'
    BY <1>1, <1>12 DEF IInv, MarkedInv
<1>20. MarkedInv'
    <2>. SUFFICES ASSUME Expect = 1, pc' = "dial", NEW i \in Instances, Key(i) \in serviceList'
                  PROVE  RefusedKey(i)' \/ Pending(i)'
        BY <1>1, <1>2, <1>3 DEF MarkedInv
    <2>1. CASE Key(i) \in serviceList
        BY <1>19, <2>1
    <2>2. CASE Key(i) \notin serviceList
        BY <1>2, <1>13, <2>2
    <2>. QED
        BY <2>1, <2>2
<1>21. PassedInv'
    BY <1>1, <1>3, <1>4, <1>12 DEF IInv, PassedInv, Looking
<1>22. PendingInv'
    <2>. SUFFICES ASSUME Expect = 1, tier = 4, NEW j \in steady, Sought(j), Tier[j] = tier
                  PROVE  RefusedKey(j)' \/ Pending(j)'
        BY <1>1, <1>3, <1>4 DEF PendingInv, Looking
    <2>1. j \in Instances /\ j \in infos
        BY <1>4, <1>6 DEF Sought
    <2>2. CASE Key(j) \in serviceList
        BY <1>19, <2>1, <2>2
    <2>3. CASE Key(j) \notin serviceList
        BY <1>8, <1>13, <2>1, <2>3
    <2>. QED
        BY <2>2, <2>3
<1>23. NearInv'
    BY <1>1, <1>3, <1>4, <1>12 DEF IInv, NearInv
<1>24. OwnInv'
    BY <1>1, <1>3 DEF IInv, OwnInv, OwnDirOnly, IsWild
<1>. QED
    BY <1>3, <1>14, <1>15, <1>16, <1>17, <1>18, <1>20, <1>21, <1>22, <1>23, <1>24 DEF IInv

(* The LAN registry does not answer. *)
LEMMA UnansweredStep ==
    ASSUME IInv, QueryUnanswered
    PROVE  IInv'
<1>1. /\ UNCHANGED world /\ UNCHANGED <<registryAddr, ownID, serviceList, todo, conns, refused>>
      /\ UNCHANGED <<tier, timeout>> /\ pc = "look" /\ pc' = "stuck"
    BY DEF QueryUnanswered
<1>2. /\ opts' = opts /\ steady' = steady /\ WorldInv' /\ Expect' = Expect
      /\ \A i \in Instances : Key(i)' = Key(i)
      /\ \A t \in 1..6 : Asked(t)' = Asked(t)
      /\ \A j \in Instances : Sought(j)' <=> Sought(j)
      /\ \A i \in Instances : Tier[i] \in 1..5
      /\ \A j \in Instances : Missed(j)' <=> Missed(j)
    BY <1>1, WorldUnchanged
<1>3. /\ conns \in Seq(Instances) /\ refused \subseteq Instances /\ steady \subseteq Instances
    BY DEF IInv, TypeOK
<1>4. TypeOK'
    <2>1. /\ registryAddr' \in {"", "NA", "addr"} /\ ownID' \in {"none", "NA", "cached"}
          /\ serviceList' \subseteq {Key(i) : i \in Instances} /\ todo' \in Seq(Instances)
          /\ conns' \in Seq(Instances) /\ refused' \subseteq Instances
        BY <1>1, Zenon DEF IInv, TypeOK
    <2>2. pc' \in {"look", "dial", "sleep", "stuck", "end"}
        BY <1>1
    <2>. QED
        BY <1>1, <2>1, <2>2, TypeStep
<1>5. \A i \in Instances : RefusedKey(i)' <=> RefusedKey(i)
    BY <1>1, <1>2, <1>3 DEF RefusedKey
<1>6. StepInv' /\ NetInv' /\ MarkedInv' /\ PassedInv' /\ PendingInv'
    BY <1>1 DEF StepInv, NetInv, MarkedInv, PassedInv, PendingInv, Looking
<1>7. CountInv'
    BY <1>1, <1>2 DEF IInv, CountInv
<1>8. ConnsInv'
    BY <1>1, <1>2, <1>3 DEF IInv, ConnsInv
<1>9. NearInv'
    BY <1>1, <1>2, <1>3, <1>5 DEF IInv, NearInv
<1>10. OwnInv'
    BY <1>1, <1>2 DEF IInv, OwnInv, OwnDirOnly, IsWild
<1>. QED
    BY <1>2, <1>4, <1>6, <1>7, <1>8, <1>9, <1>10 DEF IInv

-----------------------------------------------------------------------------
(* The theorems.                                                           *)

(* Every step keeps the inductive invariant. *)
LEMMA NextIInv == IInv /\ [Next]_vars => IInv'
<1>. SUFFICES ASSUME IInv, [Next]_vars PROVE IInv'
    OBVIOUS
<1>1. CASE Search
    BY <1>1, LookWithinOSStep, LookNetworkStep, UnansweredStep, TierDoneStep, RoundDoneStep, WakeStep, SkipStep,
       ConnectStep, RefusedStep DEF Search
<1>2. CASE World
    BY <1>2, WorldStep
<1>3. CASE UNCHANGED vars
    <2>1. UNCHANGED search /\ steady' = steady /\ up' = up /\ listed' = listed /\ gone' = gone
          /\ infoUp' = infoUp
        BY <1>3 DEF vars, search
    <2>2. WorldInv'
        BY <2>1 DEF IInv, WorldInv
    <2>. QED
        BY <2>1, <2>2, SearchUnchanged DEF IInv, TypeOK
<1>. QED
    BY <1>1, <1>2, <1>3 DEF Next

(* The inductive invariant holds in every state of every Discover. *)
THEOREM SpecIInv == Spec => []IInv
BY InitIInv, NextIInv, PTL DEF Spec

(* Discover never makes more connections than it expects, whatever rounds  *)
(* and scopes they come from (found == expect, client.go 298-329).         *)
THEOREM SpecAtMostExpected == Spec => []AtMostExpected
<1>1. IInv => AtMostExpected
    BY DEF IInv, CountInv, AtMostExpected
<1>. QED
    BY <1>1, SpecIInv, PTL

(* Two connections to one service of one provider have different keys:     *)
(* one of them has "self" in place of the provider's ID (client.go 261).   *)
LEMMA OnceInv == IInv => OncePerService
<1>. SUFFICES ASSUME IInv PROVE OncePerService
    OBVIOUS
<1>0. conns \in Seq(Instances)
    BY DEF IInv, TypeOK
<1>. SUFFICES ASSUME NEW m \in 1 .. Len(conns), NEW n \in 1 .. Len(conns), m # n,
                     Name[conns[m]] = Name[conns[n]], Provider[conns[m]] = Provider[conns[n]]
              PROVE  /\ Provider[conns[m]] = Self
                     /\ 3 \in {Tier[conns[m]], Tier[conns[n]]} \/ opts.selfID # Self
    <2>1. DOMAIN conns = 1 .. Len(conns)
        BY <1>0
    <2>. QED
        BY <2>1 DEF OncePerService
<1>. DEFINE Own(i) == CASE Tier[i] \in 1..2 -> TRUE
                        [] Tier[i] = 3 -> OwnDirOnly
                        [] OTHER -> Provider[i] = opts.selfID
<1>1. /\ conns[m] \in Instances /\ conns[m] \in Asked(Tier[conns[m]])
      /\ conns[n] \in Instances /\ conns[n] \in Asked(Tier[conns[n]])
      /\ Key(conns[m]) # Key(conns[n])
    BY <1>0 DEF IInv, ConnsInv
<1>2. opts.selfID \in {<<>>, NA, Self}
    BY DiscoverAssumption DEF IInv, TypeOK
<1>3. \A i \in Instances : /\ Tier[i] \in 1..5 /\ Provider[i] \notin {<<>>, NA}
                           /\ Tier[i] \in 1..2 => Provider[i] = Self
    BY DiscoverAssumption
<1>4. ASSUME NEW i \in Instances, i \in Asked(Tier[i]), Own(i)
      PROVE  Provider[i] = Self
    <2>1. CASE Tier[i] \in 1..2
        BY <1>3, <2>1
    <2>2. CASE Tier[i] = 3
        <3>1. OwnDirOnly
            BY <1>4, <2>2
        <3>. QED
            BY <1>4, <2>2, <3>1 DEF Asked
    <2>3. CASE Tier[i] \in 4..5
        <3>1. Provider[i] = opts.selfID
            BY <1>4, <2>3
        <3>. QED
            BY <1>2, <1>3, <3>1
    <2>. QED
        BY <1>3, <2>1, <2>2, <2>3
<1>5. ASSUME NEW i \in Instances, ~Own(i), Provider[i] = Self
      PROVE  Tier[i] = 3 \/ opts.selfID # Self
    BY <1>3, <1>5
<1>6. \A i \in Instances : Key(i) = Name[i] \o (IF Own(i) THEN <<"self">> ELSE Provider[i])
    BY DEF Key
<1>. HIDE DEF Own
<1>7. ~(Own(conns[m]) <=> Own(conns[n]))
    BY <1>1, <1>6
<1>. QED
    BY <1>1, <1>4, <1>5, <1>7

(* No service of a provider is connected twice by one Discover, but for    *)
(* the own provider's where the client does not recognise it.              *)
THEOREM SpecOncePerService == Spec => []OncePerService
BY OnceInv, SpecIInv, PTL

(* One connection is never to a farther instance than one that was up      *)
(* since the call, unless that one's key was refused, or it is in the own  *)
(* socket directory and GetSelfProviderID failed (client.go 97-293,        *)
(* registry.go 192-195).                                                   *)
THEOREM SpecNearestFirst == Spec => []NearestFirst
<1>1. IInv => NearestFirst
    <2>. SUFFICES ASSUME IInv, Expect = 1, NEW n \in DOMAIN conns, NEW j \in steady,
                         Wanted(Tier[j]), j \in lookupService(Tier[j]), Tier[j] < Tier[conns[n]]
                  PROVE  (\E k \in refused : Key(k) = Key(j)) \/ Missed(j)
        BY DEF NearestFirst
    <2>1. n \in 1 .. Len(conns)
        <3>1. conns \in Seq(Instances)
            BY DEF IInv, TypeOK
        <3>. QED
            BY <3>1
    <2>2. j \in Asked(Tier[j])
        BY LookupAsks DEF IInv, TypeOK
    <2>3. RefusedKey(j) \/ Missed(j)
        BY <2>1, <2>2 DEF IInv, NearInv, Sought
    <2>. QED
        BY <2>3 DEF RefusedKey
<1>. QED
    BY <1>1, SpecIInv, PTL

-----------------------------------------------------------------------------
(* Only what was asked for is connected.                                   *)

(* What is dialled and what is connected is of a tier this call searches.  *)
WantedInv ==
    /\ pc = "dial" => Wanted(tier)
    /\ \A n \in 1 .. Len(conns) : Wanted(Tier[conns[n]])

LEMMA NextWanted == IInv /\ WantedInv /\ [Next]_vars => WantedInv'
<1>. SUFFICES ASSUME IInv, WantedInv, [Next]_vars PROVE WantedInv'
    OBVIOUS
<1>0. /\ conns \in Seq(Instances) /\ tier \in 1..6
    BY DEF IInv, TypeOK
<1>1. opts' = opts
    BY DEF Next, Search, World, LookWithinOS, LookNetwork, QueryUnanswered, TierDone, RoundDone, Wake, Skip, Connect,
       Refused, InfoAppears, Appear, Vanish, Unlist, world, search, vars
<1>2. ASSUME pc' = "dial" PROVE Wanted(tier)'
    <2>1. tier' = tier /\ Wanted(tier)
        BY <1>2 DEF Next, Search, World, LookWithinOS, LookNetwork, QueryUnanswered, TierDone, RoundDone, Wake, Skip,
           Connect, Dialled, Refused, InfoAppears, Appear, Vanish, Unlist, search, vars, WantedInv
    <2>. QED
        BY <1>0, <1>1, <2>1 DEF Wanted, searchSelf, matchProvider
<1>3. ASSUME NEW i \in Instances, Connect(i)
      PROVE  \A n \in 1 .. Len(conns') : Wanted(Tier[conns'[n]])
    <2>1. /\ pc = "dial" /\ todo # <<>> /\ i = Head(todo) /\ conns' = Append(conns, i)
        BY <1>3 DEF Connect, Dialled
    <2>2. /\ todo \in Seq(Instances) /\ \A n \in 1 .. Len(todo) : todo[n] \in Asked(tier)
        BY <2>1 DEF IInv, TypeOK, StepInv
    <2>3. i \in Asked(tier)
        BY <2>1, <2>2
    <2>4. Tier[i] = tier
        BY <2>3 DEF Asked
    <2>5. Wanted(Tier[i])
        BY <2>1, <2>4 DEF WantedInv
    <2>6. /\ Len(conns') = Len(conns) + 1 /\ conns'[Len(conns) + 1] = i /\ Len(conns) \in Nat
          /\ \A n \in 1 .. Len(conns) : conns'[n] = conns[n]
        BY <1>0, <2>1
    <2>. QED
        BY <2>5, <2>6 DEF WantedInv
<1>4. ASSUME UNCHANGED conns
      PROVE  \A n \in 1 .. Len(conns') : Wanted(Tier[conns'[n]])
    BY <1>4 DEF WantedInv
<1>5. UNCHANGED conns \/ \E i \in Instances : Connect(i)
    BY DEF Next, Search, World, LookWithinOS, LookNetwork, QueryUnanswered, TierDone, RoundDone, Wake, Skip, Refused,
       InfoAppears, Appear, Vanish, Unlist, search, vars
<1>6. \A n \in 1 .. Len(conns') : Wanted(Tier[conns'[n]])
    BY <1>3, <1>4, <1>5
<1>7. conns' \in Seq(Instances)
    BY NextIInv DEF IInv, TypeOK
<1>8. \A n \in 1 .. Len(conns') : Wanted(Tier[conns[n]])'
    BY <1>0, <1>1, <1>6, <1>7 DEF Wanted, searchSelf, matchProvider
<1>. QED
    BY <1>2, <1>8 DEF WantedInv

LEMMA SpecWanted == Spec => []WantedInv
<1>1. Init => WantedInv
    <2>. SUFFICES ASSUME Init PROVE WantedInv
        OBVIOUS
    <2>1. pc = "look" /\ conns = <<>> /\ Len(<<>>) = 0
        BY DEF Init
    <2>2. 1 .. Len(conns) = {}
        BY <2>1
    <2>. QED
        BY <2>1, <2>2 DEF WantedInv
<1>. QED
    BY <1>1, NextWanted, SpecIInv, PTL DEF Spec

-----------------------------------------------------------------------------
(* A set of numbers has a least one, and a set that holds 0 and with n also n + 1
   holds them all.                                                          *)
LEMMA Least ==
    ASSUME NEW S, S \subseteq Nat, S # {}
    PROVE  \E k \in S : \A l \in S : k <= l
<1>1. PICK k \in S : \A l \in S : ~(<<l, k>> \in OpToRel(<, Nat))
    BY WFMin, NatLessThanWellFounded
<1>2. \A l \in S : ~(l < k)
    BY <1>1 DEF OpToRel
<1>. QED
    BY <1>2

LEMMA UpTo ==
    ASSUME NEW N \in Nat, NEW S, 0 \in S, \A n \in 0..N : n < N /\ n \in S => n + 1 \in S
    PROVE  \A n \in 0..N : n \in S
<1>. DEFINE D == {n \in 0..N : n \notin S}
<1>. SUFFICES ASSUME D # {} PROVE FALSE
    OBVIOUS
<1>1. D \subseteq Nat
    OBVIOUS
<1>. HIDE DEF D
<1>2. PICK d \in D : \A l \in D : d <= l
    BY <1>1, Least
<1>. USE DEF D
<1>3. d \in 0..N /\ d \notin S /\ d # 0
    BY <1>2
<1>4. d - 1 \in 0..N /\ d - 1 < N /\ (d - 1) + 1 = d /\ ~(d <= d - 1)
    BY <1>3
<1>5. d - 1 \in S
    BY <1>2, <1>4
<1>. QED
    BY <1>3, <1>4, <1>5

(* How the stars are counted. *)
LEMMA StarCount ==
    ASSUME NEW A, NEW p \in Seq(A)
    PROVE  /\ \A i \in 0..Len(p) : StarsUpTo(p, i) \in Nat
           /\ StarsUpTo(p, 0) = 0
           /\ \A i \in 1..Len(p) :
                StarsUpTo(p, i) = IF p[i] = "*" THEN StarsUpTo(p, i - 1) + 1 ELSE StarsUpTo(p, i - 1)
           /\ \A i, j \in 0..Len(p) : i <= j => StarsUpTo(p, i) <= StarsUpTo(p, j)
<1>. DEFINE T(i) == {j \in 1..i : p[j] = "*"}
<1>0. Len(p) \in Nat
    OBVIOUS
<1>1. ASSUME NEW i \in 0..Len(p) PROVE IsFiniteSet(T(i)) /\ Cardinality(T(i)) \in Nat
    <2>1. IsFiniteSet(1..i)
        BY <1>0, FS_Interval
    <2>2. T(i) \subseteq 1..i
        OBVIOUS
    <2>. QED
        BY <2>1, <2>2, FS_Subset, FS_CardinalityType
<1>2. T(0) = {}
    OBVIOUS
<1>3. ASSUME NEW i \in 1..Len(p)
      PROVE  Cardinality(T(i)) = IF p[i] = "*" THEN Cardinality(T(i - 1)) + 1 ELSE Cardinality(T(i - 1))
    <2>1. i - 1 \in 0..Len(p) /\ i \notin 1..i - 1 /\ 1..i = (1..i - 1) \cup {i}
        BY <1>0
    <2>2. T(i) = IF p[i] = "*" THEN T(i - 1) \cup {i} ELSE T(i - 1)
        BY <2>1
    <2>3. i \notin T(i - 1)
        BY <2>1
    <2>4. IsFiniteSet(T(i - 1)) /\ Cardinality(T(i - 1)) \in Nat
        BY <1>1, <2>1
    <2>. HIDE DEF T
    <2>5. CASE p[i] = "*"
        BY <2>2, <2>3, <2>4, <2>5, FS_AddElement
    <2>. QED
        BY <2>2, <2>5
<1>4. ASSUME NEW i \in 0..Len(p), NEW j \in 0..Len(p), i <= j PROVE Cardinality(T(i)) <= Cardinality(T(j))
    <2>1. T(i) \subseteq T(j)
        BY <1>0, <1>4
    <2>2. IsFiniteSet(T(j))
        BY <1>1
    <2>. HIDE DEF T
    <2>. QED
        BY <2>1, <2>2, FS_Subset
<1>5. \A i : StarsUpTo(p, i) = Cardinality(T(i))
    BY DEF StarsUpTo
<1>6. Cardinality(T(0)) = 0
    BY <1>2, FS_EmptySet
<1>. HIDE DEF T
<1>. QED
    BY <1>1, <1>3, <1>4, <1>5, <1>6

(* Where the n-th star is: there is one such place, the stars are in order, and there
   is none between two of them.                                             *)
LEMMA Cuts ==
    ASSUME NEW A, NEW p \in Seq(A)
    PROVE  /\ Stars(p) \in Nat /\ StarAt(p, 0) = 0 /\ StarAt(p, Stars(p) + 1) = Len(p) + 1
           /\ \A n \in 1..Stars(p) : StarAt(p, n) \in 1..Len(p) /\ p[StarAt(p, n)] = "*"
           /\ \A n \in 0..Stars(p) : StarAt(p, n) < StarAt(p, n + 1)
           /\ \A n \in 0..Stars(p) : \A j \in 1..Len(p) :
                StarAt(p, n) < j /\ j < StarAt(p, n + 1) => p[j] # "*"
<1>. DEFINE u(i) == StarsUpTo(p, i)
            K == Stars(p)
            c(n) == StarAt(p, n)
            N == Len(p)
<1>0. /\ N \in Nat /\ \A i \in 0..N : u(i) \in Nat
      /\ u(0) = 0 /\ K = u(N)
      /\ \A i \in 1..N : u(i) = IF p[i] = "*" THEN u(i - 1) + 1 ELSE u(i - 1)
      /\ \A i, j \in 0..N : i <= j => u(i) <= u(j)
    BY StarCount DEF Stars
<1>1. DOMAIN p = 1..N
    OBVIOUS
<1>2. K \in Nat /\ c(0) = 0 /\ c(K + 1) = N + 1
    <2>1. K \in Nat
        BY <1>0
    <2>2. ~(K + 1 = 0) /\ K + 1 > K
        BY <2>1
    <2>. QED
        BY <2>1, <2>2 DEF StarAt
<1>3. ASSUME NEW n \in 1..K PROVE \E i \in 1..N : p[i] = "*" /\ u(i) = n
    <2>. DEFINE S == {i \in 0..N : u(i) >= n}
    <2>1. S \subseteq Nat /\ N \in S
        BY <1>0, <1>2
    <2>. HIDE DEF S
    <2>2. PICK i \in S : \A l \in S : i <= l
        BY <2>1, Least
    <2>. USE DEF S
    <2>. HIDE DEF u, N, K
    <2>3. i \in 0..N /\ u(i) >= n /\ i # 0
        BY <1>0, <1>2, <2>2
    <2>4. i \in 1..N /\ i - 1 \in 0..N /\ ~(i <= i - 1)
        BY <1>0, <2>3
    <2>5. ~(u(i - 1) >= n)
        BY <2>2, <2>4
    <2>6. u(i - 1) \in Nat /\ u(i) = IF p[i] = "*" THEN u(i - 1) + 1 ELSE u(i - 1)
        BY <1>0, <2>4
    <2>7. p[i] = "*" /\ u(i) = n
        BY <1>2, <2>3, <2>5, <2>6
    <2>. QED
        BY <2>4, <2>7
<1>4. ASSUME NEW n \in 1..K PROVE c(n) \in 1..N /\ p[c(n)] = "*" /\ u(c(n)) = n
    <2>1. ~(n = 0) /\ ~(n > K)
        BY <1>2
    <2>2. c(n) = CHOOSE i \in 1..N : p[i] = "*" /\ u(i) = n
        BY <1>1, <2>1 DEF StarAt
    <2>. HIDE DEF c, u, N, K
    <2>. QED
        BY <1>3, <2>2
<1>. HIDE DEF c, u, N, K
(* u around the cuts *)
<1>5. ASSUME NEW n \in 0..K PROVE c(n) \in 0..N /\ u(c(n)) = n /\ (n # 0 => n \in 1..K)
    BY <1>0, <1>2, <1>4
<1>6. ASSUME NEW n \in 0..K PROVE c(n) < c(n + 1)
    <2>1. CASE n = K
        BY <1>0, <1>2, <1>5, <2>1
    <2>2. CASE n < K
        <3>1. n + 1 \in 1..K /\ n \in Nat
            BY <1>2, <2>2
        <3>2. c(n + 1) \in 1..N /\ u(c(n + 1)) = n + 1 /\ c(n) \in 0..N /\ u(c(n)) = n
            BY <1>4, <1>5, <3>1
        <3>3. c(n + 1) <= c(n) => n + 1 <= n
            BY <1>0, <3>2
        <3>. QED
            BY <1>0, <3>1, <3>2, <3>3
    <2>. QED
        BY <1>2, <2>1, <2>2
<1>7. ASSUME NEW n \in 0..K, NEW j \in 1..N, c(n) < j, j < c(n + 1), p[j] = "*" PROVE FALSE
    <2>1. /\ j - 1 \in 0..N /\ j \in 0..N /\ c(n) \in 0..N /\ c(n) <= j - 1 /\ u(c(n)) = n
        BY <1>0, <1>5, <1>7
    <2>2. u(j) = u(j - 1) + 1 /\ n <= u(j - 1) /\ u(j - 1) \in Nat
        BY <1>0, <1>7, <2>1
    <2>3. u(j) <= n
        <3>1. CASE n = K
            BY <1>0, <2>1, <3>1
        <3>2. CASE n < K
            <4>1. n + 1 \in 1..K /\ n \in Nat
                BY <1>2, <3>2
            <4>2. c(n + 1) \in 1..N /\ p[c(n + 1)] = "*" /\ u(c(n + 1)) = n + 1
                BY <1>4, <4>1
            <4>3. c(n + 1) - 1 \in 0..N /\ j <= c(n + 1) - 1
                BY <1>0, <1>7, <4>2, SMTT(30)
            <4>4. u(c(n + 1)) = u(c(n + 1) - 1) + 1 /\ u(c(n + 1) - 1) \in Nat
                BY <1>0, <4>2, <4>3
            <4>5. u(j) <= u(c(n + 1) - 1)
                BY <1>0, <2>1, <4>3
            <4>. QED
                BY <1>0, <2>1, <4>1, <4>2, <4>4, <4>5
        <3>. QED
            BY <1>2, <3>1, <3>2
    <2>. QED
        BY <1>2, <2>2, <2>3
<1>8. /\ \A n \in 0..K : c(n) < c(n + 1)
      /\ \A n \in 0..K : \A j \in 1..N : c(n) < j /\ j < c(n + 1) => p[j] # "*"
    BY <1>6, <1>7
<1>. QED
    BY <1>2, <1>4, <1>8 DEF c, N, K

(* The equations of the recursive function in Matches, and that there is one which
   satisfies them.                                                          *)
Table(R, p, s) ==
    /\ R[0] = {0}
    /\ \A i \in 1..Len(p) :
         R[i] = IF p[i] = "*" THEN {j \in 0..Len(s) : \E h \in R[i - 1] : h <= j}
                ELSE {j \in 1..Len(s) : s[j] = p[i] /\ j - 1 \in R[i - 1]}

LEMMA Reference ==
    ASSUME NEW p, NEW s, Len(p) \in Nat
    PROVE  \E R : Table(R, p, s) /\ (Matches(p, s) <=> Len(s) \in R[Len(p)])
<1>. DEFINE Step(i, X) == IF p[i] = "*" THEN {j \in 0..Len(s) : \E h \in X : h <= j}
                          ELSE {j \in 1..Len(s) : s[j] = p[i] /\ j - 1 \in X}
            Def(g, n) == g = [i \in 0..n |-> IF i = 0 THEN {0} ELSE Step(i, g[i - 1])]
            S == {n \in 0..Len(p) : \E g : Def(g, n)}
            R == CHOOSE g : Def(g, Len(p))
<1>1. Matches(p, s) <=> Len(s) \in R[Len(p)]
    BY DEF Matches
<1>. HIDE DEF Step
<1>2. 0 \in S
    <2>1. Def([i \in 0..0 |-> {0}], 0)
        OBVIOUS
    <2>2. \E g : Def(g, 0)
        BY <2>1, Zenon
    <2>. HIDE DEF Def
    <2>. QED
        BY <2>2
<1>3. ASSUME NEW n \in 0..Len(p), n < Len(p), n \in S PROVE n + 1 \in S
    <2>1. PICK g : Def(g, n)
        BY <1>3
    <2>. DEFINE f == [i \in 0..n + 1 |-> IF i = n + 1 THEN Step(n + 1, g[n]) ELSE g[i]]
    <2>2. \A i \in 0..n : i \in 0..n + 1 /\ i # n + 1
        OBVIOUS
    <2>3. ASSUME NEW i \in 0..n + 1 PROVE f[i] = IF i = 0 THEN {0} ELSE Step(i, f[i - 1])
        <3>1. CASE i = n + 1
            <4>1. i # 0 /\ i - 1 = n /\ n \in 0..n
                BY <3>1
            <4>2. f[n] = g[n] /\ f[i] = Step(n + 1, g[n])
                BY <2>2, <3>1, <4>1
            <4>. QED
                BY <3>1, <4>1, <4>2
        <3>2. CASE i # n + 1
            <4>1. i \in 0..n
                BY <3>2
            <4>2. f[i] = g[i] /\ g[i] = IF i = 0 THEN {0} ELSE Step(i, g[i - 1])
                BY <2>1, <4>1, <3>2
            <4>3. i # 0 => i - 1 \in 0..n
                BY <4>1
            <4>4. i # 0 => f[i - 1] = g[i - 1]
                BY <2>2, <4>3
            <4>. QED
                BY <4>2, <4>4
        <3>. QED
            BY <3>1, <3>2
    <2>4. f = [i \in 0..n + 1 |-> IF i = 0 THEN {0} ELSE Step(i, f[i - 1])]
        BY <2>3
    <2>. HIDE DEF f
    <2>5. Def(f, n + 1)
        BY <2>4
    <2>6. n + 1 \in 0..Len(p)
        BY <1>3
    <2>. QED
        BY <2>5, <2>6
<1>4. Len(p) \in S
    <2>. HIDE DEF S
    <2>1. \A n \in 0..Len(p) : n \in S
        BY <1>2, <1>3, UpTo
    <2>. QED
        BY <2>1
<1>5. Def(R, Len(p))
    BY <1>4, Zenon
<1>. HIDE DEF R
<1>6. R[0] = {0} /\ \A i \in 1..Len(p) : R[i] = Step(i, R[i - 1])
    <2>1. 0 \in 0..Len(p) /\ \A i \in 1..Len(p) : i \in 0..Len(p) /\ i # 0
        OBVIOUS
    <2>. QED
        BY <1>5, <2>1
<1>7. Table(R, p, s)
    BY <1>6 DEF Table, Step
<1>. QED
    BY <1>1, <1>7, Zenon

(* Through letters the matched prefixes move on one by one; a star takes any number. *)
LEMMA Segment ==
    ASSUME NEW p, NEW s, NEW R, Len(p) \in Nat, Len(s) \in Nat, Table(R, p, s),
           NEW a \in 0..Len(p), NEW b \in a..Len(p), \A i \in 1..Len(p) : a < i /\ i <= b => p[i] # "*",
           R[a] \subseteq 0..Len(s)
    PROVE  /\ R[b] \subseteq 0..Len(s)
           /\ \A k \in 0..Len(s) :
                k + (b - a) \in R[b] <=> /\ k \in R[a] /\ k + (b - a) <= Len(s)
                                         /\ \A i \in 1..b - a : s[k + i] = p[a + i]
           /\ \A j \in R[b] : j - (b - a) \in 0..Len(s)
<1>. DEFINE Good(d) == /\ R[a + d] \subseteq d..Len(s)
                       /\ \A k \in 0..Len(s) :
                            k + d \in R[a + d] <=> /\ k \in R[a] /\ k + d <= Len(s)
                                                   /\ \A i \in 1..d : s[k + i] = p[a + i]
            S == {d \in 0..b - a : Good(d)}
<1>0. a \in Nat /\ b \in Nat /\ a <= b /\ b <= Len(p) /\ b - a \in Nat
    OBVIOUS
<1>1. 0 \in S
    <2>1. a + 0 = a /\ 0 \in 0..b - a
        BY <1>0
    <2>2. Good(0)
        BY <2>1
    <2>. QED
        BY <2>1, <2>2
<1>2. ASSUME NEW d \in 0..b - a, d < b - a, d \in S PROVE d + 1 \in S
    <2>1. /\ a + (d + 1) \in 1..Len(p) /\ (a + (d + 1)) - 1 = a + d /\ a < a + (d + 1) /\ a + (d + 1) <= b
          /\ d + 1 \in 0..b - a /\ d \in Nat
        BY <1>0, <1>2
    <2>2. p[a + (d + 1)] # "*"
        BY <2>1
    <2>3. R[a + (d + 1)] = {j \in 1..Len(s) : s[j] = p[a + (d + 1)] /\ j - 1 \in R[a + d]}
        <3>1. \A i \in 1..Len(p) : p[i] # "*" =>
                R[i] = {j \in 1..Len(s) : s[j] = p[i] /\ j - 1 \in R[i - 1]}
            BY DEF Table
        <3>. HIDE DEF S, Good
        <3>. QED
            BY <2>1, <2>2, <3>1
    <2>4. Good(d)
        BY <1>2
    <2>5. R[a + (d + 1)] \subseteq d + 1..Len(s)
        BY <2>1, <2>3, <2>4
    <2>6. ASSUME NEW k \in 0..Len(s)
          PROVE  k + (d + 1) \in R[a + (d + 1)] <=>
                   /\ k \in R[a] /\ k + (d + 1) <= Len(s)
                   /\ \A i \in 1..d + 1 : s[k + i] = p[a + i]
        <3>1. /\ (k + (d + 1)) - 1 = k + d /\ k + (d + 1) >= 1 /\ k + (d + 1) \in Nat
              /\ k + (d + 1) <= Len(s) => k + d <= Len(s)
              /\ \A i \in 1..d + 1 : i \in 1..d \/ i = d + 1
              /\ d + 1 \in 1..d + 1 /\ \A i \in 1..d : i \in 1..d + 1
            <4>1. \A l \in Nat, m \in Nat, n \in Nat :
                    /\ (m + (n + 1)) - 1 = m + n /\ m + (n + 1) >= 1 /\ m + (n + 1) \in Nat
                    /\ m + (n + 1) <= l => m + n <= l
                    /\ \A i \in 1..n + 1 : i \in 1..n \/ i = n + 1
                    /\ n + 1 \in 1..n + 1 /\ \A i \in 1..n : i \in 1..n + 1
                OBVIOUS
            <4>2. k \in Nat
                OBVIOUS
            <4>. QED
                BY <2>1, <4>1, <4>2
        <3>2. k + (d + 1) \in R[a + (d + 1)] <=>
                k + (d + 1) <= Len(s) /\ s[k + (d + 1)] = p[a + (d + 1)] /\ k + d \in R[a + d]
            BY <2>3, <3>1
        <3>3. k + d \in R[a + d] <=> /\ k \in R[a] /\ k + d <= Len(s)
                                     /\ \A i \in 1..d : s[k + i] = p[a + i]
            BY <2>4
        <3>4. (\A i \in 1..d + 1 : s[k + i] = p[a + i])
                <=> (\A i \in 1..d : s[k + i] = p[a + i]) /\ s[k + (d + 1)] = p[a + (d + 1)]
            BY <3>1
        <3>. QED
            BY <3>1, <3>2, <3>3, <3>4
    <2>7. Good(d + 1)
        BY <2>5, <2>6
    <2>. HIDE DEF Good
    <2>. QED
        BY <2>1, <2>7
<1>3. b - a \in S
    <2>. HIDE DEF S
    <2>1. \A d \in 0..b - a : d \in S
        BY <1>0, <1>1, <1>2, UpTo
    <2>. QED
        BY <1>0, <2>1
<1>4. a + (b - a) = b
    BY <1>0
<1>5. Good(b - a)
    BY <1>3
<1>. QED
    BY <1>0, <1>4, <1>5

(* The parts of a pattern are what lies between its stars. *)
LEMMA PartsOf ==
    ASSUME NEW A, NEW p \in Seq(A)
    PROVE  /\ Len(Split(p)) = Stars(p) + 1
           /\ \A n \in 1..Stars(p) + 1 :
                /\ Len(Split(p)[n]) = StarAt(p, n) - StarAt(p, n - 1) - 1
                /\ Len(Split(p)[n]) \in Nat
                /\ \A i \in 1..Len(Split(p)[n]) : Split(p)[n][i] = p[StarAt(p, n - 1) + i]
<1>. DEFINE K == Stars(p)
            c(n) == StarAt(p, n)
            e(n) == SubSeq(p, c(n - 1) + 1, c(n) - 1)
<1>1. K \in Nat /\ Len(p) \in Nat
    BY Cuts
<1>2. Split(p) = [n \in 1..K + 1 |-> e(n)]
    BY DEF Split
<1>3. ASSUME NEW n \in 1..K + 1
      PROVE  /\ c(n - 1) \in 0..Len(p) /\ c(n) \in 1..Len(p) + 1 /\ c(n - 1) < c(n)
    <2>. HIDE DEF c, K
    <2>1. n - 1 \in 0..K /\ (n - 1) + 1 = n
        BY <1>1
    <2>2. c(n - 1) < c(n)
        <3>1. \A m \in 0..K : c(m) < c(m + 1)
            BY Cuts DEF c, K
        <3>. QED
            BY <2>1, <3>1
    <2>3. c(0) = 0 /\ c(K + 1) = Len(p) + 1 /\ \A m \in 1..K : c(m) \in 1..Len(p)
        BY Cuts DEF c, K
    <2>4. n - 1 = 0 \/ n - 1 \in 1..K
        BY <1>1, <2>1
    <2>5. n = K + 1 \/ n \in 1..K
        BY <1>1
    <2>6. c(n - 1) \in 0..Len(p)
        BY <1>1, <2>3, <2>4
    <2>7. c(n) \in 1..Len(p) + 1
        BY <1>1, <2>3, <2>5
    <2>. QED
        BY <2>2, <2>6, <2>7
<1>4. ASSUME NEW n \in 1..K + 1
      PROVE  /\ e(n) \in Seq(A) /\ Len(e(n)) = c(n) - c(n - 1) - 1
             /\ Len(e(n)) \in Nat /\ \A i \in 1..Len(e(n)) : e(n)[i] = p[c(n - 1) + i]
    <2>. DEFINE x == c(n - 1) + 1
                y == c(n) - 1
    <2>0. /\ x \in Int /\ y \in Int /\ x >= 1 /\ y <= Len(p) /\ x <= y + 1
          /\ y - x + 1 = c(n) - c(n - 1) - 1 /\ \A i \in Int : x + i - 1 = c(n - 1) + i
        <3>1. c(n - 1) \in 0..Len(p) /\ c(n) \in 1..Len(p) + 1 /\ c(n - 1) < c(n)
            BY <1>3
        <3>2. \A v \in 0..Len(p), w \in 1..Len(p) + 1 : v < w =>
                /\ v + 1 \in Int /\ w - 1 \in Int /\ v + 1 >= 1 /\ w - 1 <= Len(p)
                /\ v + 1 <= (w - 1) + 1 /\ (w - 1) - (v + 1) + 1 = w - v - 1
                /\ \A i \in Int : (v + 1) + i - 1 = v + i
            BY <1>1
        <3>. HIDE DEF c
        <3>. QED
            BY <3>1, <3>2
    <2>. HIDE DEF x, y
    <2>1. x \in Int /\ y \in Int /\ x >= 1 /\ y <= Len(p) /\ x <= y + 1
        BY <2>0
    <2>2. \A i \in x..y : p[i] \in A
        BY <1>1, <2>1
    <2>3. e(n) = SubSeq(p, x, y)
        BY DEF x, y
    <2>. HIDE DEF e
    <2>4. /\ SubSeq(p, x, y) \in Seq(A) /\ Len(SubSeq(p, x, y)) = (IF x <= y THEN y - x + 1 ELSE 0)
          /\ \A i \in 1..y - x + 1 : SubSeq(p, x, y)[i] = p[x + i - 1]
        BY <2>1, <2>2, SubSeqProperties
    <2>5. (IF x <= y THEN y - x + 1 ELSE 0) = y - x + 1 /\ y - x + 1 \in Nat
        BY <2>1
    <2>6. Len(e(n)) = y - x + 1
        BY <2>3, <2>4, <2>5
    <2>7. ASSUME NEW i \in 1..y - x + 1 PROVE SubSeq(p, x, y)[i] = p[c(n - 1) + i]
        <3>1. x + i - 1 = c(n - 1) + i
            BY <2>0
        <3>. QED
            BY <2>4, <3>1
    <2>. QED
        BY <2>0, <2>3, <2>4, <2>5, <2>6, <2>7
<1>. HIDE DEF e, c, K
<1>5. Split(p) \in [1..K + 1 -> Seq(A)]
    BY <1>2, <1>4
<1>6. K + 1 \in Nat
    BY <1>1
<1>7. Split(p) \in Seq(Seq(A)) /\ Len(Split(p)) = K + 1
    BY <1>5, <1>6
<1>8. \A n \in 1..K + 1 : Split(p)[n] = e(n)
    BY <1>2
<1>. QED
    BY <1>4, <1>7, <1>8 DEF c, K

(* The recursive function in MatchMiddle is one. *)
LEMMA Greedy ==
    ASSUME NEW s, NEW lo, NEW hi, NEW parts, Len(parts) - 2 \in Nat
    PROVE  \E f : /\ MatchMiddle(s, lo, hi, parts) <=> f[Len(parts) - 2] # None
                  /\ f[0] = lo
                  /\ \A n \in 1..Len(parts) - 2 :
                       f[n] = LET k == IF f[n - 1] = None THEN None ELSE Index(s, f[n - 1], hi, parts[n + 1])
                              IN  IF k = None THEN None ELSE k + Len(parts[n + 1])
<1>. DEFINE Step(n, x) == LET k == IF x = None THEN None ELSE Index(s, x, hi, parts[n + 1])
                          IN  IF k = None THEN None ELSE k + Len(parts[n + 1])
            N == Len(parts) - 2
            Def(g, n) == g = [i \in 0..n |-> IF i = 0 THEN lo ELSE Step(i, g[i - 1])]
            S == {n \in 0..N : \E g : Def(g, n)}
            f == CHOOSE g : Def(g, N)
<1>1. MatchMiddle(s, lo, hi, parts) <=> f[N] # None
    BY DEF MatchMiddle
<1>. HIDE DEF Step, N
<1>0. N \in Nat
    BY DEF N
<1>2. 0 \in S
    <2>1. Def([i \in 0..0 |-> lo], 0)
        OBVIOUS
    <2>2. \E g : Def(g, 0)
        BY <2>1, Zenon
    <2>. HIDE DEF Def
    <2>. QED
        BY <1>0, <2>2
<1>3. ASSUME NEW n \in 0..N, n < N, n \in S PROVE n + 1 \in S
    <2>1. PICK g : Def(g, n)
        BY <1>3
    <2>. DEFINE h == [i \in 0..n + 1 |-> IF i = n + 1 THEN Step(n + 1, g[n]) ELSE g[i]]
    <2>2. \A i \in 0..n : i \in 0..n + 1 /\ i # n + 1
        BY <1>0
    <2>3. ASSUME NEW i \in 0..n + 1 PROVE h[i] = IF i = 0 THEN lo ELSE Step(i, h[i - 1])
        <3>1. CASE i = n + 1
            <4>1. i # 0 /\ i - 1 = n /\ n \in 0..n
                BY <1>0, <3>1
            <4>2. h[n] = g[n] /\ h[i] = Step(n + 1, g[n])
                BY <2>2, <3>1, <4>1
            <4>. QED
                BY <3>1, <4>1, <4>2
        <3>2. CASE i # n + 1
            <4>1. i \in 0..n
                BY <1>0, <3>2
            <4>2. h[i] = g[i] /\ g[i] = IF i = 0 THEN lo ELSE Step(i, g[i - 1])
                BY <2>1, <4>1, <3>2
            <4>3. i # 0 => i - 1 \in 0..n
                BY <4>1
            <4>4. i # 0 => h[i - 1] = g[i - 1]
                BY <2>2, <4>3
            <4>. QED
                BY <4>2, <4>4
        <3>. QED
            BY <3>1, <3>2
    <2>4. h = [i \in 0..n + 1 |-> IF i = 0 THEN lo ELSE Step(i, h[i - 1])]
        BY <2>3
    <2>. HIDE DEF h
    <2>5. Def(h, n + 1)
        BY <2>4
    <2>6. n + 1 \in 0..N
        BY <1>0, <1>3
    <2>. QED
        BY <2>5, <2>6
<1>4. N \in S
    <2>. HIDE DEF S
    <2>1. \A n \in 0..N : n \in S
        BY <1>0, <1>2, <1>3, UpTo
    <2>. QED
        BY <1>0, <2>1
<1>5. Def(f, N)
    BY <1>4, Zenon
<1>. HIDE DEF f
<1>6. f[0] = lo /\ \A i \in 1..N : f[i] = Step(i, f[i - 1])
    <2>1. 0 \in 0..N /\ \A i \in 1..N : i \in 0..N /\ i # 0
        BY <1>0
    <2>. QED
        BY <1>5, <2>1
<1>. QED
    BY <1>1, <1>6 DEF Step, N

(* strings.Index is the first place. *)
LEMMA FirstPlace ==
    ASSUME NEW s, NEW lo \in Nat, NEW hi \in Int, NEW t, Len(t) \in Nat
    PROVE  LET k == Index(s, lo, hi, t)
           IN  /\ k = None <=> Places(s, lo, hi, t) = {}
               /\ k # None => k \in Places(s, lo, hi, t) /\ \A l \in Places(s, lo, hi, t) : k <= l
<1>1. Places(s, lo, hi, t) \subseteq Nat
    BY DEF Places
<1>2. ASSUME Places(s, lo, hi, t) # {}
      PROVE  \E k \in Places(s, lo, hi, t) : \A l \in Places(s, lo, hi, t) : k <= l
    BY <1>1, <1>2, Least
<1>. DEFINE P == Places(s, lo, hi, t)
            m == CHOOSE k \in P : \A l \in P : k <= l
<1>3. P # {} => m \in P /\ \A l \in P : m <= l
    BY <1>2
<1>4. Index(s, lo, hi, t) = IF P = {} THEN None ELSE m
    BY DEF Index
<1>5. \A k \in P : k # None
    BY <1>1 DEF None
<1>. HIDE DEF P, m
<1>. QED
    BY <1>3, <1>4, <1>5 DEF P

(* One more part: what the greedy matcher takes first is what a later match needs.
   The pattern is matched up to a star exactly at the places from x on; t lies
   between that star and the next.                                          *)
LEMMA PartStep ==
    ASSUME NEW s, NEW t, Len(s) \in Nat, Len(t) \in Nat, NEW hi \in Int, hi <= Len(s),
           NEW Ra, NEW Rb, Rb \subseteq Int, NEW x \in Nat,
           \A i \in 0..hi : i \in Ra <=> x <= i,
           \A i \in 0..Len(s) : i + Len(t) \in Rb <=> i \in Ra /\ i + Len(t) <= Len(s) /\ OccursAt(s, i, t),
           \A i \in Rb : i - Len(t) \in 0..Len(s),
           NEW j \in 0..hi
    PROVE  (\E h \in Rb : h <= j) <=> Index(s, x, hi, t) # None /\ Index(s, x, hi, t) + Len(t) <= j
<1>. DEFINE P == Places(s, x, hi, t)
            k == Index(s, x, hi, t)
<1>1. /\ k = None <=> P = {}
      /\ k # None => k \in P /\ \A l \in P : k <= l
    BY FirstPlace
<1>2. P = {l \in x..hi - Len(t) : OccursAt(s, l, t)}
    BY DEF Places
<1>. HIDE DEF P, k
<1>3. ASSUME NEW h \in Rb, h <= j PROVE k # None /\ k + Len(t) <= j
    <2>1. h - Len(t) \in 0..Len(s) /\ (h - Len(t)) + Len(t) = h
        BY <1>3
    <2>2. h - Len(t) \in Ra /\ OccursAt(s, h - Len(t), t)
        BY <1>3, <2>1
    <2>3. h - Len(t) \in 0..hi /\ h - Len(t) <= hi - Len(t)
        BY <1>3, <2>1
    <2>4. x <= h - Len(t)
        BY <2>2, <2>3
    <2>5. h - Len(t) \in P
        BY <1>2, <2>1, <2>2, <2>3, <2>4
    <2>6. k # None /\ k \in P /\ k <= h - Len(t)
        BY <1>1, <2>5
    <2>7. k \in Int
        BY <1>2, <2>6
    <2>. QED
        BY <1>3, <2>1, <2>6, <2>7
<1>4. ASSUME k # None, k + Len(t) <= j PROVE k + Len(t) \in Rb
    <2>1. k \in x..hi - Len(t) /\ OccursAt(s, k, t)
        BY <1>1, <1>2, <1>4
    <2>2. k \in 0..hi /\ k \in 0..Len(s) /\ x <= k /\ k + Len(t) <= Len(s)
        BY <2>1
    <2>3. k \in Ra
        BY <2>2
    <2>. QED
        BY <2>1, <2>2, <2>3
<1>. QED
    BY <1>3, <1>4 DEF k

(* WildcardMatch answers what its comment says (adaptiveservice.go 373-376), for
   every pattern and string: taking each part at its first occurrence, and never
   going back, loses no match.                                              *)
THEOREM WildcardMatchExact ==
    ASSUME NEW A, NEW p \in Seq(A), NEW s \in Seq(A)
    PROVE  WildcardMatch(p, s) <=> Matches(p, s)
<1>. DEFINE K == Stars(p)
            c(n) == StarAt(p, n)
            N == Len(p)
            L == Len(s)
            q(n) == Split(p)[n]
            M(n) == Len(q(n))
<1>1. N \in Nat /\ L \in Nat
    OBVIOUS
<1>2. /\ K \in Nat /\ c(0) = 0 /\ c(K + 1) = N + 1
      /\ \A n \in 1..K : c(n) \in 1..N /\ p[c(n)] = "*"
      /\ \A n \in 0..K : c(n) < c(n + 1)
      /\ \A n \in 0..K : \A j \in 1..N : c(n) < j /\ j < c(n + 1) => p[j] # "*"
    BY Cuts
<1>3. /\ Len(Split(p)) = K + 1
      /\ \A n \in 1..K + 1 : /\ M(n) = c(n) - c(n - 1) - 1 /\ M(n) \in Nat
                             /\ \A i \in 1..M(n) : q(n)[i] = p[c(n - 1) + i]
    BY PartsOf
<1>0. PICK R : Table(R, p, s) /\ (Matches(p, s) <=> Len(s) \in R[Len(p)])
    BY Reference
<1>4. /\ Matches(p, s) <=> L \in R[N]
      /\ R[0] = {0}
      /\ \A i \in 1..N :
           R[i] = IF p[i] = "*" THEN {j \in 0..L : \E h \in R[i - 1] : h <= j}
                  ELSE {j \in 1..L : s[j] = p[i] /\ j - 1 \in R[i - 1]}
    BY <1>0 DEF Table
<1>. DEFINE lo == M(1)
            hi == L - M(K + 1)
            pre == lo <= L /\ OccursAt(s, 0, q(1))
<1>5. WildcardMatch(p, s) <=> IF K + 1 = 1 THEN p = s
                              ELSE /\ pre /\ lo <= hi /\ OccursAt(s, hi, q(K + 1))
                                   /\ MatchMiddle(s, lo, hi, Split(p))
    BY <1>3 DEF WildcardMatch
<1>. HIDE DEF K, c, N, L, q, M
<1>a. /\ M(1) \in Nat /\ M(K + 1) \in Nat /\ hi \in Int /\ hi <= L /\ lo \in Nat
    <2>1. 1 \in 1..K + 1 /\ K + 1 \in 1..K + 1
        BY <1>2
    <2>2. M(1) \in Nat /\ M(K + 1) \in Nat
        BY <1>3, <2>1
    <2>. QED
        BY <1>1, <2>2
(* What lies between two stars, or a star and an end. *)
<1>6. ASSUME NEW n \in 0..K, R[c(n)] \subseteq 0..L
      PROVE  /\ R[c(n + 1) - 1] \subseteq 0..L
             /\ \A k \in 0..L : k + M(n + 1) \in R[c(n + 1) - 1] <=>
                                  k \in R[c(n)] /\ k + M(n + 1) <= L /\ OccursAt(s, k, q(n + 1))
             /\ \A j \in R[c(n + 1) - 1] : j - M(n + 1) \in 0..L
    <2>. DEFINE a == c(n)
                b == c(n + 1) - 1
    <2>0. n + 1 \in 1..K + 1 /\ (n + 1) - 1 = n
        BY <1>2
    <2>1. a \in 0..N /\ b \in a..N /\ b - a = M(n + 1)
        <3>1. c(n) < c(n + 1) /\ M(n + 1) = c(n + 1) - c(n) - 1
            BY <1>2, <1>3, <2>0
        <3>2. c(n) \in 0..N
            <4>1. n = 0 \/ n \in 1..K
                BY <1>2
            <4>. QED
                BY <1>1, <1>2, <4>1
        <3>3. c(n + 1) \in 1..N + 1
            <4>1. n + 1 = K + 1 \/ n + 1 \in 1..K
                BY <1>2
            <4>. QED
                BY <1>1, <1>2, <4>1
        <3>4. \A v \in 0..N, w \in 1..N + 1 : v < w => w - 1 \in v..N /\ (w - 1) - v = w - v - 1
            BY <1>1
        <3>. QED
            BY <3>1, <3>2, <3>3, <3>4
    <2>2. \A i \in 1..N : a < i /\ i <= b => p[i] # "*"
        <3>1. \A i \in 1..N : i <= c(n + 1) - 1 => i < c(n + 1)
            <4>1. c(n + 1) \in Int
                <5>1. n + 1 = K + 1 \/ n + 1 \in 1..K
                    BY <1>2
                <5>2. c(K + 1) \in Int
                    BY <1>1, <1>2
                <5>3. \A m \in 1..K : c(m) \in Int
                    BY <1>1, <1>2
                <5>. QED
                    BY <5>1, <5>2, <5>3
            <4>. QED
                BY <1>1, <4>1
        <3>. QED
            BY <1>2, <3>1
    <2>. HIDE DEF a, b
    <2>3. R[a] \subseteq 0..L
        BY <1>6 DEF a
    <2>4. /\ R[b] \subseteq 0..L
          /\ \A k \in 0..L :
               k + (b - a) \in R[b] <=> /\ k \in R[a] /\ k + (b - a) <= L
                                        /\ \A i \in 1..b - a : s[k + i] = p[a + i]
          /\ \A j \in R[b] : j - (b - a) \in 0..L
        BY <1>0, <1>1, <2>1, <2>2, <2>3, Segment DEF N, L
    <2>5. \A i \in 1..M(n + 1) : q(n + 1)[i] = p[a + i]
        BY <1>3, <2>0 DEF a
    <2>6. \A k : OccursAt(s, k, q(n + 1)) <=> \A i \in 1..M(n + 1) : s[k + i] = p[a + i]
        <3>1. \A k : OccursAt(s, k, q(n + 1)) <=> \A i \in 1..M(n + 1) : s[k + i] = q(n + 1)[i]
            BY DEF OccursAt, M
        <3>. QED
            BY <2>5, <3>1
    <2>7. /\ \A k \in 0..L :
               k + M(n + 1) \in R[b] <=> /\ k \in R[a] /\ k + M(n + 1) <= L
                                         /\ \A i \in 1..M(n + 1) : s[k + i] = p[a + i]
          /\ \A j \in R[b] : j - M(n + 1) \in 0..L
        BY <2>1, <2>4
    <2>. QED
        BY <2>4, <2>6, <2>7 DEF a, b
(* A star. *)
<1>7. ASSUME NEW n \in 1..K PROVE R[c(n)] = {j \in 0..L : \E h \in R[c(n) - 1] : h <= j}
    BY <1>2, <1>4
(* The first part. *)
<1>8. /\ R[c(0)] \subseteq 0..L /\ \A k \in 0..L : k \in R[c(0)] <=> k = 0
    BY <1>1, <1>2, <1>4
<1>9. /\ R[c(1) - 1] \subseteq 0..L /\ \A j \in 0..L : j \in R[c(1) - 1] <=> j = lo /\ pre
    <2>1. 0 \in 0..K /\ 0 + 1 = 1
        BY <1>2
    <2>2. /\ R[c(1) - 1] \subseteq 0..L
          /\ \A k \in 0..L : k + M(1) \in R[c(1) - 1] <=>
                               k \in R[c(0)] /\ k + M(1) <= L /\ OccursAt(s, k, q(1))
          /\ \A j \in R[c(1) - 1] : j - M(1) \in 0..L
        BY <1>6, <1>8, <2>1
    <2>3. 0 \in 0..L /\ 0 + M(1) = M(1)
        BY <1>1, <1>a
    <2>4. lo \in R[c(1) - 1] <=> pre
        BY <1>8, <2>2, <2>3
    <2>5. ASSUME NEW j \in 0..L, j \in R[c(1) - 1] PROVE j = lo
        <3>1. j - M(1) \in 0..L /\ (j - M(1)) + M(1) = j
            BY <1>1, <1>a, <2>2, <2>5
        <3>2. j - M(1) = 0
            BY <1>8, <2>2, <2>5, <3>1
        <3>. QED
            BY <1>a, <3>1, <3>2
    <2>. QED
        BY <2>2, <2>4, <2>5
<1>10. CASE K = 0
    <2>1. /\ c(1) - 1 = N /\ M(1) = N
        <3>1. c(1) = N + 1 /\ 1 \in 1..K + 1 /\ c(0) = 0
            BY <1>2, <1>10
        <3>2. M(1) = c(1) - c(0) - 1
            <4>1. 1 - 1 = 0
                OBVIOUS
            <4>. QED
                BY <1>3, <3>1, <4>1
        <3>. QED
            BY <1>1, <3>1, <3>2
    <2>2. Matches(p, s) <=> L = N /\ OccursAt(s, 0, q(1))
        <3>1. L \in 0..L
            BY <1>1
        <3>. QED
            BY <1>1, <1>4, <1>9, <2>1, <3>1
    <2>3. OccursAt(s, 0, q(1)) <=> \A i \in 1..N : s[i] = p[i]
        <3>1. 1 \in 1..K + 1 /\ 1 - 1 = 0
            BY <1>2
        <3>2. \A i \in 1..N : q(1)[i] = p[c(0) + i]
            BY <1>3, <2>1, <3>1
        <3>3. \A i \in 1..N : 0 + i = i
            BY <1>1
        <3>4. OccursAt(s, 0, q(1)) <=> \A i \in 1..N : s[0 + i] = q(1)[i]
            BY <2>1 DEF OccursAt, M
        <3>. QED
            BY <1>2, <3>2, <3>3, <3>4
    <2>4. p = s <=> L = N /\ \A i \in 1..N : s[i] = p[i]
        <3>1. ASSUME L = N, \A i \in 1..N : s[i] = p[i] PROVE p = s
            BY <3>1, SeqEqual DEF L, N
        <3>. QED
            BY <3>1 DEF L, N
    <2>. QED
        BY <1>5, <1>10, <2>2, <2>3, <2>4
<1>11. CASE K # 0
    <2>0. K >= 1 /\ K - 1 \in Nat /\ Len(Split(p)) - 2 = K - 1 /\ K + 1 # 1
        BY <1>2, <1>3, <1>11
    <2>1. PICK f : /\ MatchMiddle(s, lo, hi, Split(p)) <=> f[K - 1] # None
                   /\ f[0] = lo
                   /\ \A n \in 1..K - 1 :
                        f[n] = LET k == IF f[n - 1] = None THEN None ELSE Index(s, f[n - 1], hi, q(n + 1))
                               IN  IF k = None THEN None ELSE k + M(n + 1)
        BY <2>0, Greedy DEF q, M
    <2>. DEFINE Good(n) ==
                  /\ R[c(n + 1)] \subseteq 0..L
                  /\ f[n] = None \/ (f[n] \in Nat /\ lo <= f[n] /\ (lo <= hi => f[n] <= hi))
                  /\ \A j \in 0..hi : j \in R[c(n + 1)] <=> pre /\ f[n] # None /\ f[n] <= j
                S == {n \in 0..K - 1 : Good(n)}
    <2>. HIDE DEF lo, hi, pre
    <2>2. pre \in BOOLEAN /\ \A m \in Nat : m # None
        BY DEF pre, None
    <2>3. 0 \in S
        <3>1. 0 \in 0..K - 1 /\ 0 + 1 = 1 /\ 1 \in 1..K
            BY <2>0
        <3>2. R[c(1)] = {j \in 0..L : \E h \in R[c(1) - 1] : h <= j}
            BY <1>7, <3>1
        <3>3. R[c(1)] \subseteq 0..L
            BY <3>2
        <3>4. f[0] \in Nat /\ lo <= f[0] /\ (lo <= hi => f[0] <= hi) /\ f[0] # None
            BY <1>a, <2>1, <2>2
        <3>5. pre => lo \in 0..L
            BY <1>1, <1>a DEF pre
        <3>6. ASSUME NEW j \in 0..hi PROVE j \in R[c(1)] <=> pre /\ f[0] <= j
            <4>1. j \in 0..L
                BY <1>1, <1>a
            <4>2. (\E h \in R[c(1) - 1] : h <= j) <=> pre /\ lo <= j
                BY <1>9, <3>5
            <4>. QED
                BY <2>1, <3>2, <4>1, <4>2
        <3>7. Good(0)
            BY <3>1, <3>3, <3>4, <3>6
        <3>. HIDE DEF Good
        <3>. QED
            BY <3>1, <3>7
    <2>4. ASSUME NEW n \in 0..K - 1, n < K - 1, n \in S PROVE n + 1 \in S
        <3>0. Good(n)
            BY <2>4
        <3>1. /\ n + 1 \in 0..K /\ n + 1 \in 1..K - 1 /\ n + 1 \in 0..K - 1 /\ (n + 1) + 1 \in 1..K
              /\ (n + 1) + 1 \in 1..K + 1 /\ (n + 1) - 1 = n
            <4>1. \A m \in Nat, l \in Nat : m <= l - 1 /\ m < l - 1 =>
                    /\ m + 1 \in 0..l /\ m + 1 \in 1..l - 1 /\ m + 1 \in 0..l - 1 /\ (m + 1) + 1 \in 1..l
                    /\ (m + 1) + 1 \in 1..l + 1 /\ (m + 1) - 1 = m
                OBVIOUS
            <4>2. n \in Nat /\ n <= K - 1
                BY <1>2, <2>0
            <4>. QED
                BY <1>2, <2>4, <4>1, <4>2
        <3>. DEFINE t == q((n + 1) + 1)
                    x == f[n]
                    k == IF x = None THEN None ELSE Index(s, x, hi, t)
                    Ra == R[c(n + 1)]
                    Rb == R[c((n + 1) + 1) - 1]
        <3>2. Len(t) \in Nat /\ Len(t) = M((n + 1) + 1)
            BY <1>3, <3>1 DEF M
        <3>3. f[n + 1] = IF k = None THEN None ELSE k + Len(t)
            BY <2>1, <3>1, <3>2
        <3>4. /\ Rb \subseteq 0..L
              /\ \A m \in 0..L : m + Len(t) \in Rb <=> m \in Ra /\ m + Len(t) <= L /\ OccursAt(s, m, t)
              /\ \A j \in Rb : j - Len(t) \in 0..L
            BY <1>6, <3>0, <3>1, <3>2
        <3>5. R[c((n + 1) + 1)] = {j \in 0..L : \E h \in Rb : h <= j}
            BY <1>7, <3>1
        <3>6. /\ x = None \/ (x \in Nat /\ lo <= x /\ (lo <= hi => x <= hi))
              /\ \A j \in 0..hi : j \in Ra <=> pre /\ x # None /\ x <= j
            BY <3>0
        <3>. HIDE DEF Good, t, x, Ra, Rb
        <3>7. ASSUME x # None, k # None
              PROVE  k \in Nat /\ x <= k /\ k <= hi - Len(t) /\ x \in Nat
            <4>1. k = Index(s, x, hi, t) /\ x \in Nat
                BY <3>6, <3>7
            <4>. HIDE DEF k
            <4>2. k \in Places(s, x, hi, t)
                BY <1>a, <3>2, <3>7, <4>1, FirstPlace
            <4>. QED
                BY <1>a, <3>2, <4>1, <4>2 DEF Places
        <3>8. k # None => x # None
            OBVIOUS
        <3>9. k # None => k \in Nat /\ k + Len(t) \in Nat /\ lo <= k + Len(t) /\ k + Len(t) <= hi
            <4>. HIDE DEF k
            <4>. QED
                BY <1>a, <3>2, <3>6, <3>7, <3>8
        <3>10. ASSUME NEW j \in 0..hi
               PROVE  (\E h \in Rb : h <= j) <=> pre /\ k # None /\ k + Len(t) <= j
            <4>1. k = IF x = None THEN None ELSE Index(s, x, hi, t)
                OBVIOUS
            <4>. HIDE DEF k
            <4>2. Rb \subseteq Int /\ Len(s) \in Nat /\ hi <= Len(s) /\ hi \in Int /\ Len(t) \in Nat
                BY <1>1, <1>a, <3>2, <3>4 DEF L
            <4>3. \A i \in 0..Len(s) : i + Len(t) \in Rb <=> i \in Ra /\ i + Len(t) <= Len(s) /\ OccursAt(s, i, t)
                BY <3>4 DEF L
            <4>4. \A i \in Rb : i - Len(t) \in 0..Len(s)
                BY <3>4 DEF L
            <4>5. CASE pre /\ x # None
                <5>1. x \in Nat /\ \A i \in 0..hi : i \in Ra <=> x <= i
                    BY <3>6, <4>5
                <5>2. k = Index(s, x, hi, t)
                    BY <4>1, <4>5
                <5>3. (\E h \in Rb : h <= j)
                        <=> Index(s, x, hi, t) # None /\ Index(s, x, hi, t) + Len(t) <= j
                    BY <4>2, <4>3, <4>4, <5>1, PartStep
                <5>. QED
                    BY <4>5, <5>2, <5>3
            <4>6. CASE ~(pre /\ x # None)
                <5>1. ASSUME NEW h \in Rb, h <= j PROVE FALSE
                    <6>1. h - Len(t) \in 0..Len(s) /\ (h - Len(t)) + Len(t) = h /\ h - Len(t) \in 0..hi
                        BY <4>2, <4>4, <5>1
                    <6>2. h - Len(t) \in Ra
                        BY <4>3, <5>1, <6>1
                    <6>. QED
                        BY <3>6, <4>6, <6>1, <6>2
                <5>2. ~(pre /\ k # None)
                    BY <3>8, <4>6
                <5>. QED
                    BY <5>1, <5>2
            <4>. QED
                BY <4>5, <4>6
        <3>. HIDE DEF k
        <3>11. f[n + 1] = None \/ (f[n + 1] \in Nat /\ lo <= f[n + 1] /\ (lo <= hi => f[n + 1] <= hi))
            BY <3>3, <3>9
        <3>12. ASSUME NEW j \in 0..hi
               PROVE  j \in R[c((n + 1) + 1)] <=> pre /\ f[n + 1] # None /\ f[n + 1] <= j
            <4>1. j \in 0..L
                BY <1>1, <1>a
            <4>2. f[n + 1] # None <=> k # None
                BY <2>2, <3>3, <3>9
            <4>3. k # None => f[n + 1] = k + Len(t)
                BY <3>3
            <4>. QED
                BY <3>5, <3>10, <4>1, <4>2, <4>3
        <3>13. R[c((n + 1) + 1)] \subseteq 0..L
            BY <3>5
        <3>14. Good(n + 1)
            BY <3>11, <3>12, <3>13 DEF Good
        <3>. QED
            BY <3>1, <3>14
    <2>5. Good(K - 1)
        <3>1. K - 1 \in S
            <4>. HIDE DEF S
            <4>1. \A n \in 0..K - 1 : n \in S
                BY <2>0, <2>3, <2>4, UpTo
            <4>. QED
                BY <2>0, <4>1
        <3>. QED
            BY <3>1
    <2>6. /\ (K - 1) + 1 = K /\ K \in 0..K /\ c(K + 1) - 1 = N
        BY <1>1, <1>2
    <2>7. /\ \A k \in 0..L : k + M(K + 1) \in R[N] <=>
                               k \in R[c(K)] /\ k + M(K + 1) <= L /\ OccursAt(s, k, q(K + 1))
          /\ \A j \in R[N] : j - M(K + 1) \in 0..L
        BY <1>6, <2>5, <2>6
    <2>8. hi = L - M(K + 1) /\ hi + M(K + 1) = L
        BY <1>1, <1>a DEF hi
    <2>9. L \in R[N] <=> hi \in 0..L /\ hi \in R[c(K)] /\ OccursAt(s, hi, q(K + 1))
        BY <1>1, <2>7, <2>8
    <2>10. hi \in 0..L => (hi \in R[c(K)] <=> pre /\ f[K - 1] # None /\ f[K - 1] <= hi)
        <3>1. hi \in 0..L => hi \in 0..hi
            BY <1>a
        <3>. QED
            BY <2>5, <2>6, <3>1
    <2>11. f[K - 1] = None \/ (f[K - 1] \in Nat /\ lo <= f[K - 1] /\ (lo <= hi => f[K - 1] <= hi))
        BY <2>5
    <2>12. WildcardMatch(p, s) <=> pre /\ lo <= hi /\ OccursAt(s, hi, q(K + 1)) /\ f[K - 1] # None
        BY <1>5, <2>0, <2>1 DEF lo, hi, pre
    <2>13. lo <= hi => hi \in 0..L
        BY <1>1, <1>a
    <2>14. f[K - 1] # None /\ f[K - 1] <= hi => lo <= hi
        BY <1>a, <2>11
    <2>. QED
        BY <1>4, <2>9, <2>10, <2>11, <2>12, <2>13, <2>14
<1>. QED
    BY <1>10, <1>11

(* Only services the caller asked for are connected (client.go 68-329), whatever
   the lookups, rounds and restarts, and the names, IDs and patterns.       *)
THEOREM SpecConnectsAsAsked == Spec => []ConnectsAsAsked
<1>0. MatcherExact
    <2>1. ASSUME NEW p \in Words(Letters \cup {"*"}, MaxPattern), NEW s \in Words(Letters, MaxStr)
          PROVE  WildcardMatch(p, s) <=> Matches(p, s)
        <3>1. PICK m \in 0..MaxPattern : p \in [1..m -> Letters \cup {"*"}]
            BY DEF Words
        <3>2. PICK n \in 0..MaxStr : s \in [1..n -> Letters]
            BY DEF Words
        <3>3. m \in Nat /\ n \in Nat
            BY WildcardAssumption
        <3>4. p \in Seq(Letters \cup {"*"}) /\ s \in Seq(Letters \cup {"*"})
            BY <3>1, <3>2, <3>3
        <3>. QED
            BY <3>4, WildcardMatchExact
    <2>. QED
        BY <2>1 DEF MatcherExact
<1>1. IInv /\ WantedInv => ConnectsAsAsked
    <2>. SUFFICES ASSUME IInv, WantedInv, NEW i \in Range(conns)
                  PROVE  /\ Matches(opts.name, Name[i])
                         /\ \/ opts.providers = <<>>
                            \/ \E k \in DOMAIN opts.providers : Matches(opts.providers[k], Provider[i])
                            \/ Tier[i] \in 1..2 /\ opts.selfID # Self
        BY <1>0 DEF ConnectsAsAsked
    <2>1. conns \in Seq(Instances) /\ opts \in Options
        BY DEF IInv, TypeOK
    <2>2. PICK n \in 1 .. Len(conns) : conns[n] = i
        BY <2>1 DEF Range
    <2>3. i \in Instances /\ i \in Asked(Tier[i]) /\ Wanted(Tier[i])
        BY <2>1, <2>2 DEF IInv, ConnsInv, WantedInv
    <2>4. /\ WildcardMatch(opts.name, Name[i]) <=> Matches(opts.name, Name[i])
          /\ \A k \in DOMAIN opts.providers :
               WildcardMatch(opts.providers[k], Provider[i]) <=> Matches(opts.providers[k], Provider[i])
        <3>1. /\ Name[i] \in Seq(Letters \cup {"*"}) /\ Provider[i] \in Seq(Letters \cup {"*"})
              /\ opts.name \in Seq(Letters \cup {"*"}) /\ opts.providers \in Seq(Seq(Letters \cup {"*"}))
            BY <2>1, <2>3, DiscoverAssumption
        <3>2. \A k \in DOMAIN opts.providers : opts.providers[k] \in Seq(Letters \cup {"*"})
            BY <3>1
        <3>. QED
            BY <3>1, <3>2, WildcardMatchExact
    <2>5. Matches(opts.name, Name[i])
        <3>1. WildcardMatch(opts.name, Name[i])
            BY <2>1, <2>3 DEF Asked, Named
        <3>. QED
            BY <2>4, <3>1
    <2>6. ASSUME matchProvider(Provider[i])
          PROVE  \/ opts.providers = <<>>
                 \/ \E k \in DOMAIN opts.providers : Matches(opts.providers[k], Provider[i])
        <3>1. \/ opts.providers = <<>>
              \/ \E k \in DOMAIN opts.providers : WildcardMatch(opts.providers[k], Provider[i])
            BY <2>1, <2>6 DEF matchProvider, Matched
        <3>. QED
            BY <2>4, <3>1
    <2>7. CASE Tier[i] \in 1..2
        <3>1. CASE opts.selfID = Self
            <4>1. Provider[i] = Self /\ Self # <<>>
                BY <2>3, <2>7, DiscoverAssumption
            <4>2. matchProvider(Provider[i])
                BY <2>3, <2>7, <3>1, <4>1 DEF Wanted, searchSelf
            <4>. QED
                BY <2>5, <2>6, <4>2
        <3>. QED
            BY <2>5, <2>7, <3>1
    <2>8. CASE Tier[i] \notin 1..2
        <3>1. Tier[i] \in 3..5
            BY <2>3, <2>8, DiscoverAssumption
        <3>2. matchProvider(Provider[i])
            BY <2>3, <3>1 DEF Asked
        <3>. QED
            BY <2>5, <2>6, <3>2
    <2>. QED
        BY <2>7, <2>8
<1>. QED
    BY <1>1, SpecIInv, SpecWanted, PTL
=============================================================================
