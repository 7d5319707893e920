------------------------------ MODULE Discover ------------------------------
(***************************************************************************)
(* Client.Discover (client.go 68-329): one goroutine searches the scopes   *)
(* from near to far, round after round, and puts a connection on the       *)
(* channel it returned for each provider it could dial, until it has the   *)
(* number it expects, or a round found some, or the timeout.               *)
(*                                                                         *)
(* An instance is one incarnation of a service: a transport on an address, *)
(* known to the registry of one scope.  A provider that restarts comes     *)
(* back as another instance with the same key.  The searches are numbered  *)
(* tiers, in the order of the code:                                        *)
(*   1 the process's chanRegistry   2 abstract unix sockets                *)
(*   3 the unix socket directory    4 the LAN registry  5 the root registry*)
(* The caller of Discover is taken to read every connection.               *)
(***************************************************************************)
EXTENDS Integers, Wildcard

CONSTANTS
    Instances,      \* the instances there are
    Tier,           \* [Instances -> 1..5], the search that finds it
    Name,           \* [Instances -> publisher and service]
    Provider,       \* [Instances -> ID of its provider]
    Self,           \* the ID of the own provider
    Proxied,        \* instances whose dial waits for ever (module ReverseProxy)
    Vanishing,      \* instances that may stop
    Slow,           \* instances that may answer the measurement too late
    Options         \* the ways Discover is called, records of the fields
                    \*   tiers     the searches the scope allows
                    \*   name      publisher and service, may have wildcards
                    \*   providers sequence of provider IDs, may have wildcards
                    \*   selfID    c.providerID, empty when it is not known
                    \*   timeout   discoverTimeout in seconds, negative for ever
                    \*   interval  checkIntervalMS, at least 10
                    \*   measured  whether provider selection methods are set
                    \*   known     whether the root registry's address is configured

OSTiers == 1..3
NA == <<"NA">>      \* the own ID after GetSelfProviderID failed

(* A provider's ID is never empty, and is not "NA": that is what a client  *)
(* takes for its own ID when it could not get it.  The process and the     *)
(* abstract sockets hold the own provider's services only.                 *)
ASSUME DiscoverAssumption ==
    /\ IsFiniteSet(Instances) /\ Tier \in [Instances -> 1..5]
    /\ \A i \in Instances : /\ Name[i] \in Seq(Letters \cup {"*"})
                            /\ Provider[i] \in Seq(Letters \cup {"*"}) \ {<<>>, NA}
    /\ \A i \in Instances : Tier[i] \in 1..2 => Provider[i] = Self
    /\ Vanishing \subseteq Instances /\ Slow \subseteq Instances
    /\ Proxied \subseteq {i \in Instances : Tier[i] = 5} \ Vanishing
    /\ \A o \in Options : /\ o.tiers \subseteq 1..5
                          /\ o.timeout \in Int /\ o.interval \in Nat /\ o.interval >= 10
                          /\ o.name \in Seq(Letters \cup {"*"})
                          /\ o.providers \in Seq(Seq(Letters \cup {"*"}))
                          /\ o.selfID \in {<<>>, NA, Self}
                          /\ o.measured \in BOOLEAN /\ o.known \in BOOLEAN

VARIABLES
    opts,           \* how Discover was called
    up,             \* instances that accept connections
    listed,         \* instances their registry returns
    gone,           \* instances that have stopped
    infoUp,         \* whether the registry info service is running
    registryAddr,   \* c.registryAddr: "", "NA" or "addr"
    serviceList,    \* keys marked by addToserviceList
    ownID,          \* what the last search of the own socket directory got from
                    \* GetSelfProviderID: "NA" or "cached", "none" before
    pc,             \* "look", "dial", "sleep", "end", or "stuck": waiting in a
                    \* measurement or for the LAN registry's answer
    tier,           \* the search in progress
    todo,           \* instances of this search still to be dialled
    timeout,        \* rounds left
    conns,          \* instances connected, in order
    refused,        \* history: instances whose dial failed or was skipped as slow
    steady          \* history: instances up and listed since Discover was called

vars == <<opts, up, listed, gone, infoUp, registryAddr, serviceList, ownID, pc, tier,
          todo, timeout, conns, refused, steady>>
search == <<opts, registryAddr, serviceList, ownID, pc, tier, todo, timeout, conns, refused>>
world == <<opts, up, listed, gone, infoUp, steady>>

IsWild(pattern) == \E k \in DOMAIN pattern : pattern[k] = "*"

(* How many connections Discover wants: all (-1) as soon as there is a     *)
(* wildcard, else one per explicit provider, else one.                     *)
Expect ==
    IF IsWild(opts.name) \/ \E k \in DOMAIN opts.providers : IsWild(opts.providers[k]) THEN -1
    ELSE IF opts.providers # <<>> THEN Len(opts.providers) ELSE 1

(* What a call's name and provider IDs match; constants, so that TLC       *)
(* computes them once.  matchProvider: no provider IDs match all.          *)
Named == [o \in Options |-> {i \in Instances : WildcardMatch(o.name, Name[i])}]
Matched ==
    [o \in Options |->
       {p \in Range(Provider) \cup {Self, NA} :
          o.providers = <<>> \/ \E k \in DOMAIN o.providers : WildcardMatch(o.providers[k], p)}]
matchProvider(target) == target \in Matched[opts]

(* Without explicit providers, or when the own ID is unknown, the own      *)
(* provider's services are searched.                                       *)
searchSelf == opts.selfID # <<>> => matchProvider(opts.selfID)

Wanted(t) == t \in opts.tiers /\ (t \in 1..2 => searchSelf)

(* The one name of the own provider's directory, when no other is asked for. *)
OwnDirOnly == ~IsWild(opts.name) /\ opts.providers = <<>>

\* A mutation: an instance in the network is never taken for the own one.
KeyNoSelf(i) ==
    LET self == Tier[i] \in 1..2 \/ (Tier[i] = 3 /\ OwnDirOnly)
    IN  Name[i] \o (IF self THEN <<"self">> ELSE Provider[i])

(* The key under which the search marks an instance: publisher, service    *)
(* and provider ID in one string, or "self" in place of the ID.            *)
Key(i) ==
    LET self == CASE Tier[i] \in 1..2 -> TRUE
                  [] Tier[i] = 3 -> OwnDirOnly
                  [] OTHER -> Provider[i] = opts.selfID
    IN  Name[i] \o (IF self THEN <<"self">> ELSE Provider[i])

(* Go's division drops the fraction: so many rounds are waited for, and a  *)
(* timeout whose milliseconds are less than the interval is no wait.       *)
Rounds ==
    IF opts.timeout >= 0 THEN (opts.timeout * 1000) \div opts.interval
    ELSE -((-opts.timeout * 1000) \div opts.interval)

TypeOK ==
    /\ opts \in Options
    /\ up \subseteq Instances /\ listed \subseteq Instances /\ gone \subseteq Instances
    /\ infoUp \in BOOLEAN
    /\ registryAddr \in {"", "NA", "addr"}
    /\ serviceList \subseteq {Key(i) : i \in Instances}
    /\ ownID \in {"none", "NA", "cached"}
    /\ pc \in {"look", "dial", "sleep", "stuck", "end"}
    /\ tier \in 1..6
    /\ todo \in Seq(Instances)
    /\ timeout \in Int /\ (Rounds >= 0 => timeout \in 0..Rounds)
    /\ conns \in Seq(Instances)
    /\ refused \subseteq Instances /\ steady \subseteq Instances

(* The instances of scopes that are not searched are left out.             *)
InScope == {i \in Instances : Tier[i] \in opts.tiers}

Init ==
    /\ opts \in Options
    /\ up \in SUBSET InScope
    /\ listed = up /\ steady = up
    /\ gone = {}
    /\ infoUp \in IF opts.known THEN {TRUE} ELSE BOOLEAN   \* not asked when known
    /\ registryAddr = IF opts.known THEN "addr" ELSE ""
    /\ serviceList = {} /\ todo = <<>> /\ conns = <<>> /\ refused = {}
    /\ pc = "look" /\ tier = 1
    /\ ownID = "none"
    /\ timeout = Rounds

-----------------------------------------------------------------------------
(* The world: services are published, stop, and are forgotten by their     *)
(* registry some time after they stopped.                                  *)
Appear(i) ==
    /\ i \in InScope \ (up \cup gone)
    /\ up' = up \cup {i} /\ listed' = listed \cup {i}
    /\ UNCHANGED <<gone, infoUp, steady, search>>

Vanish(i) ==
    /\ i \in up \cap Vanishing
    /\ up' = up \ {i} /\ gone' = gone \cup {i} /\ steady' = steady \ {i}
    /\ UNCHANGED <<listed, infoUp, search>>

Unlist(i) ==
    /\ i \in listed \cap gone
    /\ listed' = listed \ {i}
    /\ UNCHANGED <<up, gone, infoUp, steady, search>>

InfoAppears ==
    /\ ~infoUp /\ infoUp' = TRUE
    /\ UNCHANGED <<up, listed, gone, steady, search>>

-----------------------------------------------------------------------------
\* A mutation: the network is searched for expect, not expect - found.
EnoughPerCall(found) ==
    LET OS == {n \in DOMAIN found : Tier[found[n]] \in OSTiers}
    IN  Expect \in {Cardinality(OS), Cardinality(DOMAIN found \ OS)}

(* found == expect: findWithinOS and findNetwork are called with           *)
(* expect - found and count from 0, so it is the total that counts; it is  *)
(* never -1.                                                               *)
Enough(found) == Len(found) = Expect

(* addToserviceList for the instances of S.                                *)
addToserviceList(S) == serviceList \cup {Key(i) : i \in S}

(* The lookup functions of registry.go: what the registry of tier t        *)
(* returns, in any order (a map's, /proc/net/unix's, a directory's).       *)
lookupService(t) ==
    {i \in listed :
       /\ Tier[i] = t
       /\ i \in Named[opts]
       /\ (t = 3 /\ OwnDirOnly) => Provider[i] = Self
       /\ t \in 3..5 => matchProvider(Provider[i])}

(* GetSelfProviderID, asked when the search is for the own socket directory *)
(* only: the provider info service may not be found, or another goroutine  *)
(* be in the call (nestedCall); an ID it got once is kept by the process.  *)
GetSelfProviderID ==
    IF ~(tier = 3 /\ OwnDirOnly) \/ ownID = "cached" THEN {ownID} ELSE {"NA", "cached"}

(* getAddrs: of the infos whose key is not marked, the first of each key.  *)
getAddrs(infos) ==
    LET fresh == {i \in infos : Key(i) \notin serviceList}
    IN  {R \in SUBSET fresh :
           \A i \in fresh : Cardinality({j \in R : Key(j) = Key(i)}) = 1}

(* selectAndConnect, before it connects: without methods a random order.   *)
(* With methods each provider is dialled and asked four times; one that    *)
(* cannot be dialled or does not answer in time is dropped, and the sorts  *)
(* may yield any order of the others.  (Waiting for all of them, it does   *)
(* not get that far when one is proxied: LookNetwork.)                     *)
selectAddrs(addrs) ==
    IF ~opts.measured THEN SetToSeqs(addrs)
    ELSE UNION {SetToSeqs(R) : R \in {Q \in SUBSET (addrs \cap up) :
                                        addrs \cap (up \ Slow) \subseteq Q}}

(* A search in the process or the OS: the infos are looked up, and marked  *)
(* one by one as they are dialled.  With "NA" for the own ID the search is *)
(* in a directory that does not exist.                                     *)
LookWithinOS ==
    /\ pc = "look" /\ tier \in OSTiers /\ Wanted(tier)
    /\ ownID' \in GetSelfProviderID
    /\ todo' \in SetToSeqs(IF tier = 3 /\ ownID' = "NA" THEN {} ELSE lookupService(tier))
    /\ pc' = "dial"
    /\ UNCHANGED <<world, registryAddr, serviceList, tier, timeout, conns, refused>>

(* A search in the network: all that are dialled are marked beforehand.    *)
(* The WAN is searched when the root registry's address is known; an       *)
(* address that could not be discovered is remembered as "NA".             *)
ResolvedAddr ==
    IF tier # 5 \/ registryAddr # "" THEN registryAddr
    ELSE IF infoUp THEN "addr" ELSE "NA"

LookNetwork ==
    /\ pc = "look" /\ tier \in 4..5 /\ Wanted(tier)
    /\ registryAddr' = ResolvedAddr
    /\ \E addrs \in getAddrs(IF tier = 5 /\ ResolvedAddr = "NA" THEN {}
                             ELSE lookupService(tier)) :
         /\ serviceList' = addToserviceList(addrs)
         /\ todo' \in selectAddrs(addrs)
         /\ refused' = refused \cup (addrs \ Range(todo'))
         /\ pc' = IF opts.measured /\ addrs \cap Proxied \cap up # {} THEN "stuck" ELSE "dial"
    /\ UNCHANGED <<world, ownID, tier, timeout, conns>>

(* The query of the LAN registry has no timeout, and the registry leaves a *)
(* query unanswered whose broadcast failed (module LANRegistry): Discover  *)
(* waits for ever.                                                         *)
QueryUnanswered ==
    /\ pc = "look" /\ tier = 4 /\ Wanted(4)
    /\ pc' = "stuck"
    /\ UNCHANGED <<world, registryAddr, serviceList, ownID, tier, todo, timeout, conns, refused>>

\* A mutation: the searches run from far to near.
NextTierBackwards(t) == IF t = 1 THEN 5 ELSE IF t = 2 THEN 6 ELSE t - 1

(* The search after tier t: from near to far.                              *)
NextTier(t) == t + 1

(* The search is exhausted, or not wanted.                                 *)
TierDone ==
    /\ \/ pc = "dial" /\ todo = <<>>
       \/ pc = "look" /\ tier \in 1..5 /\ ~Wanted(tier)
    /\ tier' = NextTier(tier)
    /\ pc' = "look"
    /\ UNCHANGED <<world, registryAddr, ownID, serviceList, todo, timeout, conns, refused>>

(* The end of the loop over tiers: break when it must not wait any longer, *)
(* else sleep for the check interval.                                      *)
RoundDone ==
    /\ pc = "look" /\ tier = 6
    /\ pc' = IF timeout = 0 THEN "end" ELSE "sleep"
    /\ UNCHANGED <<world, registryAddr, ownID, serviceList, tier, todo, timeout, conns, refused>>

\* A mutation: the loop ends after a round without a connection.
WakeEnds ==
    /\ pc = "sleep"
    /\ timeout' = IF timeout < 0 THEN timeout ELSE timeout - 1
    /\ pc' = IF conns # <<>> THEN "look" ELSE "end"
    /\ tier' = 1
    /\ UNCHANGED <<world, registryAddr, ownID, serviceList, todo, conns, refused>>

\* A mutation: the timeout is not counted down.
WakeNoCount ==
    /\ pc = "sleep"
    /\ pc' = IF conns = <<>> THEN "look" ELSE "end"
    /\ tier' = 1
    /\ UNCHANGED <<world, registryAddr, ownID, serviceList, todo, timeout, conns, refused>>

(* A negative timeout is counted down as well, and never reaches 0.        *)
Wake ==
    /\ pc = "sleep"
    /\ timeout' = IF timeout < 0 THEN timeout ELSE timeout - 1
    /\ pc' = IF conns = <<>> THEN "look" ELSE "end"
    /\ tier' = 1
    /\ UNCHANGED <<world, registryAddr, ownID, serviceList, todo, conns, refused>>

(* The next instance of a search within the OS that was marked already is  *)
(* skipped.                                                                *)
Skip ==
    /\ pc = "dial" /\ tier \in OSTiers /\ todo # <<>>
    /\ Key(Head(todo)) \in serviceList
    /\ todo' = Tail(todo)
    /\ UNCHANGED <<world, registryAddr, ownID, serviceList, pc, tier, timeout, conns, refused>>

(* The next instance to dial.                                              *)
Dialled(i) ==
    /\ pc = "dial" /\ todo # <<>> /\ i = Head(todo)
    /\ tier \in OSTiers => Key(i) \notin serviceList
    /\ serviceList' = IF tier \in OSTiers THEN addToserviceList({i}) ELSE serviceList
    /\ todo' = Tail(todo)

(* It accepts: the connection is put on the channel, and the search ends   *)
(* with the number that was expected.                                      *)
Connect(i) ==
    /\ Dialled(i)
    /\ i \in up \ Proxied
    /\ conns' = Append(conns, i)
    /\ pc' = IF Enough(conns') THEN "end" ELSE "dial"
    /\ UNCHANGED <<world, registryAddr, ownID, tier, timeout, refused>>

(* It does not: logged, and forgotten.  newConnection of the channel       *)
(* transport has no error: without its receiver it waits for ever, as does *)
(* newTCPConnection for the ack of a proxied server.                       *)
Refused(i) ==
    /\ Dialled(i)
    /\ i \notin up /\ tier # 1
    /\ refused' = refused \cup {i}
    /\ UNCHANGED <<world, registryAddr, ownID, pc, tier, timeout, conns>>

-----------------------------------------------------------------------------
Search ==
    \/ LookWithinOS \/ LookNetwork \/ QueryUnanswered \/ TierDone \/ RoundDone \/ Wake \/ Skip
    \/ \E i \in Instances : Connect(i) \/ Refused(i)

World == InfoAppears \/ \E i \in Instances : Appear(i) \/ Vanish(i) \/ Unlist(i)

Next == Search \/ World

Spec == Init /\ [][Next]_vars

(* The goroutine runs, and the timer of its sleep fires.                   *)
FairSpec == Spec /\ WF_vars(Search)

-----------------------------------------------------------------------------
(* "WildcardMatch checks if str matches the pattern with "*" as a wildcard"  *)
(* (adaptiveservice.go 373): the greedy matcher is exact, and through all  *)
(* lookups and rounds only services the caller asked for by name and       *)
(* provider are connected; the own provider's also when its ID is unknown. *)
ConnectsAsAsked ==
    /\ MatcherExact
    /\ \A i \in Range(conns) :
         /\ Matches(opts.name, Name[i])
         /\ \/ opts.providers = <<>>
            \/ \E k \in DOMAIN opts.providers : Matches(opts.providers[k], Provider[i])
            \/ Tier[i] \in 1..2 /\ opts.selfID # Self

(* No service of a provider is connected twice by one Discover, whatever   *)
(* scopes list it and however many rounds it takes.  The own provider's is *)
(* recognised as "self" except in the socket directory, when that is       *)
(* searched by ID, and except in the network while the client does not     *)
(* know its own ID (client.go 261): there it may be connected once more.   *)
OncePerService ==
    \A m, n \in DOMAIN conns :
        LET i == conns[m]
            j == conns[n]
        IN  m # n /\ Name[i] = Name[j] /\ Provider[i] = Provider[j]
              => Provider[i] = Self /\ (3 \in {Tier[i], Tier[j]} \/ opts.selfID # Self)

(* "expect available services at most the number of explicit providers"    *)
(* (client.go 298): never more connections than expected, the rounds and   *)
(* scopes taken together.                                                  *)
AtMostExpected == Expect > 0 => Len(conns) <= Expect

(* An instance the last search of the own directory did not look for.      *)
Missed(j) == Tier[j] = 3 /\ OwnDirOnly /\ ownID = "NA"

(* "discover searches scopes by distance" (client.go 60): when one         *)
(* connection is wanted, it is not to a farther instance than one that has *)
(* been up since the call, unless an instance with the same key was        *)
(* refused before, or the nearer one is in the own socket directory and    *)
(* this round could not get the own ID (registry.go 192-195).              *)
NearestFirst ==
    Expect = 1 =>
        \A n \in DOMAIN conns : \A j \in steady :
            Wanted(Tier[j]) /\ j \in lookupService(Tier[j]) /\ Tier[j] < Tier[conns[n]]
              => (\E k \in refused : Key(k) = Key(j)) \/ Missed(j)

(* What this Discover will not connect any more: a key that was marked and *)
(* then refused is not dialled again, though the provider restarts; the    *)
(* own directory while the own ID cannot be got; an address of the root    *)
(* registry that could not be discovered once stays "NA".                  *)
Reachable(i) ==
    /\ i \in up \ Proxied /\ Wanted(Tier[i]) /\ i \in lookupService(Tier[i])
    /\ \A k \in refused : Key(k) # Key(i)
    /\ Tier[i] = 5 => registryAddr # "NA"
    /\ ~Missed(i)

(* Where it waits for ever: newConnection of the channel transport, for a  *)
(* service of the own process that stopped after it was looked up; the     *)
(* dial of a proxied instance, measured or not; and a query the LAN        *)
(* registry does not answer.                                               *)
Stuck ==
    \/ pc = "stuck"
    \/ /\ pc = "dial" /\ todo # <<>>
       /\ \/ tier = 1 /\ Head(todo) \notin up /\ Key(Head(todo)) \notin serviceList
          \/ tier = 5 /\ Head(todo) \in up \cap Proxied

(* "The discover procedure waits for the wanted service to be available    *)
(* until timeout. [...] < 0 : wait forever" (client_options.go 41-45): then *)
(* a service that is reachable for good is connected in the end, unless    *)
(* the search is stuck.  It is not so when the check interval is longer    *)
(* than the negative timeout: the division of client.go 311 yields 0, and  *)
(* Discover gives up after one round (the default of -1 s, with more than  *)
(* 1000 ms).                                                               *)
Found ==
    \A i \in Instances :
        /\ opts.timeout < 0 /\ opts.interval <= -opts.timeout * 1000
        /\ <>[]Reachable(i)
        => <>(conns # <<>> \/ Stuck)

(* "The connection channel returned by Discover() will be closed if        *)
(* timeout happens." (client_options.go 42), unless the search is stuck;   *)
(* also when services appear and restart while it goes on.                 *)
Ends == opts.timeout >= 0 => <>(pc = "end" \/ Stuck)
=============================================================================
