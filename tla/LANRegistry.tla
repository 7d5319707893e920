----------------------------- MODULE LANRegistry -----------------------------
(***************************************************************************)
(* The LAN registry daemons (registry.go, lines 355-652, and               *)
(* lanregistry_svc.go): one per node, all on one local network.            *)
(*                                                                         *)
(* A daemon knows the services of its own node (localServiceTable).  To    *)
(* answer a query it broadcasts the name in a UDP packet; every daemon     *)
(* that has the service answers with a packet of its own, which the asking *)
(* daemon enters in serviceCache; 100 ms later it replies with what is in  *)
(* the cache by then.  The reply is remembered for 15 seconds.  Entries of *)
(* the cache expire after 5 minutes, local services after 5 minutes of     *)
(* failing pings.  A daemon that is closed saves the local table and the   *)
(* next one reads it back and removes the file.                            *)
(*                                                                         *)
(* All of it happens in the goroutine run, one select case at a time, so   *)
(* each case is one action.  A packet that readConn has passed to          *)
(* packetChan is still part of net.  Port numbers are left out: a provider *)
(* has one transport per service.                                          *)
(***************************************************************************)
EXTENDS Naturals, Sequences

CONSTANTS
    Nodes,          \* hosts with a daemon; a host is also a provider ID
    Names,          \* publisher_service names
    Publishers,     \* the nodes on which servers publish
    Queriers,       \* the nodes on which clients ask
    Patterns,       \* what they ask for: the set of names a pattern matches
    BroadcastFails, \* packetConn.WriteTo may return an error
    PromptNet,      \* packets arrive within 100 ms, clients ask within 5 min
    MaxLost,        \* bound on lost packets
    MaxStops,       \* bound on how often daemons end
    Nil

ASSUME LANRegistryAssumption ==
    /\ Publishers \subseteq Nodes /\ Queriers \subseteq Nodes
    /\ Patterns \subseteq SUBSET Names
    /\ BroadcastFails \in BOOLEAN /\ PromptNet \in BOOLEAN
    /\ MaxLost \in Nat /\ MaxStops \in Nat

VARIABLES
    listening,  \* pairs <<n, name>>: a server of that service runs on n
    cmds,       \* register and delete commands waiting on cmdChan
    table,      \* table[n]: localServiceTable
    old,        \* old[n]: its names with a time stamp older than 5 minutes
    cache,      \* cache[n]: serviceCache, as pairs <<name, provider>>
    stale,      \* stale[n]: its entries older than 5 minutes
    query,      \* query[n]: the query that is under way on n
    replies,    \* replies[n]: results in chanServiceInfo, a channel of size 1
    memo,       \* memo[n][pat]: an entry of serviceInfoCache younger than 15 s
    answer,     \* answer[n]: what the client on n was told last
    net,        \* packets under way
    running,    \* nodes whose daemon runs
    saveFile,   \* saveFile[n]: local_services.record
    lost, stops,\* counters for the bounds
    known       \* history: pairs <<n, name>> that must be in table[n]

localVars == <<listening, cmds, table, old, known>>
queryVars == <<query, replies, memo, answer>>
nodeVars == <<running, saveFile, stops>>
lanVars == <<localVars, cache, stale, queryVars, net, lost, nodeVars>>

Cmd == [op : {"register", "delete"}, node : Nodes, name : Names]
Entry == Names \X Nodes
Packet == [kind : {"query"}, pat : Patterns, from : Nodes, to : Nodes]
          \cup [kind : {"found"}, name : Names, from : Nodes, to : Nodes]

Idle == [st |-> "idle", pat |-> Nil]

\* The entries of the cache that a query is about.
Matching(n, pat) == {e \in cache[n] : e[1] \in pat}

LANInit ==
    /\ listening = {} /\ cmds = {} /\ known = {}
    /\ table = [n \in Nodes |-> {}] /\ old = [n \in Nodes |-> {}]
    /\ cache = [n \in Nodes |-> {}] /\ stale = [n \in Nodes |-> {}]
    /\ query = [n \in Nodes |-> Idle]
    /\ replies = [n \in Nodes |-> <<>>]
    /\ memo = [n \in Nodes |-> [p \in Patterns |-> Nil]]
    /\ answer = [n \in Nodes |-> {}]
    /\ net = {} /\ lost = 0
    /\ running = Nodes /\ saveFile = [n \in Nodes |-> {}] /\ stops = 0

-----------------------------------------------------------------------------
(* Servers of a node.                                                      *)

\* regServiceLAN: the server listens and asks the daemon of its node; the
\* handler waits on cmdChan.
registerServiceInLAN(n, name) ==
    /\ n \in running
    /\ <<n, name>> \notin listening
    /\ [op |-> "register", node |-> n, name |-> name] \notin cmds
    /\ listening' = listening \cup {<<n, name>>}
    /\ cmds' = cmds \cup {[op |-> "register", node |-> n, name |-> name]}
    /\ UNCHANGED <<table, old, known, cache, stale, queryVars, net, lost, nodeVars>>

\* delServiceLAN: the listener is closed and a one-way delete is sent.
deleteServiceInLAN(n, name) ==
    /\ <<n, name>> \in listening
    /\ [op |-> "register", node |-> n, name |-> name] \notin cmds
    /\ listening' = listening \ {<<n, name>>}
    /\ cmds' = IF n \in running
               THEN cmds \cup {[op |-> "delete", node |-> n, name |-> name]}
               ELSE cmds
    /\ known' = known \ {<<n, name>>}
    /\ UNCHANGED <<table, old, cache, stale, queryVars, net, lost, nodeVars>>

\* The server process ends without a word.
LocalServerDies(n, name) ==
    /\ <<n, name>> \in listening
    /\ listening' = listening \ {<<n, name>>}
    /\ known' = known \ {<<n, name>>}
    /\ UNCHANGED <<cmds, table, old, cache, stale, queryVars, net, lost, nodeVars>>

-----------------------------------------------------------------------------
(* run: commands.                                                          *)

RunRegister(n, name) ==
    LET cmd == [op |-> "register", node |-> n, name |-> name]
    IN  /\ cmd \in cmds
        /\ cmds' = cmds \ {cmd}
        /\ table' = [table EXCEPT ![n] = @ \cup {name}]
        /\ old' = [old EXCEPT ![n] = @ \ {name}]
        /\ known' = IF /\ <<n, name>> \in listening
                       /\ [cmd EXCEPT !.op = "delete"] \notin cmds
                    THEN known \cup {<<n, name>>} ELSE known
        /\ UNCHANGED <<listening, cache, stale, queryVars, net, lost, nodeVars>>

\* delService: out of the local table, and this provider out of the cache.
delService(n, S) ==
    /\ table' = [table EXCEPT ![n] = @ \ S]
    /\ cache' = [cache EXCEPT ![n] = @ \ (S \X {n})]
    /\ stale' = [stale EXCEPT ![n] = @ \ (S \X {n})]

RunDelete(n, name) ==
    LET cmd == [op |-> "delete", node |-> n, name |-> name]
    IN  /\ cmd \in cmds
        /\ cmds' = cmds \ {cmd}
        /\ delService(n, {name})
        /\ old' = [old EXCEPT ![n] = @ \ {name}]
        /\ UNCHANGED <<listening, known, queryVars, net, lost, nodeVars>>

\* Mutant of Tick: an old entry is removed whatever the ping says.
TickIgnoresPing(n) ==
    /\ n \in running
    /\ delService(n, old[n])
    /\ old' = [old EXCEPT ![n] = {}]
    /\ UNCHANGED <<listening, cmds, known, queryVars, net, lost, nodeVars>>

\* Mutant of Tick: the time stamp is refreshed whatever the ping says.
TickRefreshes(n) ==
    /\ n \in running
    /\ old' = [old EXCEPT ![n] = {}]
    /\ UNCHANGED <<listening, cmds, table, known, cache, stale, queryVars, net, lost, nodeVars>>

\* Once a minute every local service is pinged; the ping of one that listens
\* succeeds (a failure in passing is left out).
Tick(n) ==
    /\ n \in running
    /\ LET live == {name \in table[n] : <<n, name>> \in listening}
           gone == (table[n] \ live) \cap old[n]
       IN  /\ delService(n, gone)
           /\ old' = [old EXCEPT ![n] = @ \ (live \cup gone)]
    /\ UNCHANGED <<listening, cmds, known, queryVars, net, lost, nodeVars>>

-----------------------------------------------------------------------------
(* Queries.                                                                *)

\* registryLAN.queryServiceInLAN: a recent result is returned at once, or else
\* a command goes to run.
queryServiceInLAN(n, pat) ==
    /\ n \in running
    /\ query[n] = Idle
    /\ \/ /\ memo[n][pat] # Nil
          /\ answer' = [answer EXCEPT ![n] = memo[n][pat]]
          /\ UNCHANGED query
       \/ /\ memo[n][pat] = Nil
          /\ query' = [query EXCEPT ![n] = [st |-> "asked", pat |-> pat]]
          /\ UNCHANGED answer
    /\ UNCHANGED <<localVars, cache, stale, replies, memo, net, lost, nodeVars>>

\* run takes the command and broadcasts the question, to its own node too.
\* When the broadcast fails it forgets the command.
RunQuery(n) ==
    /\ query[n].st = "asked"
    /\ \/ /\ query' = [query EXCEPT ![n].st = "delay"]
          /\ net' = net \cup [kind : {"query"}, pat : {query[n].pat}, from : {n}, to : running]
       \/ /\ BroadcastFails
          /\ query' = [query EXCEPT ![n].st = "dropped"]
          /\ UNCHANGED net
    /\ UNCHANGED <<localVars, cache, stale, replies, memo, answer, lost, nodeVars>>

\* The packets that a query of node n has caused and that are under way.
Caused(n) == {p \in net : IF p.kind = "query" THEN p.from = n ELSE p.to = n}

\* time.AfterFunc: 100 ms later the command is in chanDelay.
TimerFires(n) ==
    /\ query[n].st = "delay"
    /\ PromptNet => Caused(n) = {}
    /\ query' = [query EXCEPT ![n].st = "due"]
    /\ UNCHANGED <<localVars, cache, stale, replies, memo, answer, net, lost, nodeVars>>

\* Mutant of getServiceInfos: an empty result is not sent.
getServiceInfosNoEmpty(n) ==
    /\ query[n].st = "due"
    /\ Matching(n, query[n].pat) \ stale[n] # {}
    /\ replies' = [replies EXCEPT ![n] = Append(@, Matching(n, query[n].pat) \ stale[n])]
    /\ query' = [query EXCEPT ![n].st = "replied"]
    /\ UNCHANGED <<localVars, cache, stale, memo, answer, net, lost, nodeVars>>

getServiceInfos(n) ==
    /\ query[n].st = "due"
    /\ LET expired == Matching(n, query[n].pat) \cap stale[n]
       IN  /\ cache' = [cache EXCEPT ![n] = @ \ expired]
           /\ stale' = [stale EXCEPT ![n] = @ \ expired]
           /\ replies' = [replies EXCEPT ![n] = Append(@, Matching(n, query[n].pat) \ expired)]
    /\ query' = [query EXCEPT ![n].st = "replied"]
    /\ UNCHANGED <<localVars, memo, answer, net, lost, nodeVars>>

\* The handler of the query message goes on: it stores the result and replies.
QueryReturns(n) ==
    /\ replies[n] # <<>>
    /\ replies' = [replies EXCEPT ![n] = <<>>]
    /\ memo' = [memo EXCEPT ![n][query[n].pat] = replies[n][1]]
    /\ answer' = [answer EXCEPT ![n] = replies[n][1]]
    /\ query' = [query EXCEPT ![n] = Idle]
    /\ UNCHANGED <<localVars, cache, stale, net, lost, nodeVars>>

-----------------------------------------------------------------------------
(* run: packets.                                                           *)

RunQueryPacket(p) ==
    /\ p.kind = "query"
    /\ net' = (net \ {p}) \cup
              [kind : {"found"}, name : table[p.to] \cap p.pat, from : {p.to}, to : {p.from} \cap running]
    /\ UNCHANGED <<localVars, cache, stale, queryVars, lost, nodeVars>>

\* Mutant of RunFoundPacket: only a known provider is refreshed.
RunFoundPacketKnownOnly(p) ==
    /\ p.kind = "found"
    /\ stale' = [stale EXCEPT ![p.to] = @ \ {<<p.name, p.from>>}]
    /\ net' = net \ {p}
    /\ UNCHANGED <<localVars, cache, queryVars, lost, nodeVars>>

RunFoundPacket(p) ==
    /\ p.kind = "found"
    /\ cache' = [cache EXCEPT ![p.to] = @ \cup {<<p.name, p.from>>}]
    /\ stale' = [stale EXCEPT ![p.to] = @ \ {<<p.name, p.from>>}]
    /\ net' = net \ {p}
    /\ UNCHANGED <<localVars, queryVars, lost, nodeVars>>

\* UDP may lose any packet.
Lose(p) ==
    /\ lost < MaxLost
    /\ lost' = lost + 1
    /\ net' = net \ {p}
    /\ UNCHANGED <<localVars, cache, stale, queryVars, nodeVars>>

-----------------------------------------------------------------------------
(* Time.                                                                   *)

LocalAges(n, name) ==
    /\ name \in table[n] \ old[n]
    /\ old' = [old EXCEPT ![n] = @ \cup {name}]
    /\ UNCHANGED <<listening, cmds, table, known, cache, stale, queryVars, net, lost, nodeVars>>

CacheAges(n, e) ==
    /\ e \in cache[n] \ stale[n]
    /\ PromptNet => query[n] = Idle
    /\ stale' = [stale EXCEPT ![n] = @ \cup {e}]
    /\ UNCHANGED <<localVars, cache, queryVars, net, lost, nodeVars>>

\* 15 seconds have passed, or more than 1000 results were stored.
MemoExpires(n, pat) ==
    /\ memo[n][pat] # Nil
    /\ memo' = [memo EXCEPT ![n][pat] = Nil]
    /\ UNCHANGED <<localVars, cache, stale, query, replies, answer, net, lost, nodeVars>>

-----------------------------------------------------------------------------
(* The daemon ends and starts.                                             *)

\* Everything in memory is gone, a server still waiting for its OK closes its
\* listener, a waiting client gets an error.
Vanish(n, saved) ==
    LET waiting == {<<c.node, c.name>> : c \in {d \in cmds : d.op = "register" /\ d.node = n}}
    IN  /\ n \in running
        /\ stops < MaxStops
        /\ stops' = stops + 1
        /\ running' = running \ {n}
        /\ saveFile' = [saveFile EXCEPT ![n] = saved]
        /\ listening' = listening \ waiting
        /\ cmds' = {c \in cmds : c.node # n}
        /\ table' = [table EXCEPT ![n] = {}] /\ old' = [old EXCEPT ![n] = {}]
        /\ cache' = [cache EXCEPT ![n] = {}] /\ stale' = [stale EXCEPT ![n] = {}]
        /\ query' = [query EXCEPT ![n] = Idle]
        /\ replies' = [replies EXCEPT ![n] = <<>>]
        /\ memo' = [memo EXCEPT ![n] = [p \in Patterns |-> Nil]]
        /\ net' = {p \in net : p.to # n}
        /\ UNCHANGED <<answer, lost>>

\* registryLAN.close, seen by the select of run: the local table is saved.
close(n) ==
    /\ Vanish(n, table[n])
    /\ known' = {p \in known : p \in listening'}

\* The process is killed; or close finds run busy, and the next select reads
\* r.done after it was set to nil: nothing is saved.
DaemonCrash(n) ==
    /\ Vanish(n, {})
    /\ known' = {p \in known : p[1] # n}

\* newLANRegistry and the head of run: the file is read and removed.
newLANRegistry(n) ==
    /\ n \notin running
    /\ running' = running \cup {n}
    /\ table' = [table EXCEPT ![n] = saveFile[n]]
    /\ saveFile' = [saveFile EXCEPT ![n] = {}]
    /\ UNCHANGED <<listening, cmds, old, known, cache, stale, queryVars, net, lost, stops>>

LANNext ==
    \/ \E n \in Publishers, name \in Names :
        \/ registerServiceInLAN(n, name) \/ deleteServiceInLAN(n, name)
        \/ LocalServerDies(n, name)
        \/ RunRegister(n, name) \/ RunDelete(n, name) \/ LocalAges(n, name)
    \/ \E n \in Queriers : \/ \E pat \in Patterns : queryServiceInLAN(n, pat) \/ MemoExpires(n, pat)
                           \/ RunQuery(n) \/ TimerFires(n) \/ getServiceInfos(n) \/ QueryReturns(n)
                           \/ \E e \in Entry : CacheAges(n, e)
    \/ \E p \in net : RunQueryPacket(p) \/ RunFoundPacket(p) \/ Lose(p)
    \/ \E n \in Nodes : Tick(n) \/ close(n) \/ DaemonCrash(n) \/ newLANRegistry(n)

LANSpec == LANInit /\ [][LANNext]_lanVars

\* run serves every ready select case in the end, packets that are not lost
\* arrive, and time passes.  Clients ask again and again.  Nothing is assumed
\* of servers, nor of daemons being stopped or started.
LANFairSpec ==
    /\ LANSpec
    /\ \A n \in Publishers, name \in Names :
        WF_lanVars(RunRegister(n, name)) /\ WF_lanVars(RunDelete(n, name)) /\ WF_lanVars(LocalAges(n, name))
    /\ \A n \in Queriers :
        /\ \A pat \in Patterns : SF_lanVars(queryServiceInLAN(n, pat)) /\ WF_lanVars(MemoExpires(n, pat))
        /\ WF_lanVars(RunQuery(n)) /\ WF_lanVars(TimerFires(n))
        /\ WF_lanVars(getServiceInfos(n)) /\ WF_lanVars(QueryReturns(n))
        /\ \A e \in Entry : SF_lanVars(CacheAges(n, e))
    /\ \A n \in Nodes : WF_lanVars(Tick(n))
    /\ \A p \in Packet : WF_lanVars(p \in net /\ (RunQueryPacket(p) \/ RunFoundPacket(p)))

-----------------------------------------------------------------------------
(* Properties.                                                             *)

\* Types of all variables.
LANTypeOK ==
    /\ listening \subseteq Nodes \X Names /\ known \subseteq listening
    /\ cmds \subseteq Cmd
    /\ table \in [Nodes -> SUBSET Names] /\ old \in [Nodes -> SUBSET Names]
    /\ cache \in [Nodes -> SUBSET Entry] /\ stale \in [Nodes -> SUBSET Entry]
    /\ \A n \in Nodes : old[n] \subseteq table[n] /\ stale[n] \subseteq cache[n]
    /\ query \in [Nodes -> {Idle} \cup [st : {"asked", "delay", "due", "replied", "dropped"},
                                        pat : Patterns]]
    /\ replies \in [Nodes -> Seq(SUBSET Entry)] /\ \A n \in Nodes : Len(replies[n]) <= 1
    /\ memo \in [Nodes -> [Patterns -> (SUBSET Entry) \cup {Nil}]]
    /\ answer \in [Nodes -> SUBSET Entry]
    /\ net \subseteq Packet
    /\ running \subseteq Nodes /\ saveFile \in [Nodes -> SUBSET Names]
    /\ lost \in 0 .. MaxLost /\ stops \in 0 .. MaxStops

\* A service that was answered OK and still listens is in the table of its
\* node's daemon, whatever the ticker's pings and the deletes of other services
\* do, and again after that daemon was closed and started, any number of times.
\* Excepted: a delete of an earlier server of that service still on its way,
\* and a daemon that ended without saving.
LocalKept == \A p \in known : p[1] \in running => p[2] \in table[p[1]]

\* Every query handed to the daemon of a running node is answered
\* (lanregistry_svc.go: queryServiceInLAN, "reply with []*ServiceInfo"), but
\* for one whose broadcast failed: the daemon forgets it, and its client waits
\* as long as the daemon runs.
QueriesAnswered ==
    \A n \in Queriers : query[n].st = "asked" ~> (query[n] = Idle \/ query[n].st = "dropped")

\* A service that stays registered on a node whose daemon stays up is, again
\* and again, in what the clients of another node are told, in spite of lost
\* packets, restarts and expiring caches, unless their query was forgotten.
Discoverable ==
    \A n \in Publishers, name \in Names, q \in Queriers :
        <>[](n \in running /\ q \in running /\ name \in table[n] /\ query[q].st # "dropped")
            => []<>(<<name, n>> \in answer[q])

\* A service that stopped for good, with or without a delete, is in the end not
\* in what clients are told any more (unless they wait for a forgotten query):
\* not out of the local table of its node, a late packet, a cache, the 15 second
\* memory, or a file read back.
Forgotten ==
    \A n \in Publishers, name \in Names, q \in Queriers :
        <>[](q \in running /\ <<n, name>> \notin listening /\ query[q].st # "dropped")
            => <>[](<<name, n>> \notin answer[q])

=============================================================================
