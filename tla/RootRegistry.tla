---------------------------- MODULE RootRegistry ----------------------------
(***************************************************************************)
(* The root registry of the WAN scope (registry.go, lines 654-965).        *)
(*                                                                         *)
(* A server that publishes in WAN scope listens on a TCP address, asks the *)
(* root registry to register "publisher_service" / provider ID / port, and *)
(* on close sends a delete that nobody answers.  The registry pings the    *)
(* address before it accepts it.  A checkSaver goroutine walks the whole   *)
(* registry once a minute, pings every provider with no lock held, deletes *)
(* the ones that did not answer for 5 minutes, and saves the rest to a     *)
(* file that a restarted registry reads back.                              *)
(*                                                                         *)
(* An address stands for one listening transport of one server process:    *)
(* the port is the kernel's choice (":0"), so no two incarnations of a     *)
(* provider share one, and it also names the *providerInfo object that its *)
(* registration makes: "aged" is the timeStamp field of those objects.  A  *)
(* key stands for a pair (publisher_service, provider ID), that is for one *)
(* slot of serviceMap[name].providers.  A providerMap is made on demand and *)
(* never dropped, so a missing one and an empty one cannot be told apart.  *)
(***************************************************************************)
EXTENDS Naturals, Sequences, SequencesExt

CONSTANTS
    Keys,        \* (publisher_service, provider ID) pairs
    Addrs,       \* listening addresses, one per incarnation of a server
    KeyOf,       \* KeyOf[a]: what the server at address a publishes
    Proxied,     \* the addresses that a reverse proxy listens on
    MaxCrashes,  \* bound: how often the registry process may end
    None

ASSUME RootRegistryAssumption ==
    /\ KeyOf \in [Addrs -> Keys]
    /\ Proxied \subseteq Addrs
    /\ MaxCrashes \in Nat
    /\ None \notin Addrs \cup Keys
    /\ None \notin [addr : Addrs, proxied : BOOLEAN]
    /\ None \notin [key : Keys, info : [addr : Addrs, proxied : BOOLEAN], expired : BOOLEAN]
    /\ "P" \notin Addrs

VARIABLES
    unborn,     \* addresses of servers that have not started yet
    up,         \* addresses that accept connections
    reg,        \* reg[a]: progress of the regServiceInWAN message of a
    dels,       \* addresses whose delServiceInWAN message is not yet handled
    alive,      \* the registry process runs
    crashes,    \* how often it ended
    providers,  \* providers[k]: the *providerInfo stored for k, or None
    aged,       \* the objects whose timeStamp is older than 5 minutes
    pc,         \* where registryCheckSaver is
    todo,       \* keys that its range loops have still to visit
    cur,        \* what the walk is looking at, or None
    infos,      \* serviceInfos, the lines to be saved
    updating,   \* contents of services.record.updating
    record,     \* contents of services.record
    kept,       \* history: live addresses that must be in the registry
    cand,       \* history: kept when the current walk began
    durable     \* history: members of kept that a finished save covers

serverVars == <<unborn, up, reg, dels>>
registryVars == <<alive, crashes, providers, aged>>
saverVars == <<pc, todo, cur, infos>>
fileVars == <<updating, record>>
history == <<kept, cand, durable>>
vars == <<serverVars, registryVars, saverVars, fileVars, history>>

-----------------------------------------------------------------------------
(* Data.                                                                   *)

providerInfo == [addr : Addrs, proxied : BOOLEAN]

Info(a) == [addr |-> a, proxied |-> a \in Proxied]

\* The address is followed by the letter P when the provider is proxied.
Text(info) == IF info.proxied THEN <<info.addr, "P">> ELSE <<info.addr>>

makeServiceInfo(k, info) == [key |-> k, addr |-> Text(info)]

\* Mutant of ParseLine: the mark is cut off but not remembered.
ParseLineDropsMark(line) == [addr |-> Head(line.addr), proxied |-> FALSE]

\* What startRootRegistry makes of one line of the file.
ParseLine(line) ==
    IF Last(line.addr) = "P"
    THEN [addr |-> Head(Front(line.addr)), proxied |-> TRUE]
    ELSE [addr |-> Head(line.addr), proxied |-> FALSE]

\* The registry that startRootRegistry builds: a later line of the same key
\* overwrites an earlier one, and every time stamp is new.
LoadRecord(lines) ==
    [k \in Keys |->
        LET mine == {i \in 1 .. Len(lines) : lines[i].key = k}
        IN  IF mine = {} THEN None ELSE ParseLine(lines[Max(mine)])]

Present == {k \in Keys : providers[k] # None}

Gone == Addrs \ (unborn \cup up)

Line == [key : Keys, addr : {Text(i) : i \in providerInfo}]

\* Other incarnations of the same provider that can still change its slot: a
\* message of theirs is unhandled, or the walk is looking at their object.
Rivals(a) ==
    {b \in Addrs \ {a} :
        /\ KeyOf[b] = KeyOf[a]
        /\ b \in dels \/ reg[b] # "none" \/ (cur # None /\ cur.info.addr = b)}

Init ==
    /\ unborn = Addrs
    /\ up = {}
    /\ reg = [a \in Addrs |-> "none"]
    /\ dels = {}
    /\ alive = TRUE
    /\ crashes = 0
    /\ providers = [k \in Keys |-> None]
    /\ aged = {}
    /\ pc = "sleep" /\ todo = {} /\ cur = None /\ infos = <<>>
    /\ updating = <<>> /\ record = <<>>
    /\ kept = {} /\ cand = {} /\ durable = {}

-----------------------------------------------------------------------------
(* Servers.                                                                *)

\* newTCPTransport listens, then regServiceWAN sends the registration.  With
\* no registry to connect to, the transport is closed again at once.  A provider
\* has one live server per service at a time (the code does not insist), and a
\* ping of a live address succeeds.
regServiceWAN(a) ==
    /\ alive
    /\ a \in unborn
    /\ \A b \in up : KeyOf[b] # KeyOf[a]
    /\ unborn' = unborn \ {a}
    /\ up' = up \cup {a}
    /\ reg' = [reg EXCEPT ![a] = "sent"]
    /\ UNCHANGED <<dels, registryVars, saverVars, fileVars, history>>

\* streamTransport.close: the listener is closed, then delServiceWAN sends
\* the one-way delete; it reaches nobody when the registry does not run.
delServiceWAN(a) ==
    /\ a \in up
    /\ reg[a] = "none"
    /\ up' = up \ {a}
    /\ dels' = IF alive THEN dels \cup {a} ELSE dels
    /\ kept' = kept \ {a} /\ cand' = cand \ {a} /\ durable' = durable \ {a}
    /\ UNCHANGED <<unborn, reg, registryVars, saverVars, fileVars>>

\* The server process ends without a word.
ServerDies(a) ==
    /\ a \in up
    /\ up' = up \ {a}
    /\ kept' = kept \ {a} /\ cand' = cand \ {a} /\ durable' = durable \ {a}
    /\ UNCHANGED <<unborn, reg, dels, registryVars, saverVars, fileVars>>

-----------------------------------------------------------------------------
(* Message handlers of the registry.  Each runs in a worker of its own.    *)

\* regServiceInWAN.Handle, first part: the ping decides.  A refused server
\* that still runs closes its transport, which sends the delete.
RegPing(a) ==
    /\ reg[a] = "sent"
    /\ reg' = [reg EXCEPT ![a] = IF a \in up THEN "pinged" ELSE "none"]
    /\ UNCHANGED <<unborn, up, dels, registryVars, saverVars, fileVars, history>>

\* The registry host cannot reach the address (NAT): an error is replied.
RegUnreachable(a) ==
    /\ reg[a] = "sent"
    /\ reg' = [reg EXCEPT ![a] = "none"]
    /\ dels' = IF a \in up THEN dels \cup {a} ELSE dels
    /\ up' = up \ {a}
    /\ UNCHANGED <<unborn, registryVars, saverVars, fileVars, history>>

\* A key that appears in a map while it is ranged over may be visited or not.
MayVisit(k) == {todo} \cup (IF pc \in {"walk", "ping", "delete"} /\ k \notin Present
                            THEN {todo \cup {k}} ELSE {})

\* Second part: the provider is stored under pmap.Lock and OK is replied.
RegInsert(a) ==
    /\ reg[a] = "pinged"
    /\ reg' = [reg EXCEPT ![a] = "none"]
    /\ providers' = [providers EXCEPT ![KeyOf[a]] = Info(a)]
    /\ aged' = aged \ {a}
    /\ todo' \in MayVisit(KeyOf[a])
    /\ kept' = IF a \in up /\ Rivals(a) = {} THEN kept \cup {a} ELSE kept
    /\ UNCHANGED <<unborn, up, dels, alive, crashes, pc, cur, infos, fileVars,
                   cand, durable>>

\* delServiceInWAN.Handle removes whatever is stored for the provider ID.
delHandle(a) ==
    /\ a \in dels
    /\ dels' = dels \ {a}
    /\ providers' = [providers EXCEPT ![KeyOf[a]] = None]
    /\ todo' = todo \ {KeyOf[a]}
    /\ UNCHANGED <<unborn, up, reg, alive, crashes, aged, pc, cur, infos,
                   fileVars, history>>

-----------------------------------------------------------------------------
(* registryCheckSaver.                                                     *)

\* Five minutes have passed since the time stamp of a's object was written.
Age(a) ==
    /\ alive
    /\ providers[KeyOf[a]] = Info(a)
    /\ a \notin aged
    /\ aged' = aged \cup {a}
    /\ UNCHANGED <<serverVars, alive, crashes, providers, saverVars, fileVars, history>>

WalkStart ==
    /\ alive
    /\ pc = "sleep"
    /\ pc' = "walk"
    /\ todo' = Present
    /\ cand' = kept
    /\ UNCHANGED <<serverVars, registryVars, cur, infos, fileVars, kept, durable>>

\* The range loop yields the next provider and the read lock is released.
walkProviders(k) ==
    /\ pc = "walk"
    /\ k \in todo
    /\ pc' = "ping"
    /\ todo' = todo \ {k}
    /\ cur' = [key |-> k, info |-> providers[k], expired |-> providers[k].addr \in aged]
    /\ UNCHANGED <<serverVars, registryVars, infos, fileVars, history>>

Collected == Append(infos, makeServiceInfo(cur.key, cur.info))

\* Mutant of CheckPing: the time stamp is refreshed whatever the ping said.
CheckPingRefreshes ==
    /\ pc = "ping"
    /\ aged' = aged \ {cur.info.addr}
    /\ infos' = Collected
    /\ pc' = "walk" /\ cur' = None
    /\ UNCHANGED <<serverVars, alive, crashes, providers, todo, fileVars, history>>

\* The callback of the walk: ping, then refresh, keep or remove.
CheckPing ==
    /\ pc = "ping"
    /\ \/ /\ cur.info.addr \in up
          /\ aged' = aged \ {cur.info.addr}
          /\ infos' = Collected
          /\ pc' = "walk" /\ cur' = None
       \/ /\ cur.info.addr \notin up /\ ~cur.expired
          /\ infos' = Collected
          /\ pc' = "walk" /\ cur' = None
          /\ UNCHANGED aged
       \/ /\ cur.info.addr \notin up /\ cur.expired
          /\ pc' = "delete"
          /\ UNCHANGED <<aged, infos, cur>>
    /\ UNCHANGED <<serverVars, alive, crashes, providers, todo, fileVars, history>>

\* walkProviders takes the write lock and deletes by provider ID.
CheckDelete ==
    /\ pc = "delete"
    /\ pc' = "walk"
    /\ providers' = [providers EXCEPT ![cur.key] = None]
    /\ todo' = todo \ {cur.key}
    /\ cur' = None
    /\ UNCHANGED <<serverVars, alive, crashes, aged, infos, fileVars, history>>

\* os.Create truncates services.record.updating; when it fails the round ends.
SaveCreate ==
    /\ pc = "walk"
    /\ todo = {}
    /\ \/ pc' = "write" /\ updating' = <<>> /\ UNCHANGED <<infos, cand>>
       \/ pc' = "sleep" /\ infos' = <<>> /\ cand' = {} /\ UNCHANGED updating
    /\ UNCHANGED <<serverVars, registryVars, todo, cur, record, kept, durable>>

SaveWrite ==
    /\ pc = "write"
    /\ Len(updating) < Len(infos)
    /\ updating' = Append(updating, infos[Len(updating) + 1])
    /\ UNCHANGED <<serverVars, registryVars, saverVars, record, history>>

SaveRename ==
    /\ pc = "write"
    /\ Len(updating) = Len(infos)
    /\ pc' = "sleep"
    /\ record' = updating
    /\ updating' = <<>>
    /\ infos' = <<>>
    /\ durable' = cand
    /\ cand' = {}
    /\ UNCHANGED <<serverVars, registryVars, todo, cur, kept>>

registryCheckSaver ==
    \/ WalkStart
    \/ \E k \in Keys : walkProviders(k)
    \/ CheckPing
    \/ CheckDelete
    \/ SaveCreate
    \/ SaveWrite
    \/ SaveRename

-----------------------------------------------------------------------------
(* The registry process ends, at any point, and starts again.              *)

\* Memory and unhandled messages are gone; a server that still waited for its
\* reply gets an error and closes its transport.
Crash ==
    /\ alive
    /\ crashes < MaxCrashes
    /\ alive' = FALSE
    /\ crashes' = crashes + 1
    /\ up' = {a \in up : reg[a] = "none"}
    /\ reg' = [a \in Addrs |-> "none"]
    /\ dels' = {}
    /\ providers' = [k \in Keys |-> None]
    /\ aged' = {}
    /\ pc' = "sleep" /\ todo' = {} /\ cur' = None /\ infos' = <<>>
    /\ kept' = durable
    /\ cand' = {}
    /\ UNCHANGED <<unborn, fileVars, durable>>

startRootRegistry ==
    /\ ~alive
    /\ alive' = TRUE
    /\ providers' = LoadRecord(record)
    /\ UNCHANGED <<serverVars, crashes, aged, saverVars, fileVars, history>>

Handlers == \E a \in Addrs : RegPing(a) \/ RegInsert(a) \/ delHandle(a)

Next ==
    \/ \E a \in Addrs :
        \/ regServiceWAN(a) \/ delServiceWAN(a) \/ ServerDies(a)
        \/ RegUnreachable(a) \/ Age(a)
    \/ Handlers
    \/ registryCheckSaver
    \/ Crash
    \/ startRootRegistry

Spec == Init /\ [][Next]_vars

\* Handlers run, the checkSaver loop goes on, and time passes.  Servers need
\* not start or stop, and a registry that ended need not be started again.
FairSpec ==
    /\ Spec
    /\ \A a \in Addrs : WF_vars(RegPing(a) \/ RegInsert(a) \/ delHandle(a))
    /\ \A a \in Addrs : WF_vars(Age(a))
    /\ WF_vars(registryCheckSaver)

-----------------------------------------------------------------------------
(* Properties.                                                             *)

\* Types of all variables.
TypeOK ==
    /\ unborn \subseteq Addrs /\ up \subseteq Addrs \ unborn
    /\ reg \in [Addrs -> {"none", "sent", "pinged"}]
    /\ dels \subseteq Addrs \ (unborn \cup up)
    /\ alive \in BOOLEAN /\ crashes \in 0 .. MaxCrashes
    /\ providers \in [Keys -> providerInfo \cup {None}]
    /\ aged \subseteq Addrs
    /\ pc \in {"sleep", "walk", "ping", "delete", "write"}
    /\ todo \subseteq Keys
    /\ cur \in [key : Keys, info : providerInfo, expired : BOOLEAN] \cup {None}
    /\ infos \in Seq(Line) /\ updating \in Seq(Line) /\ record \in Seq(Line)
    /\ kept \subseteq up /\ cand \subseteq kept /\ durable \subseteq kept

\* A server that was answered OK and still listens is found in the registry,
\* with its own address and proxy mark, while the checkSaver pings, deletes
\* and saves next to it; and it is found again after the registry process ends
\* at any point (a half written file included) and restarts, provided one
\* walk that began after the registration was saved.  Excepted are servers
\* registered while an earlier incarnation still had a message, or an object
\* under the walk's ping, pending (Rivals): those the code may drop.
LiveKept == alive => \A a \in kept : providers[KeyOf[a]] = Info(a)

\* A server that ended, with or without a delete, whatever it had in flight,
\* and although a restarted registry reads it back from the file, is in the
\* end no longer registered.
DeadForgotten == <>[](\A a \in Gone : providers[KeyOf[a]] # Info(a))

=============================================================================
