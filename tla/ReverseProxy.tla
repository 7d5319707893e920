---------------------------- MODULE ReverseProxy ----------------------------
(***************************************************************************)
(* A service behind NAT and the reverse proxy that stands in for it        *)
(* (reverseproxy_svc.go, and streamtransportserver.go 61-160, 300-394).    *)
(*                                                                         *)
(* The service keeps a command connection to the proxy.  For each such     *)
(* session the proxy's handler opens a listener for the service's reverse  *)
(* connections (reversetran) and one for the clients (proxytran), which it *)
(* lists in the WAN under the service's provider ID; a watcher goroutine   *)
(* closes both when the command connection is lost.  A client that         *)
(* connects makes the proxy send the reverse port to the service, which    *)
(* dials it, and the two connections are to be joined.                     *)
(*                                                                         *)
(* A listing is the session whose proxytran it leads to, 0 for none.  Other *)
(* proxies are left out: connectReverseProxy succeeds with this one or     *)
(* fails.  A panic of a goroutine ends the proxy's process.                *)
(***************************************************************************)
EXTENDS Naturals

CONSTANTS
    Clients,        \* clients of the service, each connects once
    MaxSessions     \* command connections the service makes (bound)

Sessions == 1..MaxSessions
Goroutines == Sessions \cup Clients   \* watchers, and handlers of clients' connections

ASSUME ReverseProxyAssumption ==
    MaxSessions \in Nat \ {0} /\ Clients \cap Sessions = {} /\ "server" \notin Clients

VARIABLES
    marked,     \* the listing carries the proxied mark 'P'
    svc,        \* the service's streamTransport, a record of
                \*   at       "connect", "register", "recv", "dial" or "dead"
                \*   current  the session of st.reverseProxyConn, 0 for nil
                \*   used     number of sessions made
                \*   closed   st.close() was called
    ses,        \* session -> a record of
                \*   cmd      its command connection: "none", "open" or "lost"
                \*   handler  "off", "listen", "register", "assign", "ok" or "failed"
                \*   rev, prox  reversetran and proxytran: "off", "open" or "closed"
                \*   assigned whether the variable proxytran is not nil
                \*   ch       chanServerConn: "open", "closed" or "nil"
                \*   ports    ports sent that the service has not received
                \*   dialled  reverse connections that no client was given
    pc,         \* goroutine of the proxy -> its place
    crashed,    \* the proxy's process has panicked
    cli,        \* client -> "idle", "dial", "ack", "sent" (its marker) or "failed"
    via,        \* client -> the session whose listing it has looked up
    wan,        \* the root registry: the session listed
    dels,       \* deletions on their way to it: the sessions whose proxytran sent one,
                \* 0 for the service's own transport; each sends at most one
    displaced   \* history: session -> the others that replaced or deleted its listing

proxyVars == <<pc, crashed>>
clientVars == <<cli, via>>
registryVars == <<wan, dels, displaced>>
vars == <<marked, svc, ses, proxyVars, clientVars, registryVars>>

NewSession == [cmd |-> "none", handler |-> "off", rev |-> "off", prox |-> "off",
               assigned |-> FALSE, ch |-> "open", ports |-> 0, dialled |-> 0]

Init ==
    /\ marked \in BOOLEAN
    /\ svc = [at |-> "connect", current |-> 0, used |-> 0, closed |-> FALSE]
    /\ ses = [s \in Sessions |-> NewSession]
    /\ pc = [g \in Goroutines |-> "off"] /\ crashed = FALSE
    /\ cli = [c \in Clients |-> "idle"] /\ via = [c \in Clients |-> 0]
    /\ wan = 0 /\ dels = {} /\ displaced = [s \in Sessions |-> {}]

(* The command connection of session s, if any, is closed or broken.         *)
Lost(s) == [n \in Sessions |->
              IF n = s /\ ses[n].cmd = "open" THEN [ses[n] EXCEPT !.cmd = "lost"] ELSE ses[n]]

-----------------------------------------------------------------------------
(* The service.  connectReverseProxy finds the proxy and sends the request. *)
ConnectReverseProxy ==
    /\ svc.at = "connect" /\ ~crashed /\ svc.used < MaxSessions
    /\ svc' = [svc EXCEPT !.at = "register", !.used = @ + 1]
    /\ ses' = [ses EXCEPT ![svc'.used].cmd = "open", ![svc'.used].handler = "listen"]
    /\ UNCHANGED <<marked, proxyVars, clientVars, registryVars>>

(* It finds no proxy; newTCPTransport then closes the new transport, which
   deletes the listing, and reverseReceiver gives up.                       *)
NoProxy ==
    /\ svc.at = "connect"
    /\ svc' = [svc EXCEPT !.at = "dead", !.current = 0, !.closed = @ \/ svc.current = 0]
    /\ ses' = Lost(svc.current)
    /\ dels' = IF svc.current = 0 THEN dels \cup {0} ELSE dels
    /\ UNCHANGED <<marked, proxyVars, clientVars, wan, displaced>>

(* A mutation: the request is sent without waiting for its answer.          *)
RegisteredAtOnce ==
    /\ svc.at = "register" /\ ses[svc.used].cmd = "open"
    /\ svc' = [svc EXCEPT !.at = "recv", !.current = svc.used]
    /\ ses' = Lost(svc.current)
    /\ UNCHANGED <<marked, proxyVars, clientVars, registryVars>>

(* The request was answered with OK: reverseReceiver runs for the new session,
   and the one that reconnected returns and closes the old connection.      *)
Registered ==
    /\ svc.at = "register" /\ ses[svc.used].cmd = "open" /\ ses[svc.used].handler = "ok"
    /\ svc' = [svc EXCEPT !.at = "recv", !.current = svc.used]
    /\ ses' = Lost(svc.current)
    /\ UNCHANGED <<marked, proxyVars, clientVars, registryVars>>

(* It failed: the connection is closed and the search goes on.              *)
RegisterFails ==
    /\ svc.at = "register"
    /\ ses[svc.used].handler = "failed" \/ ses[svc.used].cmd = "lost"
    /\ svc' = [svc EXCEPT !.at = "connect"]
    /\ ses' = Lost(svc.used)
    /\ UNCHANGED <<marked, proxyVars, clientVars, registryVars>>

(* reverseReceiver: a port arrives and is dialled, or the command connection is
   broken; a failed dial ends the session as well.                          *)
RecvPort ==
    /\ svc.at = "recv" /\ ses[svc.current].ports > 0
    /\ svc' = [svc EXCEPT !.at = "dial"]
    /\ ses' = [ses EXCEPT ![svc.current].ports = @ - 1]
    /\ UNCHANGED <<marked, proxyVars, clientVars, registryVars>>

RecvBroken ==
    /\ svc.at = "recv" /\ ses[svc.current].cmd = "lost"
    /\ svc' = [svc EXCEPT !.at = "connect"]
    /\ UNCHANGED <<marked, ses, proxyVars, clientVars, registryVars>>

DialReverse ==
    /\ svc.at = "dial"
    /\ LET accepted == ses[svc.current].rev = "open"
       IN  /\ svc' = [svc EXCEPT !.at = IF accepted THEN "recv" ELSE "connect"]
           /\ ses' = [ses EXCEPT ![svc.current].dialled = IF accepted THEN @ + 1 ELSE @]
    /\ UNCHANGED <<marked, proxyVars, clientVars, registryVars>>

(* st.close() of the published service, by its Server.  reverseReceiver does not
   ask for it: it takes the closed connection for a lost proxy and reconnects. *)
CloseService ==
    /\ ~svc.closed /\ (svc.current # 0 \/ svc.at = "dead")
    /\ svc' = [svc EXCEPT !.closed = TRUE]
    /\ ses' = Lost(svc.current)
    /\ dels' = dels \cup {0}
    /\ UNCHANGED <<marked, proxyVars, clientVars, wan, displaced>>

service ==
    \/ ConnectReverseProxy \/ NoProxy \/ Registered \/ RegisterFails
    \/ RecvPort \/ RecvBroken \/ DialReverse

-----------------------------------------------------------------------------
(* The handler of proxyRegServiceInWAN: reversetran listens, the watcher is
   started, and newTCPTransport makes proxytran listen.                     *)
HandlerListens(s) ==
    /\ ~crashed /\ ses[s].handler = "listen"
    /\ ses' = [ses EXCEPT ![s].handler = "register", ![s].rev = "open", ![s].prox = "open"]
    /\ pc' = [pc EXCEPT ![s] = "recv"]
    /\ UNCHANGED <<marked, svc, crashed, clientVars, registryVars>>

(* The listing of the moment goes because of d, a session or the service.   *)
Displace(d) ==
    displaced' = [s \in Sessions |-> IF s = wan /\ s # d THEN displaced[s] \cup {d} ELSE displaced[s]]

(* regServiceWAN: the root registry has one listing per provider ID.        *)
HandlerRegisters(s) ==
    /\ ~crashed /\ ses[s].handler = "register"
    /\ ses' = [ses EXCEPT ![s].handler = "assign"]
    /\ wan' = s /\ Displace(s)
    /\ UNCHANGED <<marked, svc, proxyVars, clientVars, dels>>

(* It fails, and newTCPTransport closes what it has made.                   *)
HandlerFails(s) ==
    /\ ~crashed /\ ses[s].handler = "register"
    /\ ses' = [ses EXCEPT ![s].handler = "failed", ![s].prox = "closed"]
    /\ dels' = dels \cup {s}
    /\ UNCHANGED <<marked, svc, proxyVars, clientVars, wan, displaced>>

(* Only now is the variable proxytran assigned.                             *)
HandlerReturns(s) ==
    /\ ~crashed /\ ses[s].handler = "assign"
    /\ ses' = [ses EXCEPT ![s].handler = "ok", ![s].assigned = TRUE]
    /\ UNCHANGED <<marked, svc, proxyVars, clientVars, registryVars>>

Handle(s) == HandlerListens(s) \/ HandlerRegisters(s) \/ HandlerFails(s) \/ HandlerReturns(s)

-----------------------------------------------------------------------------
(* The session of goroutine g, and where g goes.                            *)
Of(g) == IF g \in Sessions THEN g ELSE via[g]
Goto(g, l) == pc' = [pc EXCEPT ![g] = l]

(* The goroutine ends; a client's handler closes the client's connection.   *)
End(g) == Goto(g, "done") /\ cli' = [c \in Clients |-> IF c = g THEN "failed" ELSE cli[c]]

(* A panic: the process ends, and with it every connection and listener.    *)
Shut(x) == IF x = "open" THEN "closed" ELSE x
Panic ==
    /\ crashed' = TRUE
    /\ ses' = [s \in Sessions |->
                 [Lost(s)[s] EXCEPT !.rev = Shut(@), !.prox = Shut(@)]]
    /\ pc' = [g \in Goroutines |-> "done"]
    /\ cli' = [c \in Clients |-> IF pc[c] = "off" THEN cli[c] ELSE "failed"]
    /\ UNCHANGED dels

(* The watcher: stream.Recv(nil) of the session fails.                      *)
WatcherWakes(s) ==
    /\ pc[s] = "recv" /\ ses[s].cmd = "lost"
    /\ Goto(s, "revTest")
    /\ UNCHANGED <<marked, svc, ses, crashed, clientVars, registryVars>>

AfterRevNoChan(g) == "proxTest"
AfterRev(g) == IF g \in Sessions THEN "chanClose" ELSE "proxTest"

(* reversetran.close(), called by the watcher and by handlers of clients: the
   test of st.closed, then the closing of that channel, which panics when
   another goroutine came first.                                            *)
CloseRevTest(g) ==
    /\ pc[g] = "revTest"
    /\ Goto(g, IF ses[Of(g)].rev = "closed" THEN AfterRev(g) ELSE "revDo")
    /\ UNCHANGED <<marked, svc, ses, crashed, clientVars, registryVars>>

CloseRev(g) ==
    /\ pc[g] = "revDo"
    /\ IF ses[Of(g)].rev = "closed" THEN Panic
       ELSE /\ ses' = [ses EXCEPT ![Of(g)].rev = "closed"]
            /\ Goto(g, AfterRev(g))
            /\ UNCHANGED <<crashed, cli, dels>>
    /\ UNCHANGED <<marked, svc, via, wan, displaced>>

(* The watcher closes chanServerConn, then sets the variable to nil.         *)
WatcherClosesChan(s) ==
    /\ pc[s] \in {"chanClose", "chanNil"}
    /\ ses' = [ses EXCEPT ![s].ch = IF pc[s] = "chanClose" THEN "closed" ELSE "nil"]
    /\ Goto(s, IF pc[s] = "chanClose" THEN "chanNil" ELSE "proxTest")
    /\ UNCHANGED <<marked, svc, crashed, clientVars, registryVars>>

(* proxytran.close(), in the same two steps: the watcher skips it while the
   variable is nil, a handler of a client does not and panics.              *)
CloseProxTest(g) ==
    /\ pc[g] = "proxTest"
    /\ IF ~ses[Of(g)].assigned /\ g \in Clients THEN Panic
       ELSE /\ IF ~ses[Of(g)].assigned THEN Goto(g, "missed") /\ UNCHANGED cli
               ELSE IF ses[Of(g)].prox = "closed" THEN End(g)
               ELSE Goto(g, "proxDo") /\ UNCHANGED cli
            /\ UNCHANGED <<ses, crashed, dels>>
    /\ UNCHANGED <<marked, svc, via, wan, displaced>>

CloseProx(g) ==
    /\ pc[g] = "proxDo"
    /\ IF ses[Of(g)].prox = "closed" THEN Panic
       ELSE /\ ses' = [ses EXCEPT ![Of(g)].prox = "closed"]
            /\ dels' = dels \cup {Of(g)}
            /\ End(g)
            /\ UNCHANGED crashed
    /\ UNCHANGED <<marked, svc, via, wan, displaced>>

-----------------------------------------------------------------------------
(* handshakeWithClient returns when the peer's marker has come.  reverseReceiver
   writes none: the service's end of a reverse connection, handed to handleConn,
   waits for a marker itself.                                               *)
handshakeWithClient(peer) == peer \in Clients /\ cli[peer] = "sent"

(* handleConn for client c: the handshake, then onClientConnection.         *)
HandleConn(c) ==
    /\ pc[c] = "shake" /\ handshakeWithClient(c)
    /\ Goto(c, "send")
    /\ UNCHANGED <<marked, svc, ses, crashed, clientVars, registryVars>>

(* The handshake fails: the client gives up, or what it sent is no marker.  *)
HandshakeFails(c) ==
    /\ pc[c] = "shake"
    /\ End(c)
    /\ UNCHANGED <<marked, svc, ses, crashed, via, registryVars>>

(* stream.Send(port): a write to a connection that is lost may still succeed. *)
SendPort(c) ==
    /\ pc[c] = "send"
    /\ ses' = [ses EXCEPT ![via[c]].ports = @ + 1]
    /\ Goto(c, "test")
    /\ UNCHANGED <<marked, svc, crashed, clientVars, registryVars>>

SendPortFails(c) ==
    /\ pc[c] = "send" /\ ses[via[c]].cmd = "lost"
    /\ Goto(c, "revTest")
    /\ UNCHANGED <<marked, svc, ses, crashed, clientVars, registryVars>>

(* if chanServerConn == nil, then the evaluation of the variable by the receive,
   which blocks for ever on nil.                                            *)
TestChan(c) ==
    /\ pc[c] = "test"
    /\ IF ses[via[c]].ch = "nil" THEN End(c) ELSE Goto(c, "eval") /\ UNCHANGED cli
    /\ UNCHANGED <<marked, svc, ses, crashed, via, registryVars>>

EvalChan(c) ==
    /\ pc[c] = "eval"
    /\ Goto(c, IF ses[via[c]].ch = "nil" THEN "hung" ELSE "wait")
    /\ UNCHANGED <<marked, svc, ses, crashed, clientVars, registryVars>>

(* What the receive may yield: nil once the channel is closed, else a reverse
   connection whose handler is past its handshake (onServerConnection).      *)
Offered(s) ==
    IF ses[s].ch # "open" THEN {"nil"}
    ELSE {x \in {"conn"} : ses[s].dialled > 0 /\ handshakeWithClient("server")}

(* The two connections are joined, and the client's Read gets its ack.      *)
RecvConn(c) ==
    /\ pc[c] = "wait"
    /\ \E x \in Offered(via[c]) :
         IF x = "nil" THEN End(c) /\ UNCHANGED ses
         ELSE /\ Goto(c, "copy")
              /\ cli' = [cli EXCEPT ![c] = "sent"]
              /\ ses' = [ses EXCEPT ![via[c]].dialled = @ - 1]
    /\ UNCHANGED <<marked, svc, crashed, via, registryVars>>

Proxy(g) ==
    \/ CloseRevTest(g) \/ CloseRev(g) \/ CloseProxTest(g) \/ CloseProx(g)
    \/ g \in Sessions /\ (WatcherWakes(g) \/ WatcherClosesChan(g))
    \/ g \in Clients /\ (\/ HandleConn(g) \/ SendPort(g) \/ SendPortFails(g) \/ TestChan(g)
                         \/ EvalChan(g) \/ RecvConn(g))

-----------------------------------------------------------------------------
(* A client looks the service up in the WAN and dials what it found, maybe
   later: newStreamConnection.  It writes its marker at once, or when the listing
   is marked after it has read the ack.                                     *)
Lookup(c) ==
    /\ cli[c] = "idle" /\ wan # 0
    /\ via' = [via EXCEPT ![c] = wan]
    /\ cli' = [cli EXCEPT ![c] = "dial"]
    /\ UNCHANGED <<marked, svc, ses, proxyVars, registryVars>>

Dial(c) ==
    /\ cli[c] = "dial"
    /\ IF ses[via[c]].prox # "open" THEN End(c)
       ELSE Goto(c, "shake") /\ cli' = [cli EXCEPT ![c] = IF marked THEN "ack" ELSE "sent"]
    /\ UNCHANGED <<marked, svc, ses, crashed, via, registryVars>>

(* The network breaks a command connection.                                 *)
LoseCmd(s) ==
    /\ ses[s].cmd = "open"
    /\ ses' = Lost(s)
    /\ UNCHANGED <<marked, svc, proxyVars, clientVars, registryVars>>

(* The root registry: a deletion by provider ID arrives, whatever is listed by
   then, or is lost; a listing whose port does not answer is removed.        *)
DeleteArrives ==
    /\ \E d \in dels :
         /\ dels' = dels \ {d}
         /\ \/ wan' = 0 /\ Displace(d)
            \/ UNCHANGED <<wan, displaced>>
    /\ UNCHANGED <<marked, svc, ses, proxyVars, clientVars>>

CheckListing ==
    /\ wan # 0 /\ ses[wan].prox = "closed"
    /\ wan' = 0
    /\ UNCHANGED <<marked, svc, ses, proxyVars, clientVars, dels, displaced>>

Next ==
    \/ service \/ CloseService \/ DeleteArrives \/ CheckListing
    \/ \E s \in Sessions : Handle(s) \/ LoseCmd(s)
    \/ \E g \in Goroutines : Proxy(g)
    \/ \E c \in Clients : Lookup(c) \/ Dial(c) \/ HandshakeFails(c)

Spec == Init /\ [][Next]_vars

(* Goroutines run on, and the root registry checks its listings; nobody has to
   connect, to close, or to lose a connection.                              *)
FairSpec ==
    /\ Spec
    /\ WF_vars(service) /\ WF_vars(CheckListing) /\ WF_vars(DeleteArrives)
    /\ \A s \in Sessions : WF_vars(Handle(s))
    /\ \A g \in Goroutines : WF_vars(Proxy(g))
    /\ \A c \in Clients : WF_vars(Dial(c))

-----------------------------------------------------------------------------
(* "Services that are behind NAT can be auto proxied by the builtin reverseProxy"
   (adaptiveservice.go 41-43): a client that has connected to a proxied listing
   is joined to the service in the end, unless it gives up or the session is
   lost.                                                                    *)
ClientsJoined ==
    \A c \in Clients :
        pc[c] = "shake" ~>
            \/ pc[c] = "copy" \/ cli[c] = "failed"
            \/ \E s \in Sessions : via[c] = s /\ ses[s].cmd = "lost"

(* Why it is not: the client, the proxy and the service wait for each other.  A
   client of a marked listing sends nothing before the ack, the proxy asks for
   nothing before the client's marker, and no reverse connection passes its
   handshake.                                                               *)
HandshakesStall ==
    \A c \in Clients : pc[c] # "copy" /\ (cli[c] = "ack" => pc[c] = "shake")

(* What a session that has lost its command connection may leave behind: the
   connections of clients whose handshake never ends or whose handler has
   evaluated chanServerConn after it was set to nil, and, when the watcher woke
   before the handler had assigned proxytran, that listener.                *)
Released(s) ==
    /\ ses[s].rev # "open"
    /\ pc[s] # "missed" => ses[s].prox # "open" /\ wan # s
    /\ \A c \in Clients : via[c] = s => pc[c] \in {"off", "shake", "hung", "done"}

(* Whatever interleaving of its watcher and its clients' handlers, a session that
   has lost its command connection is released.                             *)
SessionReleased == \A s \in Sessions : ses[s].cmd = "lost" ~> Released(s)

(* A service with a working session is listed, unless the session's own listing
   was replaced or deleted by another session, which has lost its command
   connection: its handler, slower, registered after this one, or its end deleted
   the listing, since delServiceWAN names the provider and not the session.  No
   reconnection by itself, no lost or late deletion of its own, no check of the
   root registry and no panic makes a working session vanish from the WAN.  *)
ListedWhileServed ==
    (svc.at \in {"recv", "dial"} /\ ~svc.closed /\ ses[svc.current].cmd = "open")
        => \/ wan = svc.current
           \/ \E s \in displaced[svc.current] : ses[s].cmd = "lost"
=============================================================================
