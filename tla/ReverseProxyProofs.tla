------------------------- MODULE ReverseProxyProofs -------------------------
(***************************************************************************)
(* Proofs about the reverse proxy, for any number of clients and sessions: *)
(* that no client of a proxied service is ever joined to it, and that a    *)
(* service with a working session is listed unless another session took    *)
(* or removed its listing.                                                 *)
(***************************************************************************)
EXTENDS ReverseProxy, TLAPS

Session == [cmd : {"none", "open", "lost"},
            handler : {"off", "listen", "register", "assign", "ok", "failed"},
            rev : {"off", "open", "closed"}, prox : {"off", "open", "closed"},
            assigned : BOOLEAN, ch : {"open", "closed", "nil"}, ports : Nat, dialled : Nat]

Closing == {"revTest", "revDo", "chanClose", "chanNil", "proxTest", "proxDo"}
Serving == {"shake", "send", "test", "eval", "wait", "hung"}
Places == {"off", "recv", "missed", "done"} \cup Closing \cup Serving

Service == [at : {"connect", "register", "recv", "dial", "dead"},
            current : 0..MaxSessions, used : 0..MaxSessions, closed : BOOLEAN]

(* Types, and where goroutines can be: none is at "copy". *)
TypeOK ==
    /\ svc \in Service
    /\ ses \in [Sessions -> Session]
    /\ pc \in [Goroutines -> Places]
    /\ cli \in [Clients -> {"idle", "dial", "ack", "sent", "failed"}]
    /\ via \in [Clients -> 0..MaxSessions]
    /\ wan \in 0..MaxSessions /\ dels \subseteq 0..MaxSessions
    /\ displaced \in [Sessions -> SUBSET (0..MaxSessions)]

(* A session is made by ConnectReverseProxy, and serves once its handler is through. *)
SessionInv ==
    \A s \in Sessions :
        /\ s > svc.used => ses[s].cmd = "none" /\ ses[s].handler = "off" /\ ses[s].prox = "off"
        /\ ses[s].prox # "off" \/ ses[s].handler \in {"listen", "register"} => ses[s].cmd # "none"
ServiceInv ==
    /\ svc.current # 0 => ses[svc.current].handler = "ok"
    /\ svc.current <= svc.used
    /\ svc.at = "register" => svc.used # 0
    /\ svc.at \in {"recv", "dial"} => svc.current # 0

(* The handler of session s has opened its listeners; nobody works for the session
   before that.                                                             *)
Listens(s) == ses[s].handler \notin {"off", "listen"}
ListenInv ==
    /\ \A s \in Sessions : ~Listens(s) => ses[s].prox = "off" /\ pc[s] \in {"off", "done"}
    /\ \A c \in Clients : via[c] # 0 => Listens(via[c])
    /\ wan # 0 => Listens(wan)

(* A client that has looked the service up goes to a session. *)
ClientInv ==
    \A c \in Clients :
        /\ cli[c] = "dial" => via[c] # 0
        /\ cli[c] = "idle" => pc[c] \in {"off", "done"}
        /\ pc[c] \notin {"off", "done"} => via[c] # 0

(* Goroutines close what a session has opened only after its command connection
   was lost, and a closed listener of a session whose handler succeeded is the
   sign of that.                                                            *)
ClosingInv ==
    /\ \A g \in Goroutines : pc[g] \in Closing => ses[Of(g)].cmd = "lost"
    /\ \A s \in Sessions :
         ses[s].prox = "closed" => ses[s].cmd = "lost" \/ ses[s].handler = "failed"

(* At most one command connection is open: the current session's, or the one that
   is about to take its place.                                              *)
OneInv ==
    /\ \A s \in Sessions : ses[s].cmd = "open" => s = svc.current \/ (s = svc.used /\ svc.at = "register")
    /\ \A s \in Sessions : ses[s].cmd = "none" => s > svc.used
    /\ svc.at = "register" => svc.current < svc.used

(* A deletion is sent by a transport that was closed.  A session that registered
   is listed, was closed, or was displaced by another one that had listened, or
   by the service that was closed.                                          *)
ListingInv ==
    /\ \A d \in dels : (d = 0 => svc.closed) /\ (d # 0 => ses[d].prox = "closed")
    /\ \A s \in Sessions : ses[s].handler \in {"assign", "ok"}
                            => wan = s \/ ses[s].prox = "closed" \/ displaced[s] # {}
    /\ \A s \in Sessions : \A d \in displaced[s] :
         d # s /\ (d = 0 => svc.closed) /\ (d # 0 => Listens(d))

(* The inductive invariant. *)
IInv ==
    /\ TypeOK /\ SessionInv /\ ServiceInv /\ ListenInv /\ ClientInv /\ ClosingInv /\ OneInv
    /\ ListingInv /\ HandshakesStall

-----------------------------------------------------------------------------
(* The initial states satisfy the inductive invariant. *)
LEMMA InitIInv == Init => IInv
<1> SUFFICES ASSUME Init PROVE IInv
  OBVIOUS
<1>1. TypeOK
  BY ReverseProxyAssumption DEF Init, TypeOK, Service, Session, NewSession, Places, Sessions
<1>2. SessionInv /\ ServiceInv /\ ListenInv /\ ClientInv
  BY ReverseProxyAssumption DEF Init, ListenInv, Listens, SessionInv, ServiceInv, ClientInv, NewSession,
       Goroutines, Sessions
<1>3. ClosingInv /\ OneInv /\ ListingInv /\ HandshakesStall
  BY ReverseProxyAssumption DEF Init, ClosingInv, OneInv, ListingInv, HandshakesStall, NewSession, Closing,
       Goroutines, Sessions
<1> QED
  BY <1>1, <1>2, <1>3 DEF IInv

(* One session is replaced. *)
LEMMA SesPut ==
    ASSUME ses \in [Sessions -> Session], NEW s \in Sessions, NEW r \in Session,
           ses' = [ses EXCEPT ![s] = r]
    PROVE  /\ ses' \in [Sessions -> Session]
           /\ \A n \in Sessions : ses'[n] = IF n = s THEN r ELSE ses[n]
  OBVIOUS

(* A goroutine that closes things works for a session. *)
LEMMA OfSession ==
    ASSUME TypeOK, ClientInv, NEW g \in Goroutines, pc[g] \notin {"off", "done"}
    PROVE  Of(g) \in Sessions
<1>1. CASE g \in Sessions
  BY <1>1 DEF Of
<1>2. CASE g \in Clients /\ g \notin Sessions
  <2>1. via[g] \in 0..MaxSessions /\ via[g] # 0
    BY <1>2 DEF TypeOK, ClientInv
  <2> QED
    BY <1>2, <2>1, ReverseProxyAssumption DEF Of, Sessions
<1> QED
  BY <1>1, <1>2 DEF Goroutines

(* What a step may do to sessions and goroutines without disturbing ClosingInv. *)
LEMMA ClosingKept ==
    ASSUME TypeOK, ClientInv, ClosingInv, UNCHANGED via,
           \A n \in Sessions :
             /\ ses[n].cmd = "lost" => ses'[n].cmd = "lost"
             /\ ses[n].handler = "failed" => ses'[n].handler = "failed"
             /\ ses'[n].prox = "closed" =>
                  ses[n].prox = "closed" \/ ses'[n].cmd = "lost" \/ ses'[n].handler = "failed",
           \A g \in Goroutines : pc'[g] \in Closing =>
             pc[g] \in Closing \/ (Of(g) \in Sessions /\ ses'[Of(g)].cmd = "lost")
    PROVE  ClosingInv'
<1>1. ASSUME NEW n \in Sessions, ses'[n].prox = "closed"
      PROVE  ses'[n].cmd = "lost" \/ ses'[n].handler = "failed"
  BY <1>1 DEF ClosingInv
<1>2. ASSUME NEW g \in Goroutines, pc'[g] \in Closing PROVE ses'[Of(g)'].cmd = "lost"
  <2>1. Of(g)' = Of(g)
    BY DEF Of
  <2>2. CASE pc[g] \in Closing
    <3>1. Of(g) \in Sessions
      BY <2>2, OfSession DEF Closing
    <3> QED
      BY <2>1, <2>2, <3>1 DEF ClosingInv
  <2> QED
    BY <1>2, <2>1, <2>2
<1> QED
  BY <1>1, <1>2 DEF ClosingInv

(* A step that leaves the listing alone: listeners once closed stay closed, nobody
   registers, and deletions are sent by what is closed.                     *)
LEMMA ListingKept ==
    ASSUME TypeOK, ListingInv, UNCHANGED <<wan, displaced>>, svc.closed => svc'.closed,
           \A d \in dels' : d \in dels \/ ((d = 0 => svc'.closed) /\ (d # 0 => ses'[d].prox = "closed")),
           \A n \in Sessions :
             /\ ses[n].prox = "closed" => ses'[n].prox = "closed"
             /\ ses'[n].handler \in {"assign", "ok"} => ses[n].handler \in {"assign", "ok"}
             /\ Listens(n) => ses'[n].handler \notin {"off", "listen"}
    PROVE  ListingInv'
<1>1. \A d \in dels' : (d = 0 => svc'.closed) /\ (d # 0 => ses'[d].prox = "closed")
  <2> SUFFICES ASSUME NEW d \in dels', d \in dels
               PROVE  (d = 0 => svc'.closed) /\ (d # 0 => ses'[d].prox = "closed")
    OBVIOUS
  <2>1. d \in 0..MaxSessions
    BY DEF TypeOK
  <2>2. d # 0 => d \in Sessions
    BY <2>1, ReverseProxyAssumption DEF Sessions
  <2> QED
    BY <2>2 DEF ListingInv
<1>2. \A s \in Sessions : ses'[s].handler \in {"assign", "ok"}
                         => wan = s \/ ses'[s].prox = "closed" \/ displaced[s] # {}
  BY DEF ListingInv
<1>3. ASSUME NEW s \in Sessions, NEW d \in displaced[s]
      PROVE  d # s /\ (d = 0 => svc'.closed) /\ (d # 0 => ses'[d].handler \notin {"off", "listen"})
  <2>1. d \in 0..MaxSessions
    BY DEF TypeOK
  <2>2. d # 0 => d \in Sessions
    BY <2>1, ReverseProxyAssumption DEF Sessions
  <2> QED
    BY <2>2 DEF ListingInv
<1> QED
  BY <1>1, <1>2, <1>3 DEF ListingInv, Listens

(* The service stays where it is and no command connection is opened. *)
LEMMA OneKept ==
    ASSUME OneInv, UNCHANGED svc,
           \A n \in Sessions : /\ ses'[n].cmd = "open" => ses[n].cmd = "open"
                               /\ ses'[n].cmd = "none" => ses[n].cmd = "none"
    PROVE  OneInv'
  BY DEF OneInv

(* The loss of a command connection, alone. *)
LEMMA LostFacts ==
    ASSUME TypeOK, SessionInv, ListenInv, ClientInv, ClosingInv, NEW x, ses' = Lost(x)
    PROVE  /\ ses' \in [Sessions -> Session]
           /\ \A n \in Sessions :
                /\ ses'[n].cmd = IF n = x /\ ses[n].cmd = "open" THEN "lost" ELSE ses[n].cmd
                /\ ses'[n].handler = ses[n].handler /\ ses'[n].prox = ses[n].prox
           /\ svc'.used = svc.used => SessionInv'
           /\ UNCHANGED <<pc, via>> => ClosingInv'
           /\ UNCHANGED <<pc, via, wan>> => ListenInv'
<1>1. /\ ses' \in [Sessions -> Session]
      /\ \A n \in Sessions :
           /\ ses'[n].cmd = IF n = x /\ ses[n].cmd = "open" THEN "lost" ELSE ses[n].cmd
           /\ ses'[n].handler = ses[n].handler /\ ses'[n].prox = ses[n].prox
  BY DEF Lost, TypeOK, Session
<1>2. ASSUME svc'.used = svc.used PROVE SessionInv'
  BY <1>1, <1>2 DEF SessionInv
<1>3. ASSUME UNCHANGED <<pc, via>> PROVE ClosingInv'
  BY <1>1, <1>3, ClosingKept
<1>4. ASSUME UNCHANGED <<pc, via, wan>> PROVE ListenInv'
  <2>1. \A c \in Clients : via[c] # 0 => via[c] \in Sessions
    BY DEF TypeOK, Sessions
  <2>2. wan # 0 => wan \in Sessions
    BY DEF TypeOK, Sessions
  <2> QED
    BY <1>1, <1>4, <2>1, <2>2 DEF ListenInv, Listens
<1> QED
  BY <1>1, <1>2, <1>3, <1>4

(* A panic breaks all command connections and closes all listeners. *)
LEMMA PanicFacts ==
    ASSUME TypeOK, Panic
    PROVE  /\ ses' \in [Sessions -> Session]
           /\ \A n \in Sessions :
                /\ ses'[n].cmd = IF ses[n].cmd = "open" THEN "lost" ELSE ses[n].cmd
                /\ ses'[n].handler = ses[n].handler
                /\ ses'[n].prox = Shut(ses[n].prox)
<1>1. ASSUME NEW n \in Sessions
      PROVE  /\ ses'[n] \in Session
             /\ ses'[n].cmd = IF ses[n].cmd = "open" THEN "lost" ELSE ses[n].cmd
             /\ ses'[n].handler = ses[n].handler
             /\ ses'[n].prox = Shut(ses[n].prox)
  <2>1. PICK q \in Session :
          /\ q = Lost(n)[n]
          /\ q.cmd = IF ses[n].cmd = "open" THEN "lost" ELSE ses[n].cmd
          /\ q.handler = ses[n].handler /\ q.prox = ses[n].prox
    <3> PICK p \in Session : p = ses[n]
      BY DEF TypeOK
    <3>1. CASE p.cmd = "open"
      <4>1. Lost(n)[n] = [p EXCEPT !.cmd = "lost"]
        BY <3>1 DEF Lost
      <4>2. [p EXCEPT !.cmd = "lost"] \in Session
        BY DEF Session
      <4> QED
        BY <3>1, <4>1, <4>2 DEF Session
    <3>2. CASE p.cmd # "open"
      BY <3>2 DEF Lost
    <3> QED
      BY <3>1, <3>2
  <2>2. Shut(q.rev) \in {"off", "open", "closed"} /\ Shut(q.prox) \in {"off", "open", "closed"}
    BY DEF Session, Shut
  <2> DEFINE r == [q EXCEPT !.rev = Shut(q.rev), !.prox = Shut(q.prox)]
  <2>3. ses'[n] = r
    BY <2>1 DEF Panic
  <2>4. r \in Session
    BY <2>2 DEF Session
  <2>5. r.cmd = q.cmd /\ r.handler = q.handler /\ r.prox = Shut(q.prox)
    BY DEF Session
  <2> QED
    BY <2>1, <2>3, <2>4, <2>5
<1>2. ses' = [n \in Sessions |-> ses'[n]]
  BY DEF Panic
<1> QED
  BY <1>1, <1>2

(* A panic preserves the invariant, wherever the goroutines are. *)
LEMMA PanicIInv == IInv /\ Panic /\ UNCHANGED <<svc, via, wan, displaced>> => IInv'
<1> SUFFICES ASSUME IInv, Panic, UNCHANGED <<svc, via, wan, displaced>> PROVE IInv'
  OBVIOUS
<1>0. TypeOK /\ SessionInv /\ ServiceInv /\ ListenInv /\ ClientInv /\ ClosingInv /\ OneInv
      /\ ListingInv /\ HandshakesStall
  BY DEF IInv
<1>1. /\ ses' \in [Sessions -> Session]
      /\ \A n \in Sessions :
           /\ ses'[n].cmd = IF ses[n].cmd = "open" THEN "lost" ELSE ses[n].cmd
           /\ ses'[n].handler = ses[n].handler
           /\ ses'[n].prox = Shut(ses[n].prox)
  BY <1>0, PanicFacts
<1>2. /\ pc' = [g \in Goroutines |-> "done"] /\ dels' = dels
      /\ cli' = [c \in Clients |-> IF pc[c] = "off" THEN cli[c] ELSE "failed"]
  BY DEF Panic
<1>3. TypeOK'
  BY <1>0, <1>1, <1>2 DEF TypeOK, Places
<1>4. SessionInv'
  BY <1>0, <1>1 DEF SessionInv, Shut
<1>5. ServiceInv'
  BY <1>0, <1>1 DEF ServiceInv, TypeOK, Service, Sessions
<1>6. ListenInv'
  <2>1. \A c \in Clients : via[c] # 0 => via[c] \in Sessions
    BY <1>0 DEF TypeOK, Sessions
  <2>2. wan # 0 => wan \in Sessions
    BY <1>0 DEF TypeOK, Sessions
  <2> QED
    BY <1>0, <1>1, <1>2, <2>1, <2>2 DEF ListenInv, Listens, Shut, Goroutines
<1>7. ClientInv'
  BY <1>0, <1>2 DEF ClientInv, Goroutines
<1>8. ClosingInv'
  <2>1. \A n \in Sessions :
          ses'[n].prox = "closed" => ses'[n].cmd = "lost" \/ ses'[n].handler = "failed"
    BY <1>0, <1>1 DEF SessionInv, ClosingInv, Shut, TypeOK, Session
  <2> QED
    BY <1>2, <2>1 DEF ClosingInv, Closing
<1>9. ListingInv' /\ OneInv'
  <2>1. ListingInv'
    BY <1>0, <1>1, <1>2, ListingKept DEF Shut, Listens
  <2>2. OneInv'
    BY <1>0, <1>1, OneKept
  <2> QED
    BY <2>1, <2>2
<1>10. HandshakesStall'
  BY <1>0, <1>2 DEF HandshakesStall, Goroutines, TypeOK
<1> QED
  BY <1>3, <1>4, <1>5, <1>6, <1>7, <1>8, <1>9, <1>10 DEF IInv

(* A step of a goroutine that stays in the procedure of closing. *)
LEMMA ClosesOn ==
    ASSUME IInv, NEW g \in Goroutines, NEW l \in Closing \cup {"missed"}, pc[g] \in Closing,
           pc' = [pc EXCEPT ![g] = l], UNCHANGED <<svc, cli, via, wan, dels, displaced>>,
           ses' \in [Sessions -> Session],
           \A n \in Sessions : /\ ses'[n].cmd = ses[n].cmd /\ ses'[n].handler = ses[n].handler
                               /\ ses'[n].prox = ses[n].prox
    PROVE  IInv'
<1>0. TypeOK /\ SessionInv /\ ServiceInv /\ ListenInv /\ ClientInv /\ ClosingInv /\ OneInv
      /\ ListingInv /\ HandshakesStall
  BY DEF IInv
<1>1. /\ \A x \in Goroutines : pc'[x] = IF x = g THEN l ELSE pc[x]
      /\ l \in Places /\ l \notin {"shake", "copy", "off", "done"}
      /\ pc[g] \notin {"shake", "off", "done"}
  BY <1>0 DEF TypeOK, Places, Closing
<1>2. TypeOK'
  BY <1>0, <1>1 DEF TypeOK
<1>3. SessionInv' /\ ServiceInv'
  BY <1>0, SMTT(30) DEF SessionInv, ServiceInv, TypeOK, Service, Sessions
<1>4. ListenInv'
  <2>1. \A c \in Clients : via[c] # 0 => via[c] \in Sessions
    BY <1>0 DEF TypeOK, Sessions
  <2>2. wan # 0 => wan \in Sessions
    BY <1>0 DEF TypeOK, Sessions
  <2> QED
    BY <1>0, <1>1, <2>1, <2>2 DEF ListenInv, Listens, Goroutines
<1>5. ClientInv'
  BY <1>0, <1>1 DEF ClientInv, Goroutines
<1>6. ClosingInv'
  <2>1. Of(g) \in Sessions /\ ses[Of(g)].cmd = "lost"
    BY <1>0, <1>1, OfSession DEF ClosingInv
  <2> QED
    BY <1>0, <1>1, <2>1, ClosingKept
<1>7. ListingInv' /\ OneInv'
  <2>1. ListingInv'
    BY <1>0, ListingKept DEF Listens
  <2>2. OneInv'
    BY <1>0, OneKept
  <2> QED
    BY <2>1, <2>2
<1>8. HandshakesStall'
  BY <1>0, <1>1 DEF HandshakesStall, Goroutines
<1> QED
  BY <1>2, <1>3, <1>4, <1>5, <1>6, <1>7, <1>8 DEF IInv

(* Its last step, with which it may close proxytran. *)
LEMMA Ends ==
    ASSUME IInv, NEW g \in Goroutines, pc[g] \in Closing, End(g), UNCHANGED <<svc, via, wan, displaced>>,
           dels' = dels \/ (dels' = dels \cup {Of(g)} /\ ses'[Of(g)].prox = "closed"),
           Of(g) \in Sessions, ses[Of(g)].cmd = "lost",
           ses' \in [Sessions -> Session],
           \A n \in Sessions :
             /\ ses'[n].cmd = ses[n].cmd /\ ses'[n].handler = ses[n].handler
             /\ ses'[n].prox = ses[n].prox \/ (n = Of(g) /\ ses'[n].prox = "closed")
    PROVE  IInv'
<1>0. TypeOK /\ SessionInv /\ ServiceInv /\ ListenInv /\ ClientInv /\ ClosingInv /\ OneInv
      /\ ListingInv /\ HandshakesStall
  BY DEF IInv
<1>1. /\ \A x \in Goroutines : pc'[x] = IF x = g THEN "done" ELSE pc[x]
      /\ pc' \in [Goroutines -> Places]
      /\ \A c \in Clients : cli'[c] = IF c = g THEN "failed" ELSE cli[c]
      /\ cli' \in [Clients -> {"idle", "dial", "ack", "sent", "failed"}]
  BY <1>0 DEF TypeOK, Places, End, Goto
<1>2. TypeOK'
  <2>0. Of(g) \in 0..MaxSessions
    BY ReverseProxyAssumption DEF Sessions
  <2>1. dels' \subseteq 0..MaxSessions
    BY <1>0, <2>0 DEF TypeOK
  <2> QED
    BY <1>0, <1>1, <2>1 DEF TypeOK
<1>3. Listens(Of(g))
  BY <1>0, ReverseProxyAssumption DEF Of, ListenInv, ClientInv, Closing, Goroutines, Sessions
<1>4. SessionInv' /\ ServiceInv'
  <2>1. SessionInv'
    BY <1>0, <1>3 DEF SessionInv, Listens
  <2> QED
    BY <1>0, <2>1 DEF ServiceInv, TypeOK, Service, Sessions
<1>5. ListenInv'
  <2>1. \A c \in Clients : via[c] # 0 => via[c] \in Sessions
    BY <1>0 DEF TypeOK, Sessions
  <2>2. wan # 0 => wan \in Sessions
    BY <1>0 DEF TypeOK, Sessions
  <2> QED
    BY <1>0, <1>1, <1>3, <2>1, <2>2 DEF ListenInv, Listens, Goroutines
<1>6. ClientInv'
  BY <1>0, <1>1 DEF ClientInv, Goroutines
<1>7. ClosingInv'
  <2>1. \A x \in Goroutines : pc'[x] \in Closing => pc[x] \in Closing
    BY <1>1 DEF Closing
  <2> QED
    BY <1>0, <2>1, ClosingKept
<1>8. ListingInv' /\ OneInv'
  <2>1. ListingInv'
    <3>1. \A d \in dels' : d \in dels \/ ((d = 0 => svc'.closed) /\ (d # 0 => ses'[d].prox = "closed"))
      BY ReverseProxyAssumption DEF Sessions
    <3> QED
      BY <1>0, <3>1, ListingKept DEF Listens
  <2>2. OneInv'
    BY <1>0, OneKept
  <2> QED
    BY <2>1, <2>2
<1>9. HandshakesStall'
  BY <1>0, <1>1 DEF HandshakesStall, Goroutines
<1> QED
  BY <1>2, <1>4, <1>5, <1>6, <1>7, <1>8, <1>9 DEF IInv

(* Every step preserves it. *)
LEMMA NextIInv == IInv /\ [Next]_vars => IInv'
<1> SUFFICES ASSUME IInv, [Next]_vars PROVE IInv'
  OBVIOUS
<1> USE ReverseProxyAssumption
<1>0. TypeOK /\ SessionInv /\ ServiceInv /\ ListenInv /\ ClientInv /\ ClosingInv /\ OneInv
      /\ ListingInv /\ HandshakesStall
  BY DEF IInv
<1>1. ASSUME ConnectReverseProxy PROVE IInv'
  <2>0. svc.used + 1 \in Sessions /\ svc'.used = svc.used + 1 /\ svc'.at = "register"
        /\ svc'.current = svc.current /\ svc'.closed = svc.closed
    BY <1>0, <1>1 DEF ConnectReverseProxy, TypeOK, Service, Sessions
  <2>1. /\ ses' \in [Sessions -> Session]
        /\ \A n \in Sessions :
             /\ ses'[n].cmd = IF n = svc.used + 1 THEN "open" ELSE ses[n].cmd
             /\ ses'[n].handler = IF n = svc.used + 1 THEN "listen" ELSE ses[n].handler
             /\ ses'[n].prox = ses[n].prox
    <3> PICK q \in Session : q = ses[svc.used + 1]
      BY <1>0, <1>1, <2>0 DEF TypeOK
    <3> DEFINE r == [q EXCEPT !.cmd = "open", !.handler = "listen"]
    <3>1. ses' = [ses EXCEPT ![svc.used + 1] = r]
      <4>1. ses' = [ses EXCEPT ![svc.used + 1].cmd = "open", ![svc.used + 1].handler = "listen"]
        BY <1>1, <2>0, Zenon DEF ConnectReverseProxy
      <4> QED
        BY <1>0, <2>0, <4>1 DEF TypeOK
    <3>2. r \in Session
      BY ZenonT(30) DEF Session
    <3>3. r.cmd = "open" /\ r.handler = "listen" /\ r.prox = q.prox
      BY DEF Session
    <3> HIDE DEF r
    <3> QED
      BY <1>0, <1>1, <2>0, <3>1, <3>2, <3>3, SesPut DEF TypeOK
  <2>2. TypeOK'
    <3>1. svc' \in Service
      <4> PICK r \in Service : r = svc
        BY <1>0 DEF TypeOK
      <4>1. r.used + 1 \in 0..MaxSessions
        BY <2>0 DEF Sessions
      <4> QED
        BY <1>1, <4>1 DEF ConnectReverseProxy, Service
    <3> QED
      BY <1>0, <1>1, <2>1, <3>1 DEF ConnectReverseProxy, TypeOK, proxyVars, clientVars, registryVars
  <2>3. SessionInv'
    <3>1. svc.used \in Nat
      BY <1>0 DEF TypeOK, Service
    <3> QED
      BY <1>0, <2>0, <2>1, <3>1 DEF SessionInv, Sessions
  <2>4. ServiceInv'
    BY <1>0, <1>1, <2>0, <2>1 DEF ConnectReverseProxy, ServiceInv, TypeOK, Service, SessionInv, Sessions,
         proxyVars, clientVars, registryVars
  <2>5. ListenInv'
    BY <1>0, <1>1, <2>0, <2>1 DEF ConnectReverseProxy, ListenInv, Listens, TypeOK, Service, SessionInv,
         Goroutines, Sessions, proxyVars, clientVars, registryVars
  <2>6. ClientInv'
    BY <1>0, <1>1, <2>0, <2>1 DEF ConnectReverseProxy, ClientInv, TypeOK, Goroutines, proxyVars,
         clientVars, registryVars
  <2>7. ClosingInv'
    <3>1. svc.used \in Nat /\ ses[svc.used + 1].cmd = "none" /\ ses[svc.used + 1].handler = "off"
      BY <1>0, <2>0 DEF TypeOK, Service, SessionInv
    <3> QED
      BY <1>0, <1>1, <2>1, <3>1, ClosingKept DEF ConnectReverseProxy, proxyVars, clientVars, registryVars
  <2>8. ListingInv'
    <3>1. ses[svc.used + 1].handler = "off"
      BY <1>0, <2>0 DEF SessionInv, TypeOK, Service
    <3> QED
      BY <1>0, <1>1, <2>0, <2>1, <3>1, ListingKept DEF ConnectReverseProxy, Listens, registryVars
  <2>10. OneInv'
    <3>1. svc.used \in Nat /\ svc.current \in Nat /\ svc.current <= svc.used
      BY <1>0 DEF ServiceInv, TypeOK, Service
    <3>2. svc.at = "connect"
      BY <1>1 DEF ConnectReverseProxy
    <3>3. \A s \in Sessions : s \in Nat
      BY DEF Sessions
    <3> QED
      BY <1>0, <2>0, <2>1, <3>1, <3>2, <3>3 DEF OneInv
  <2>9. HandshakesStall'
    BY <1>0, <1>1, <2>0, <2>1 DEF ConnectReverseProxy, HandshakesStall, ClientInv, TypeOK, Goroutines,
         proxyVars, clientVars, registryVars
  <2> QED
    BY <2>2, <2>3, <2>4, <2>5, <2>6, <2>7, <2>8, <2>9, <2>10 DEF IInv
<1>2. ASSUME NoProxy PROVE IInv'
  <2>1. /\ ses' \in [Sessions -> Session]
        /\ \A n \in Sessions :
             /\ ses'[n].cmd = IF n = svc.current /\ ses[n].cmd = "open" THEN "lost" ELSE ses[n].cmd
             /\ ses'[n].handler = ses[n].handler /\ ses'[n].prox = ses[n].prox
        /\ SessionInv' /\ ClosingInv' /\ ListenInv' /\ svc'.used = svc.used
    BY <1>0, <1>2, LostFacts DEF NoProxy, TypeOK, proxyVars, clientVars, registryVars
  <2>2. TypeOK'
    <3> PICK r \in Service : r = svc
      BY <1>0 DEF TypeOK
    <3>1. PICK b \in BOOLEAN : b = (r.closed \/ r.current = 0)
      BY Zenon
    <3>2. svc' = [r EXCEPT !.at = "dead", !.current = 0, !.closed = b] /\ 0 \in 0..MaxSessions
      <4>1. svc' = [r EXCEPT !.at = "dead", !.current = 0, !.closed = b]
        BY <1>2, <3>1, Zenon DEF NoProxy
      <4> QED
        BY <4>1
    <3>3. svc' \in Service
      BY <3>2 DEF Service
    <3> QED
      BY <1>0, <1>2, <2>1, <3>3 DEF NoProxy, TypeOK, proxyVars, clientVars, registryVars
  <2>3. SessionInv'
    BY <2>1
  <2>4. ServiceInv'
    BY <1>0, <1>2, <2>1 DEF NoProxy, ServiceInv, TypeOK, Service, SessionInv, Sessions, proxyVars, clientVars,
         registryVars
  <2>5. ListenInv'
    BY <2>1
  <2>6. ClientInv'
    BY <1>0, <1>2, <2>1 DEF NoProxy, ClientInv, TypeOK, Goroutines, proxyVars, clientVars, registryVars
  <2>7. ClosingInv'
    BY <2>1
  <2>8. ListingInv'
    <3>1. /\ svc.closed => svc'.closed
          /\ dels' = dels \/ (dels' = dels \cup {0} /\ svc'.closed)
      BY <1>0, <1>2 DEF NoProxy, TypeOK, Service
    <3>2. \A d \in dels' : d \in dels \/ ((d = 0 => svc'.closed) /\ (d # 0 => ses'[d].prox = "closed"))
      BY <3>1
    <3> QED
      BY <1>0, <1>2, <2>1, <3>1, <3>2, ListingKept DEF NoProxy, Listens
  <2>10. OneInv'
    <3>1. svc.used \in Nat /\ svc.current \in Nat /\ svc.current <= svc.used
      BY <1>0 DEF ServiceInv, TypeOK, Service
    <3>2. \A s \in Sessions : s \in Nat
      BY DEF Sessions
    <3> QED
      BY <1>0, <1>2, <2>1, <3>1, <3>2 DEF NoProxy, OneInv, TypeOK, Service
  <2>9. HandshakesStall'
    BY <1>0, <1>2, <2>1 DEF NoProxy, HandshakesStall, ClientInv, TypeOK, Goroutines, proxyVars,
         clientVars, registryVars
  <2> QED
    BY <2>2, <2>3, <2>4, <2>5, <2>6, <2>7, <2>8, <2>9, <2>10 DEF IInv
<1>3. ASSUME Registered PROVE IInv'
  <2>1. /\ ses' \in [Sessions -> Session]
        /\ \A n \in Sessions :
             /\ ses'[n].cmd = IF n = svc.current /\ ses[n].cmd = "open" THEN "lost" ELSE ses[n].cmd
             /\ ses'[n].handler = ses[n].handler /\ ses'[n].prox = ses[n].prox
        /\ SessionInv' /\ ClosingInv' /\ ListenInv' /\ svc'.used = svc.used
    BY <1>0, <1>3, LostFacts DEF Registered, TypeOK, proxyVars, clientVars, registryVars
  <2>2. TypeOK'
    BY <1>0, <1>3, <2>1 DEF Registered, TypeOK, Service, Sessions, Goroutines, Places, Serving, Closing,
         proxyVars, clientVars, registryVars
  <2>3. SessionInv'
    BY <2>1
  <2>4. ServiceInv'
    BY <1>0, <1>3, <2>1 DEF Registered, ServiceInv, TypeOK, Service, SessionInv, Sessions, proxyVars, clientVars,
         registryVars
  <2>5. ListenInv'
    BY <2>1
  <2>6. ClientInv'
    BY <1>0, <1>3, <2>1 DEF Registered, ClientInv, TypeOK, Goroutines, proxyVars, clientVars, registryVars
  <2>7. ClosingInv'
    BY <2>1
  <2>8. ListingInv'
    BY <1>0, <1>3, <2>1, ListingKept DEF Registered, Listens, proxyVars, clientVars, registryVars
  <2>10. OneInv'
    <3>1. svc.used \in Nat /\ svc.current \in Nat /\ svc.current <= svc.used
      BY <1>0 DEF ServiceInv, TypeOK, Service
    <3>2. \A s \in Sessions : s \in Nat
      BY DEF Sessions
    <3> QED
      BY <1>0, <1>3, <2>1, <3>1, <3>2 DEF Registered, OneInv, TypeOK, Service
  <2>9. HandshakesStall'
    BY <1>0, <1>3, <2>1 DEF Registered, HandshakesStall, ClientInv, TypeOK, Goroutines, proxyVars,
         clientVars, registryVars
  <2> QED
    BY <2>2, <2>3, <2>4, <2>5, <2>6, <2>7, <2>8, <2>9, <2>10 DEF IInv
<1>4. ASSUME RegisterFails PROVE IInv'
  <2>1. /\ ses' \in [Sessions -> Session]
        /\ \A n \in Sessions :
             /\ ses'[n].cmd = IF n = svc.used /\ ses[n].cmd = "open" THEN "lost" ELSE ses[n].cmd
             /\ ses'[n].handler = ses[n].handler /\ ses'[n].prox = ses[n].prox
        /\ SessionInv' /\ ClosingInv' /\ ListenInv' /\ svc'.used = svc.used
    BY <1>0, <1>4, LostFacts DEF RegisterFails, TypeOK, proxyVars, clientVars, registryVars
  <2>2. TypeOK'
    BY <1>0, <1>4, <2>1 DEF RegisterFails, TypeOK, Service, Sessions, Goroutines, Places, Serving, Closing,
         proxyVars, clientVars, registryVars
  <2>3. SessionInv'
    BY <2>1
  <2>4. ServiceInv'
    BY <1>0, <1>4, <2>1 DEF RegisterFails, ServiceInv, TypeOK, Service, SessionInv, Sessions, proxyVars,
         clientVars, registryVars
  <2>5. ListenInv'
    BY <2>1
  <2>6. ClientInv'
    BY <1>0, <1>4, <2>1 DEF RegisterFails, ClientInv, TypeOK, Goroutines, proxyVars, clientVars, registryVars
  <2>7. ClosingInv'
    BY <2>1
  <2>8. ListingInv'
    BY <1>0, <1>4, <2>1, ListingKept DEF RegisterFails, Listens, proxyVars, clientVars, registryVars
  <2>10. OneInv'
    <3>1. svc.used \in Nat /\ svc.current \in Nat /\ svc.current <= svc.used
      BY <1>0 DEF ServiceInv, TypeOK, Service
    <3>2. \A s \in Sessions : s \in Nat
      BY DEF Sessions
    <3> QED
      BY <1>0, <1>4, <2>1, <3>1, <3>2 DEF RegisterFails, OneInv, TypeOK, Service
  <2>9. HandshakesStall'
    BY <1>0, <1>4, <2>1 DEF RegisterFails, HandshakesStall, ClientInv, TypeOK, Goroutines, proxyVars,
         clientVars, registryVars
  <2> QED
    BY <2>2, <2>3, <2>4, <2>5, <2>6, <2>7, <2>8, <2>9, <2>10 DEF IInv
<1>5. ASSUME RecvPort PROVE IInv'
  <2>0. svc.current \in Sessions
    BY <1>0, <1>5 DEF RecvPort, TypeOK, Service, SessionInv, ServiceInv, ClientInv, Sessions
  <2>1. /\ ses' \in [Sessions -> Session]
        /\ \A n \in Sessions :
             /\ ses'[n].cmd = ses[n].cmd
             /\ ses'[n].handler = ses[n].handler
             /\ ses'[n].prox = ses[n].prox
    <3> PICK q \in Session : q = ses[svc.current]
      BY <1>0, <2>0 DEF TypeOK
    <3> DEFINE r == [q EXCEPT !.ports = q.ports - 1]
    <3>1. ses' = [ses EXCEPT ![svc.current] = r]
      BY <1>0, <1>5, <2>0 DEF RecvPort, TypeOK
    <3>2. r \in Session
      BY <1>5, <2>0 DEF RecvPort, Session
    <3>3. r.cmd = q.cmd /\ r.handler = q.handler /\ r.prox = q.prox
      BY DEF Session
    <3> HIDE DEF r
    <3> QED
      BY <1>0, <2>0, <3>1, <3>2, <3>3, SesPut DEF TypeOK
  <2>2. TypeOK'
    BY <1>0, <1>5, <2>0, <2>1 DEF RecvPort, TypeOK, Service, Sessions, Goroutines, Places, Serving, Closing,
         proxyVars, clientVars, registryVars
  <2>3. SessionInv'
    BY <1>0, <1>5, <2>0, <2>1 DEF RecvPort, SessionInv, TypeOK, proxyVars, clientVars, registryVars
  <2>4. ServiceInv'
    BY <1>0, <1>5, <2>0, <2>1 DEF RecvPort, ServiceInv, TypeOK, SessionInv, Sessions, proxyVars,
         clientVars, registryVars
  <2>5. ListenInv'
    BY <1>0, <1>5, <2>0, <2>1 DEF RecvPort, ListenInv, Listens, TypeOK, SessionInv, Goroutines, Sessions,
         proxyVars, clientVars, registryVars
  <2>6. ClientInv'
    BY <1>0, <1>5, <2>0, <2>1 DEF RecvPort, ClientInv, TypeOK, Goroutines, proxyVars, clientVars, registryVars
  <2>7. ClosingInv'
    BY <1>0, <1>5, <2>0, <2>1 DEF RecvPort, ClosingInv, TypeOK, SessionInv, ClientInv, Of, Goroutines,
         Closing, proxyVars, clientVars, registryVars
  <2>8. ListingInv'
    BY <1>0, <1>5, <2>0, <2>1, ListingKept DEF RecvPort, Listens, proxyVars, clientVars, registryVars
  <2>10. OneInv'
    <3>1. svc.used \in Nat /\ svc.current \in Nat /\ svc.current <= svc.used
      BY <1>0 DEF ServiceInv, TypeOK, Service
    <3>2. \A s \in Sessions : s \in Nat
      BY DEF Sessions
    <3> QED
      BY <1>0, <1>5, <2>0, <2>1, <3>1, <3>2 DEF RecvPort, OneInv, TypeOK, Service
  <2>9. HandshakesStall'
    BY <1>0, <1>5, <2>0, <2>1 DEF RecvPort, HandshakesStall, ClientInv, TypeOK, Goroutines, proxyVars,
         clientVars, registryVars
  <2> QED
    BY <2>2, <2>3, <2>4, <2>5, <2>6, <2>7, <2>8, <2>9, <2>10 DEF IInv
<1>6. ASSUME RecvBroken PROVE IInv'
  <2>1. ses' = ses
    BY <1>0, <1>6 DEF RecvBroken, proxyVars, clientVars, registryVars
  <2>2. TypeOK'
    BY <1>0, <1>6, <2>1 DEF RecvBroken, TypeOK, Service, Sessions, Goroutines, Places, Serving, Closing,
         proxyVars, clientVars, registryVars
  <2>3. SessionInv'
    BY <1>0, <1>6, <2>1 DEF RecvBroken, SessionInv, TypeOK, proxyVars, clientVars, registryVars
  <2>4. ServiceInv'
    BY <1>0, <1>6, <2>1 DEF RecvBroken, ServiceInv, TypeOK, SessionInv, Sessions, proxyVars, clientVars,
         registryVars
  <2>5. ListenInv'
    BY <1>0, <1>6, <2>1 DEF RecvBroken, ListenInv, Listens, TypeOK, SessionInv, Goroutines, Sessions,
         proxyVars, clientVars, registryVars
  <2>6. ClientInv'
    BY <1>0, <1>6, <2>1 DEF RecvBroken, ClientInv, TypeOK, Goroutines, proxyVars, clientVars, registryVars
  <2>7. ClosingInv'
    BY <1>0, <1>6, <2>1 DEF RecvBroken, ClosingInv, TypeOK, SessionInv, ClientInv, Of, Goroutines,
         Closing, proxyVars, clientVars, registryVars
  <2>8. ListingInv'
    BY <1>0, <1>6, <2>1, ListingKept DEF RecvBroken, Listens, proxyVars, clientVars, registryVars
  <2>10. OneInv'
    <3>1. svc.used \in Nat /\ svc.current \in Nat /\ svc.current <= svc.used
      BY <1>0 DEF ServiceInv, TypeOK, Service
    <3>2. \A s \in Sessions : s \in Nat
      BY DEF Sessions
    <3> QED
      BY <1>0, <1>6, <2>1, <3>1, <3>2 DEF RecvBroken, OneInv, TypeOK, Service
  <2>9. HandshakesStall'
    BY <1>0, <1>6, <2>1 DEF RecvBroken, HandshakesStall, ClientInv, TypeOK, Goroutines, proxyVars,
         clientVars, registryVars
  <2> QED
    BY <2>2, <2>3, <2>4, <2>5, <2>6, <2>7, <2>8, <2>9, <2>10 DEF IInv
<1>7. ASSUME DialReverse PROVE IInv'
  <2>0. svc.current \in Sessions
    BY <1>0, <1>7 DEF DialReverse, TypeOK, Service, SessionInv, ServiceInv, ClientInv, Sessions
  <2>1. /\ ses' \in [Sessions -> Session]
        /\ \A n \in Sessions :
             /\ ses'[n].cmd = ses[n].cmd
             /\ ses'[n].handler = ses[n].handler
             /\ ses'[n].prox = ses[n].prox
    BY <1>0, <1>7, <2>0 DEF DialReverse, TypeOK, Session
  <2>2. TypeOK'
    BY <1>0, <1>7, <2>0, <2>1 DEF DialReverse, TypeOK, Service, Sessions, Goroutines, Places, Serving, Closing,
         proxyVars, clientVars, registryVars
  <2>3. SessionInv'
    BY <1>0, <1>7, <2>0, <2>1 DEF DialReverse, SessionInv, TypeOK, proxyVars, clientVars, registryVars
  <2>4. ServiceInv'
    BY <1>0, <1>7, <2>0, <2>1 DEF DialReverse, ServiceInv, TypeOK, SessionInv, Sessions, proxyVars,
         clientVars, registryVars
  <2>5. ListenInv'
    BY <1>0, <1>7, <2>0, <2>1 DEF DialReverse, ListenInv, Listens, TypeOK, SessionInv, Goroutines,
         Sessions, proxyVars, clientVars, registryVars
  <2>6. ClientInv'
    BY <1>0, <1>7, <2>0, <2>1 DEF DialReverse, ClientInv, TypeOK, Goroutines, proxyVars, clientVars,
         registryVars
  <2>7. ClosingInv'
    BY <1>0, <1>7, <2>0, <2>1 DEF DialReverse, ClosingInv, TypeOK, SessionInv, ClientInv, Of, Goroutines,
         Closing, proxyVars, clientVars, registryVars
  <2>8. ListingInv'
    BY <1>0, <1>7, <2>0, <2>1, ListingKept DEF DialReverse, Listens, proxyVars, clientVars, registryVars
  <2>10. OneInv'
    <3>1. svc.used \in Nat /\ svc.current \in Nat /\ svc.current <= svc.used
      BY <1>0 DEF ServiceInv, TypeOK, Service
    <3>2. \A s \in Sessions : s \in Nat
      BY DEF Sessions
    <3> QED
      BY <1>0, <1>7, <2>0, <2>1, <3>1, <3>2 DEF DialReverse, OneInv, TypeOK, Service
  <2>9. HandshakesStall'
    BY <1>0, <1>7, <2>0, <2>1 DEF DialReverse, HandshakesStall, ClientInv, TypeOK, Goroutines, proxyVars,
         clientVars, registryVars
  <2> QED
    BY <2>2, <2>3, <2>4, <2>5, <2>6, <2>7, <2>8, <2>9, <2>10 DEF IInv
<1>8. ASSUME CloseService PROVE IInv'
  <2>1. /\ ses' \in [Sessions -> Session]
        /\ \A n \in Sessions :
             /\ ses'[n].cmd = IF n = svc.current /\ ses[n].cmd = "open" THEN "lost" ELSE ses[n].cmd
             /\ ses'[n].handler = ses[n].handler /\ ses'[n].prox = ses[n].prox
        /\ SessionInv' /\ ClosingInv' /\ ListenInv' /\ svc'.used = svc.used
    BY <1>0, <1>8, LostFacts DEF CloseService, TypeOK, proxyVars, clientVars
  <2>2. TypeOK'
    <3> PICK r \in Service : r = svc
      BY <1>0 DEF TypeOK
    <3>2. svc' \in Service
      BY <1>8 DEF CloseService, Service
    <3> QED
      BY <1>0, <1>8, <2>1, <3>2 DEF CloseService, TypeOK, proxyVars, clientVars
  <2>3. SessionInv'
    BY <2>1
  <2>4. ServiceInv'
    BY <1>0, <1>8, <2>1 DEF CloseService, ServiceInv, TypeOK, Service, SessionInv, Sessions, proxyVars, clientVars
  <2>5. ListenInv'
    BY <2>1
  <2>6. ClientInv'
    BY <1>0, <1>8, <2>1 DEF CloseService, ClientInv, TypeOK, Goroutines, proxyVars, clientVars
  <2>7. ClosingInv'
    BY <2>1
  <2>8. ListingInv'
    BY <1>0, <1>8, <2>1, ListingKept DEF CloseService, Listens, proxyVars, clientVars, registryVars
  <2>10. OneInv'
    <3>1. svc.used \in Nat /\ svc.current \in Nat /\ svc.current <= svc.used
      BY <1>0 DEF ServiceInv, TypeOK, Service
    <3>2. \A s \in Sessions : s \in Nat
      BY DEF Sessions
    <3> QED
      BY <1>0, <1>8, <2>1, <3>1, <3>2 DEF CloseService, OneInv, TypeOK, Service
  <2>9. HandshakesStall'
    BY <1>0, <1>8, <2>1 DEF CloseService, HandshakesStall, ClientInv, TypeOK, Goroutines, proxyVars,
         clientVars
  <2> QED
    BY <2>2, <2>3, <2>4, <2>5, <2>6, <2>7, <2>8, <2>9, <2>10 DEF IInv
<1>9. ASSUME DeleteArrives PROVE IInv'
  <2>1. ses' = ses
    BY <1>0, <1>9 DEF DeleteArrives, proxyVars, clientVars
  <2>2. TypeOK'
    <3>1. dels' \subseteq 0..MaxSessions /\ wan' \in 0..MaxSessions
      BY <1>0, <1>9 DEF DeleteArrives, TypeOK
    <3>2. displaced' \in [Sessions -> SUBSET (0..MaxSessions)]
      <4>1. PICK d \in dels : (wan' = 0 /\ Displace(d)) \/ UNCHANGED <<wan, displaced>>
        BY <1>9 DEF DeleteArrives
      <4>2. d \in 0..MaxSessions
        BY <1>0 DEF TypeOK
      <4>3. CASE Displace(d)
        BY <1>0, <4>2, <4>3 DEF Displace, TypeOK
      <4> QED
        BY <1>0, <4>1, <4>3 DEF TypeOK
    <3> QED
      BY <1>0, <1>9, <2>1, <3>1, <3>2 DEF DeleteArrives, TypeOK, proxyVars, clientVars
  <2>3. SessionInv'
    BY <1>0, <1>9, <2>1 DEF DeleteArrives, SessionInv, TypeOK, proxyVars, clientVars
  <2>4. ServiceInv'
    BY <1>0, <1>9, <2>1 DEF DeleteArrives, ServiceInv, TypeOK, SessionInv, Sessions, proxyVars, clientVars
  <2>5. ListenInv'
    BY <1>0, <1>9, <2>1 DEF DeleteArrives, ListenInv, Listens, TypeOK, SessionInv, Goroutines, Sessions,
         proxyVars, clientVars
  <2>6. ClientInv'
    BY <1>0, <1>9, <2>1 DEF DeleteArrives, ClientInv, TypeOK, Goroutines, proxyVars, clientVars
  <2>7. ClosingInv'
    BY <1>0, <1>9, <2>1 DEF DeleteArrives, ClosingInv, TypeOK, SessionInv, ClientInv, Of, Goroutines,
         Closing, proxyVars, clientVars
  <2>8. ListingInv'
    <3>1. svc' = svc
      BY <1>9 DEF DeleteArrives
    <3>2. PICK d \in dels : /\ dels' = dels \ {d}
                            /\ \/ wan' = 0 /\ Displace(d)
                               \/ UNCHANGED <<wan, displaced>>
      BY <1>9 DEF DeleteArrives
    <3>3. CASE UNCHANGED <<wan, displaced>>
      <4>1. \A x \in dels' : x \in dels
        BY <3>2
      <4>2. UNCHANGED <<wan, displaced>> /\ (svc.closed => svc'.closed) /\ TypeOK /\ ListingInv
        BY <1>0, <3>1, <3>3
      <4>3. \A n \in Sessions :
              /\ ses[n].prox = "closed" => ses'[n].prox = "closed"
              /\ ses'[n].handler \in {"assign", "ok"} => ses[n].handler \in {"assign", "ok"}
              /\ Listens(n) => ses'[n].handler \notin {"off", "listen"}
        BY <2>1 DEF Listens
      <4> QED
        BY <4>1, <4>2, <4>3, ListingKept
    <3>4. CASE wan' = 0 /\ Displace(d)
      <4>1. d \in 0..MaxSessions /\ (d = 0 => svc.closed) /\ (d # 0 => ses[d].prox = "closed")
        BY <1>0 DEF ListingInv, TypeOK
      <4>2. d # 0 => d \in Sessions
        BY <4>1 DEF Sessions
      <4>3. d # 0 => Listens(d)
        BY <1>0, <4>1, <4>2 DEF ListenInv
      <4>4. \A s \in Sessions : displaced'[s] = IF s = wan /\ s # d THEN displaced[s] \cup {d} ELSE displaced[s]
        BY <3>4 DEF Displace
      <4>5. \A x \in dels' : (x = 0 => svc'.closed) /\ (x # 0 => ses'[x].prox = "closed")
        <5>1. \A x \in dels' : x \in dels
          BY <3>2
        <5> QED
          BY <1>0, <2>1, <3>1, <5>1 DEF ListingInv
      <4>6. ASSUME NEW s \in Sessions, ses'[s].handler \in {"assign", "ok"}
            PROVE  wan' = s \/ ses'[s].prox = "closed" \/ displaced'[s] # {}
        <5>1. wan = s \/ ses[s].prox = "closed" \/ displaced[s] # {}
          BY <1>0, <2>1, <4>6 DEF ListingInv
        <5>2. s # 0
          BY DEF Sessions
        <5> QED
          BY <2>1, <4>1, <4>4, <5>1, <5>2
      <4>7. ASSUME NEW s \in Sessions, NEW x \in displaced'[s]
            PROVE  x # s /\ (x = 0 => svc'.closed) /\ (x # 0 => Listens(x)')
        <5>1. x \in displaced[s] \/ (x = d /\ s # d)
          <6>1. CASE s = wan /\ s # d
            <7>1. displaced'[s] = displaced[s] \cup {d}
              BY <4>4, <6>1
            <7> QED
              BY <4>7, <6>1, <7>1
          <6>2. CASE ~(s = wan /\ s # d)
            <7>1. displaced'[s] = displaced[s]
              BY <4>4, <6>2
            <7> QED
              BY <4>7, <7>1
          <6> QED
            BY <6>1, <6>2
        <5> QED
          BY <1>0, <2>1, <3>1, <4>1, <4>3, <5>1 DEF ListingInv, Listens
      <4> QED
        BY <4>5, <4>6, <4>7 DEF ListingInv
    <3> QED
      BY <3>2, <3>3, <3>4
  <2>10. OneInv'
    BY <1>0, <1>9, <2>1, OneKept DEF DeleteArrives, proxyVars, clientVars, registryVars
  <2>9. HandshakesStall'
    BY <1>0, <1>9, <2>1 DEF DeleteArrives, HandshakesStall, ClientInv, TypeOK, Goroutines, proxyVars,
         clientVars
  <2> QED
    BY <2>2, <2>3, <2>4, <2>5, <2>6, <2>7, <2>8, <2>9, <2>10 DEF IInv
<1>10. ASSUME CheckListing PROVE IInv'
  <2>1. ses' = ses
    BY <1>0, <1>10 DEF CheckListing, proxyVars, clientVars
  <2>2. TypeOK'
    BY <1>0, <1>10, <2>1 DEF CheckListing, TypeOK, Sessions, Goroutines, Places, Serving, Closing,
         proxyVars, clientVars
  <2>3. SessionInv'
    BY <1>0, <1>10, <2>1 DEF CheckListing, SessionInv, TypeOK, proxyVars, clientVars
  <2>4. ServiceInv'
    BY <1>0, <1>10, <2>1 DEF CheckListing, ServiceInv, TypeOK, SessionInv, Sessions, proxyVars, clientVars
  <2>5. ListenInv'
    BY <1>0, <1>10, <2>1 DEF CheckListing, ListenInv, Listens, TypeOK, SessionInv, Goroutines, Sessions,
         proxyVars, clientVars
  <2>6. ClientInv'
    BY <1>0, <1>10, <2>1 DEF CheckListing, ClientInv, TypeOK, Goroutines, proxyVars, clientVars
  <2>7. ClosingInv'
    BY <1>0, <1>10, <2>1 DEF CheckListing, ClosingInv, TypeOK, SessionInv, ClientInv, Of, Goroutines,
         Closing, proxyVars, clientVars
  <2>8. ListingInv'
    <3>1. svc' = svc /\ dels' = dels /\ displaced' = displaced /\ wan' = 0
          /\ wan \in Sessions /\ ses[wan].prox = "closed"
      BY <1>0, <1>10 DEF CheckListing, TypeOK, Sessions
    <3> QED
      BY <1>0, <2>1, <3>1 DEF ListingInv, Listens
  <2>10. OneInv'
    BY <1>0, <1>10, <2>1, OneKept DEF CheckListing, proxyVars, clientVars, registryVars
  <2>9. HandshakesStall'
    BY <1>0, <1>10, <2>1 DEF CheckListing, HandshakesStall, ClientInv, TypeOK, Goroutines, proxyVars,
         clientVars
  <2> QED
    BY <2>2, <2>3, <2>4, <2>5, <2>6, <2>7, <2>8, <2>9, <2>10 DEF IInv
<1>11. ASSUME NEW s \in Sessions, HandlerListens(s) PROVE IInv'
  <2>1. /\ ses' \in [Sessions -> Session]
        /\ \A n \in Sessions :
             /\ ses'[n].cmd = ses[n].cmd
             /\ ses'[n].handler = IF n = s THEN "register" ELSE ses[n].handler
             /\ ses'[n].prox = IF n = s THEN "open" ELSE ses[n].prox
    <3> PICK q \in Session : q = ses[s]
      BY <1>0, <1>11 DEF TypeOK
    <3> DEFINE r == [q EXCEPT !.handler = "register", !.rev = "open", !.prox = "open"]
    <3>1. ses' = [ses EXCEPT ![s] = r]
      BY <1>0, <1>11 DEF HandlerListens, TypeOK
    <3>2. r \in Session
      BY DEF Session
    <3>3. r.cmd = q.cmd /\ r.handler = "register" /\ r.prox = "open"
      BY DEF Session
    <3> HIDE DEF r
    <3> QED
      BY <1>0, <1>11, <3>1, <3>2, <3>3, SesPut DEF TypeOK
  <2>2. TypeOK'
    BY <1>0, <1>11, <2>1 DEF HandlerListens, TypeOK, Sessions, Goroutines, Places, Serving, Closing,
         clientVars, registryVars
  <2>3. SessionInv'
    BY <1>0, <1>11, <2>1 DEF HandlerListens, SessionInv, TypeOK, clientVars, registryVars
  <2>4. ServiceInv'
    BY <1>0, <1>11, <2>1 DEF HandlerListens, ServiceInv, TypeOK, Service, SessionInv, Sessions, clientVars,
         registryVars
  <2>5. ListenInv'
    BY <1>0, <1>11, <2>1 DEF HandlerListens, ListenInv, Listens, TypeOK, SessionInv, Goroutines,
         Sessions, clientVars, registryVars
  <2>6. ClientInv'
    BY <1>0, <1>11, <2>1 DEF HandlerListens, ClientInv, TypeOK, Goroutines, clientVars, registryVars
  <2>7. ClosingInv'
    <3>1. \A g \in Goroutines : pc'[g] \in Closing => pc[g] \in Closing
      BY <1>0, <1>11 DEF HandlerListens, TypeOK, Closing, clientVars, registryVars
    <3>2. ses[s].handler # "failed" /\ via' = via
      BY <1>11 DEF HandlerListens, clientVars, registryVars
    <3> QED
      BY <1>0, <2>1, <3>1, <3>2, ClosingKept
  <2>8. ListingInv'
    <3>1. ses[s].prox = "off"
      BY <1>0, <1>11 DEF HandlerListens, ListenInv, Listens
    <3> QED
      BY <1>0, <1>11, <2>1, <3>1, ListingKept DEF HandlerListens, Listens, registryVars
  <2>10. OneInv'
    BY <1>0, <1>11, <2>1, OneKept DEF HandlerListens, proxyVars, clientVars, registryVars
  <2>9. HandshakesStall'
    BY <1>0, <1>11, <2>1 DEF HandlerListens, HandshakesStall, ClientInv, TypeOK, Goroutines, clientVars,
         registryVars
  <2> QED
    BY <2>2, <2>3, <2>4, <2>5, <2>6, <2>7, <2>8, <2>9, <2>10 DEF IInv
<1>12. ASSUME NEW s \in Sessions, HandlerRegisters(s) PROVE IInv'
  <2>1. /\ ses' \in [Sessions -> Session]
        /\ \A n \in Sessions :
             /\ ses'[n].cmd = ses[n].cmd
             /\ ses'[n].handler = IF n = s THEN "assign" ELSE ses[n].handler
             /\ ses'[n].prox = ses[n].prox
    <3> PICK q \in Session : q = ses[s]
      BY <1>0, <1>12 DEF TypeOK
    <3> DEFINE r == [q EXCEPT !.handler = "assign"]
    <3>1. ses' = [ses EXCEPT ![s] = r]
      BY <1>0, <1>12 DEF HandlerRegisters, TypeOK
    <3>2. r \in Session
      BY DEF Session
    <3>3. r.cmd = q.cmd /\ r.handler = "assign" /\ r.prox = q.prox
      BY DEF Session
    <3> HIDE DEF r
    <3> QED
      BY <1>0, <1>12, <3>1, <3>2, <3>3, SesPut DEF TypeOK
  <2>2. TypeOK'
    <3>1. s \in 0..MaxSessions
      BY DEF Sessions
    <3>2. displaced' \in [Sessions -> SUBSET (0..MaxSessions)]
      BY <1>0, <1>12, <3>1 DEF HandlerRegisters, Displace, TypeOK
    <3> QED
      BY <1>0, <1>12, <2>1, <3>1, <3>2 DEF HandlerRegisters, TypeOK, proxyVars, clientVars
  <2>3. SessionInv'
    BY <1>0, <1>12, <2>1 DEF HandlerRegisters, SessionInv, TypeOK, proxyVars, clientVars
  <2>4. ServiceInv'
    BY <1>0, <1>12, <2>1 DEF HandlerRegisters, ServiceInv, TypeOK, SessionInv, Sessions, proxyVars, clientVars
  <2>5. ListenInv'
    BY <1>0, <1>12, <2>1 DEF HandlerRegisters, ListenInv, Listens, TypeOK, SessionInv, Goroutines,
         Sessions, proxyVars, clientVars
  <2>6. ClientInv'
    BY <1>0, <1>12, <2>1 DEF HandlerRegisters, ClientInv, TypeOK, Goroutines, proxyVars, clientVars
  <2>7. ClosingInv'
    BY <1>0, <1>12, <2>1 DEF HandlerRegisters, ClosingInv, TypeOK, SessionInv, ClientInv, Of, Goroutines,
         Closing, proxyVars, clientVars
  <2>8. ListingInv'
    <3>1. svc' = svc /\ dels' = dels /\ wan' = s /\ ses[s].handler = "register" /\ s # 0
      BY <1>12 DEF HandlerRegisters, Sessions
    <3>2. \A n \in Sessions : displaced'[n] = IF n = wan /\ n # s THEN displaced[n] \cup {s} ELSE displaced[n]
      BY <1>12 DEF HandlerRegisters, Displace
    <3>3. Listens(s) /\ \A n \in Sessions : Listens(n) => Listens(n)'
      BY <2>1, <3>1 DEF Listens
    <3>4. \A x \in dels' : (x = 0 => svc'.closed) /\ (x # 0 => ses'[x].prox = "closed")
      <4>1. \A x \in dels : x # 0 => x \in Sessions
        BY <1>0 DEF TypeOK, Sessions
      <4> QED
        BY <1>0, <2>1, <3>1, <4>1 DEF ListingInv
    <3>5. ASSUME NEW n \in Sessions, ses'[n].handler \in {"assign", "ok"}
          PROVE  wan' = n \/ ses'[n].prox = "closed" \/ displaced'[n] # {}
      <4>1. n = s \/ wan = n \/ ses[n].prox = "closed" \/ displaced[n] # {}
        BY <1>0, <2>1, <3>5 DEF ListingInv
      <4> QED
        BY <2>1, <3>1, <3>2, <4>1
    <3>6. ASSUME NEW n \in Sessions, NEW x \in displaced'[n]
          PROVE  x # n /\ (x = 0 => svc'.closed) /\ (x # 0 => Listens(x)')
      <4>1. x \in displaced[n] \/ (x = s /\ n # s)
        <5>1. CASE n = wan /\ n # s
          <6>1. displaced'[n] = displaced[n] \cup {s}
            BY <3>2, <5>1
          <6> QED
            BY <3>6, <5>1, <6>1
        <5>2. CASE ~(n = wan /\ n # s)
          <6>1. displaced'[n] = displaced[n]
            BY <3>2, <5>2
          <6> QED
            BY <3>6, <6>1
        <5> QED
          BY <5>1, <5>2
      <4>2. x \in 0..MaxSessions
        BY <1>0, <4>1 DEF TypeOK, Sessions
      <4>3. x # 0 => x \in Sessions
        BY <4>2 DEF Sessions
      <4>4. x # n /\ (x = 0 => svc.closed) /\ (x # 0 => Listens(x))
        BY <1>0, <3>1, <3>3, <4>1 DEF ListingInv
      <4> QED
        BY <3>1, <3>3, <4>3, <4>4
    <3> QED
      BY <3>4, <3>5, <3>6 DEF ListingInv
  <2>10. OneInv'
    BY <1>0, <1>12, <2>1, OneKept DEF HandlerRegisters, proxyVars, clientVars, registryVars
  <2>9. HandshakesStall'
    BY <1>0, <1>12, <2>1 DEF HandlerRegisters, HandshakesStall, ClientInv, TypeOK, Goroutines, proxyVars,
         clientVars
  <2> QED
    BY <2>2, <2>3, <2>4, <2>5, <2>6, <2>7, <2>8, <2>9, <2>10 DEF IInv
<1>13. ASSUME NEW s \in Sessions, HandlerFails(s) PROVE IInv'
  <2>1. /\ ses' \in [Sessions -> Session]
        /\ \A n \in Sessions :
             /\ ses'[n].cmd = ses[n].cmd
             /\ ses'[n].handler = IF n = s THEN "failed" ELSE ses[n].handler
             /\ ses'[n].prox = IF n = s THEN "closed" ELSE ses[n].prox
    <3> PICK q \in Session : q = ses[s]
      BY <1>0, <1>13 DEF TypeOK
    <3> DEFINE r == [q EXCEPT !.handler = "failed", !.prox = "closed"]
    <3>1. ses' = [ses EXCEPT ![s] = r]
      BY <1>0, <1>13 DEF HandlerFails, TypeOK
    <3>2. r \in Session
      BY DEF Session
    <3>3. r.cmd = q.cmd /\ r.handler = "failed" /\ r.prox = "closed"
      BY DEF Session
    <3> HIDE DEF r
    <3> QED
      BY <1>0, <1>13, <3>1, <3>2, <3>3, SesPut DEF TypeOK
  <2>2. TypeOK'
    BY <1>0, <1>13, <2>1 DEF HandlerFails, TypeOK, Sessions, Goroutines, Places, Serving, Closing,
         proxyVars, clientVars
  <2>3. SessionInv'
    BY <1>0, <1>13, <2>1 DEF HandlerFails, SessionInv, TypeOK, proxyVars, clientVars
  <2>4. ServiceInv'
    BY <1>0, <1>13, <2>1 DEF HandlerFails, ServiceInv, TypeOK, Service, SessionInv, Sessions, proxyVars, clientVars
  <2>5. ListenInv'
    BY <1>0, <1>13, <2>1 DEF HandlerFails, ListenInv, Listens, TypeOK, SessionInv, Goroutines, Sessions,
         proxyVars, clientVars
  <2>6. ClientInv'
    BY <1>0, <1>13, <2>1 DEF HandlerFails, ClientInv, TypeOK, Goroutines, proxyVars, clientVars
  <2>7. ClosingInv'
    <3>1. \A g \in Goroutines : pc'[g] \in Closing => pc[g] \in Closing
      BY <1>0, <1>13 DEF HandlerFails, TypeOK, Closing, proxyVars, clientVars
    <3>2. ses[s].handler # "failed" /\ via' = via
      BY <1>13 DEF HandlerFails, proxyVars, clientVars
    <3> QED
      BY <1>0, <2>1, <3>1, <3>2, ClosingKept
  <2>8. ListingInv'
    <3>1. /\ svc' = svc /\ dels' = dels \cup {s} /\ UNCHANGED <<wan, displaced>> /\ s # 0
          /\ ses[s].handler = "register"
      BY <1>13 DEF HandlerFails, Sessions
    <3>2. \A d \in dels' : d \in dels \/ ((d = 0 => svc'.closed) /\ (d # 0 => ses'[d].prox = "closed"))
      BY <2>1, <3>1
    <3> QED
      BY <1>0, <2>1, <3>1, <3>2, ListingKept DEF Listens
  <2>10. OneInv'
    BY <1>0, <1>13, <2>1, OneKept DEF HandlerFails, proxyVars, clientVars, registryVars
  <2>9. HandshakesStall'
    BY <1>0, <1>13, <2>1 DEF HandlerFails, HandshakesStall, ClientInv, TypeOK, Goroutines, proxyVars,
         clientVars
  <2> QED
    BY <2>2, <2>3, <2>4, <2>5, <2>6, <2>7, <2>8, <2>9, <2>10 DEF IInv
<1>14. ASSUME NEW s \in Sessions, HandlerReturns(s) PROVE IInv'
  <2>1. /\ ses' \in [Sessions -> Session]
        /\ \A n \in Sessions :
             /\ ses'[n].cmd = ses[n].cmd
             /\ ses'[n].handler = IF n = s THEN "ok" ELSE ses[n].handler
             /\ ses'[n].prox = ses[n].prox
    <3> PICK q \in Session : q = ses[s]
      BY <1>0, <1>14 DEF TypeOK
    <3> DEFINE r == [q EXCEPT !.handler = "ok", !.assigned = TRUE]
    <3>1. ses' = [ses EXCEPT ![s] = r]
      BY <1>0, <1>14 DEF HandlerReturns, TypeOK
    <3>2. r \in Session
      BY DEF Session
    <3>3. r.cmd = q.cmd /\ r.handler = "ok" /\ r.prox = q.prox
      BY DEF Session
    <3> HIDE DEF r
    <3> QED
      BY <1>0, <1>14, <3>1, <3>2, <3>3, SesPut DEF TypeOK
  <2>2. TypeOK'
    BY <1>0, <1>14, <2>1 DEF HandlerReturns, TypeOK, Sessions, Goroutines, Places, Serving, Closing,
         proxyVars, clientVars, registryVars
  <2>3. SessionInv'
    BY <1>0, <1>14, <2>1 DEF HandlerReturns, SessionInv, TypeOK, proxyVars, clientVars, registryVars
  <2>4. ServiceInv'
    BY <1>0, <1>14, <2>1 DEF HandlerReturns, ServiceInv, TypeOK, Service, SessionInv, Sessions, proxyVars,
         clientVars, registryVars
  <2>5. ListenInv'
    BY <1>0, <1>14, <2>1 DEF HandlerReturns, ListenInv, Listens, TypeOK, SessionInv, Goroutines,
         Sessions, proxyVars, clientVars, registryVars
  <2>6. ClientInv'
    BY <1>0, <1>14, <2>1 DEF HandlerReturns, ClientInv, TypeOK, Goroutines, proxyVars, clientVars,
         registryVars
  <2>7. ClosingInv'
    <3>1. \A g \in Goroutines : pc'[g] \in Closing => pc[g] \in Closing
      BY <1>0, <1>14 DEF HandlerReturns, TypeOK, Closing, proxyVars, clientVars, registryVars
    <3>2. ses[s].handler # "failed" /\ via' = via
      BY <1>14 DEF HandlerReturns, proxyVars, clientVars, registryVars
    <3> QED
      BY <1>0, <2>1, <3>1, <3>2, ClosingKept
  <2>8. ListingInv'
    BY <1>0, <1>14, <2>1, ListingKept DEF HandlerReturns, Listens, proxyVars, clientVars, registryVars
  <2>10. OneInv'
    BY <1>0, <1>14, <2>1, OneKept DEF HandlerReturns, proxyVars, clientVars, registryVars
  <2>9. HandshakesStall'
    BY <1>0, <1>14, <2>1 DEF HandlerReturns, HandshakesStall, ClientInv, TypeOK, Goroutines, proxyVars,
         clientVars, registryVars
  <2> QED
    BY <2>2, <2>3, <2>4, <2>5, <2>6, <2>7, <2>8, <2>9, <2>10 DEF IInv
<1>15. ASSUME NEW s \in Sessions, LoseCmd(s) PROVE IInv'
  <2>1. /\ ses' \in [Sessions -> Session]
        /\ \A n \in Sessions :
             /\ ses'[n].cmd = IF n = s /\ ses[n].cmd = "open" THEN "lost" ELSE ses[n].cmd
             /\ ses'[n].handler = ses[n].handler /\ ses'[n].prox = ses[n].prox
        /\ SessionInv' /\ ClosingInv' /\ ListenInv' /\ svc'.used = svc.used
    BY <1>0, <1>15, LostFacts DEF LoseCmd, TypeOK, proxyVars, clientVars, registryVars
  <2>2. TypeOK'
    BY <1>0, <1>15, <2>1 DEF LoseCmd, TypeOK, Sessions, Goroutines, Places, Serving, Closing, proxyVars,
         clientVars, registryVars
  <2>3. SessionInv'
    BY <2>1
  <2>4. ServiceInv'
    BY <1>0, <1>15, <2>1 DEF LoseCmd, ServiceInv, TypeOK, Service, SessionInv, Sessions, proxyVars, clientVars,
         registryVars
  <2>5. ListenInv'
    BY <2>1
  <2>6. ClientInv'
    BY <1>0, <1>15, <2>1 DEF LoseCmd, ClientInv, TypeOK, Goroutines, proxyVars, clientVars, registryVars
  <2>7. ClosingInv'
    BY <2>1
  <2>8. ListingInv'
    BY <1>0, <1>15, <2>1, ListingKept DEF LoseCmd, Listens, proxyVars, clientVars, registryVars
  <2>10. OneInv'
    BY <1>0, <1>15, <2>1, OneKept DEF LoseCmd, proxyVars, clientVars, registryVars
  <2>9. HandshakesStall'
    BY <1>0, <1>15, <2>1 DEF LoseCmd, HandshakesStall, ClientInv, TypeOK, Goroutines, proxyVars,
         clientVars, registryVars
  <2> QED
    BY <2>2, <2>3, <2>4, <2>5, <2>6, <2>7, <2>8, <2>9, <2>10 DEF IInv
<1>16. ASSUME NEW s \in Sessions, WatcherWakes(s) PROVE IInv'
  <2>1. ses' = ses
    BY <1>0, <1>16 DEF WatcherWakes, clientVars, registryVars
  <2>2. TypeOK'
    BY <1>0, <1>16, <2>1 DEF WatcherWakes, TypeOK, Goto, Sessions, Goroutines, Places, Serving, Closing,
         clientVars, registryVars
  <2>3. SessionInv' /\ ServiceInv'
    BY <1>0, <1>16, <2>1 DEF WatcherWakes, SessionInv, ServiceInv, registryVars
  <2>8. ListingInv'
    BY <1>0, <1>16, <2>1, ListingKept DEF WatcherWakes, Listens, clientVars, registryVars
  <2>9. OneInv'
    BY <1>0, <1>16, <2>1, OneKept DEF WatcherWakes, clientVars, registryVars
  <2>4. ListenInv'
    BY <1>0, <1>16, <2>1 DEF WatcherWakes, ListenInv, Listens, TypeOK, SessionInv, Goto, Goroutines,
         Sessions, clientVars, registryVars
  <2>5. ClientInv'
    BY <1>0, <1>16, <2>1 DEF WatcherWakes, ClientInv, TypeOK, Goto, Goroutines, clientVars, registryVars
  <2>6. ClosingInv'
    BY <1>0, <1>16, <2>1 DEF WatcherWakes, ClosingInv, TypeOK, SessionInv, ClientInv, Of, Goto,
         Goroutines, Closing, clientVars, registryVars
  <2>7. HandshakesStall'
    BY <1>0, <1>16, <2>1 DEF WatcherWakes, HandshakesStall, ClientInv, TypeOK, Goto, Goroutines,
         clientVars, registryVars
  <2> QED
    BY <2>2, <2>3, <2>4, <2>5, <2>6, <2>7, <2>8, <2>9 DEF IInv
<1>17. ASSUME NEW s \in Sessions, WatcherClosesChan(s) PROVE IInv'
  <2>1. /\ ses' \in [Sessions -> Session]
        /\ \A n \in Sessions :
             /\ ses'[n].cmd = ses[n].cmd
             /\ ses'[n].handler = ses[n].handler
             /\ ses'[n].prox = ses[n].prox
    BY <1>0, <1>17 DEF WatcherClosesChan, TypeOK, Session
  <2>2. TypeOK'
    BY <1>0, <1>17, <2>1 DEF WatcherClosesChan, TypeOK, Goto, Sessions, Goroutines, Places, Serving,
         Closing, clientVars, registryVars
  <2>3. SessionInv'
    BY <1>0, <1>17, <2>1 DEF WatcherClosesChan, SessionInv, TypeOK, clientVars, registryVars
  <2>4. ServiceInv'
    BY <1>0, <1>17, <2>1 DEF WatcherClosesChan, ServiceInv, TypeOK, SessionInv, Sessions, clientVars,
         registryVars
  <2>5. ListenInv'
    BY <1>0, <1>17, <2>1 DEF WatcherClosesChan, ListenInv, Listens, TypeOK, SessionInv, Goto, Goroutines,
         Sessions, clientVars, registryVars
  <2>6. ClientInv'
    BY <1>0, <1>17, <2>1 DEF WatcherClosesChan, ClientInv, TypeOK, Goto, Goroutines, clientVars, registryVars
  <2>7. ClosingInv'
    BY <1>0, <1>17, <2>1 DEF WatcherClosesChan, ClosingInv, TypeOK, SessionInv, ClientInv, Of, Goto,
         Goroutines, Closing, clientVars, registryVars
  <2>8. ListingInv'
    BY <1>0, <1>17, <2>1, ListingKept DEF WatcherClosesChan, Listens, proxyVars, clientVars, registryVars
  <2>10. OneInv'
    BY <1>0, <1>17, <2>1, OneKept DEF WatcherClosesChan, proxyVars, clientVars, registryVars
  <2>9. HandshakesStall'
    BY <1>0, <1>17, <2>1 DEF WatcherClosesChan, HandshakesStall, ClientInv, TypeOK, Goto, Goroutines,
         clientVars, registryVars
  <2> QED
    BY <2>2, <2>3, <2>4, <2>5, <2>6, <2>7, <2>8, <2>9, <2>10 DEF IInv
<1>18. ASSUME NEW g \in Goroutines, CloseRevTest(g) PROVE IInv'
  <2>1. ses' = ses
    BY <1>0, <1>18 DEF CloseRevTest, clientVars, registryVars
  <2>2. TypeOK'
    BY <1>0, <1>18, <2>1 DEF CloseRevTest, TypeOK, Goto, Sessions, Goroutines, Places, Serving, Closing,
         AfterRev, clientVars, registryVars
  <2>3. SessionInv' /\ ServiceInv'
    BY <1>0, <1>18, <2>1 DEF CloseRevTest, SessionInv, ServiceInv, registryVars
  <2>8. ListingInv'
    BY <1>0, <1>18, <2>1, ListingKept DEF CloseRevTest, Listens, clientVars, registryVars
  <2>9. OneInv'
    BY <1>0, <1>18, <2>1, OneKept DEF CloseRevTest, clientVars, registryVars
  <2>4. ListenInv'
    BY <1>0, <1>18, <2>1 DEF CloseRevTest, ListenInv, Listens, TypeOK, SessionInv, Goto, Goroutines,
         Sessions, clientVars, registryVars
  <2>5. ClientInv'
    BY <1>0, <1>18, <2>1 DEF CloseRevTest, ClientInv, TypeOK, Goto, Goroutines, AfterRev, clientVars,
         registryVars
  <2>6. ClosingInv'
    BY <1>0, <1>18, <2>1 DEF CloseRevTest, ClosingInv, TypeOK, SessionInv, ClientInv, Of, Goto,
         Goroutines, Closing, AfterRev, clientVars, registryVars
  <2>7. HandshakesStall'
    BY <1>0, <1>18, <2>1 DEF CloseRevTest, HandshakesStall, ClientInv, TypeOK, Goto, Goroutines,
         AfterRev, clientVars, registryVars
  <2> QED
    BY <2>2, <2>3, <2>4, <2>5, <2>6, <2>7, <2>8, <2>9 DEF IInv
<1>19. ASSUME NEW c \in Clients, HandleConn(c) PROVE IInv'
  <2>1. ses' = ses
    BY <1>0, <1>19 DEF HandleConn, handshakeWithClient, clientVars, registryVars
  <2>2. TypeOK'
    BY <1>0, <1>19, <2>1 DEF HandleConn, TypeOK, Goto, Sessions, Goroutines, Places, Serving, Closing,
         clientVars, registryVars
  <2>3. SessionInv' /\ ServiceInv'
    BY <1>0, <1>19, <2>1 DEF HandleConn, SessionInv, ServiceInv, registryVars
  <2>8. ListingInv'
    BY <1>0, <1>19, <2>1, ListingKept DEF HandleConn, Listens, clientVars, registryVars
  <2>9. OneInv'
    BY <1>0, <1>19, <2>1, OneKept DEF HandleConn, clientVars, registryVars
  <2>4. ListenInv'
    BY <1>0, <1>19, <2>1 DEF HandleConn, ListenInv, Listens, TypeOK, SessionInv, Goto, Goroutines,
         Sessions, clientVars, registryVars
  <2>5. ClientInv'
    BY <1>0, <1>19, <2>1 DEF HandleConn, ClientInv, TypeOK, Goto, Goroutines, clientVars, registryVars,
         handshakeWithClient
  <2>6. ClosingInv'
    BY <1>0, <1>19, <2>1 DEF HandleConn, ClosingInv, TypeOK, SessionInv, ClientInv, Of, Goto, Goroutines,
         Closing, clientVars, registryVars, handshakeWithClient
  <2>7. HandshakesStall'
    BY <1>0, <1>19, <2>1 DEF HandleConn, HandshakesStall, ClientInv, TypeOK, Goto, Goroutines,
         clientVars, registryVars, handshakeWithClient
  <2> QED
    BY <2>2, <2>3, <2>4, <2>5, <2>6, <2>7, <2>8, <2>9 DEF IInv
<1>20. ASSUME NEW c \in Clients, SendPort(c) PROVE IInv'
  <2>0. via[c] \in Sessions
    <3>1. via[c] \in 0..MaxSessions /\ via[c] # 0
      BY <1>0, <1>20 DEF SendPort, TypeOK, ClientInv
    <3> QED
      BY <3>1 DEF Sessions
  <2>1. /\ ses' \in [Sessions -> Session]
        /\ \A n \in Sessions :
             /\ ses'[n].cmd = ses[n].cmd
             /\ ses'[n].handler = ses[n].handler
             /\ ses'[n].prox = ses[n].prox
    <3> PICK q \in Session : q = ses[via[c]]
      BY <1>0, <2>0 DEF TypeOK
    <3> DEFINE r == [q EXCEPT !.ports = q.ports + 1]
    <3>1. ses' = [ses EXCEPT ![via[c]] = r]
      BY <1>0, <1>20, <2>0 DEF SendPort, TypeOK
    <3>2. r \in Session
      BY <1>20, <2>0 DEF SendPort, Session
    <3>3. r.cmd = q.cmd /\ r.handler = q.handler /\ r.prox = q.prox
      BY DEF Session
    <3> HIDE DEF r
    <3> QED
      BY <1>0, <2>0, <3>1, <3>2, <3>3, SesPut DEF TypeOK
  <2>2. TypeOK'
    BY <1>0, <1>20, <2>0, <2>1 DEF SendPort, TypeOK, Goto, Sessions, Goroutines, Places, Serving,
         Closing, clientVars, registryVars
  <2>3. SessionInv'
    BY <1>0, <1>20, <2>0, <2>1 DEF SendPort, SessionInv, TypeOK, clientVars, registryVars
  <2>4. ServiceInv'
    BY <1>0, <1>20, <2>0, <2>1 DEF SendPort, ServiceInv, TypeOK, SessionInv, Sessions, clientVars,
         registryVars
  <2>5. ListenInv'
    BY <1>0, <1>20, <2>0, <2>1 DEF SendPort, ListenInv, Listens, TypeOK, SessionInv, Goto, Goroutines,
         Sessions, clientVars, registryVars
  <2>6. ClientInv'
    BY <1>0, <1>20, <2>0, <2>1 DEF SendPort, ClientInv, TypeOK, Goto, Goroutines, clientVars, registryVars
  <2>7. ClosingInv'
    BY <1>0, <1>20, <2>0, <2>1 DEF SendPort, ClosingInv, TypeOK, SessionInv, ClientInv, Of, Goto,
         Goroutines, Closing, clientVars, registryVars
  <2>8. ListingInv'
    BY <1>0, <1>20, <2>0, <2>1, ListingKept DEF SendPort, Listens, proxyVars, clientVars, registryVars
  <2>10. OneInv'
    BY <1>0, <1>20, <2>0, <2>1, OneKept DEF SendPort, proxyVars, clientVars, registryVars
  <2>9. HandshakesStall'
    BY <1>0, <1>20, <2>0, <2>1 DEF SendPort, HandshakesStall, ClientInv, TypeOK, Goto, Goroutines,
         clientVars, registryVars
  <2> QED
    BY <2>2, <2>3, <2>4, <2>5, <2>6, <2>7, <2>8, <2>9, <2>10 DEF IInv
<1>21. ASSUME NEW c \in Clients, SendPortFails(c) PROVE IInv'
  <2>1. ses' = ses
    BY <1>0, <1>21 DEF SendPortFails, clientVars, registryVars
  <2>2. TypeOK'
    BY <1>0, <1>21, <2>1 DEF SendPortFails, TypeOK, Goto, Sessions, Goroutines, Places, Serving, Closing,
         clientVars, registryVars
  <2>3. SessionInv' /\ ServiceInv'
    BY <1>0, <1>21, <2>1 DEF SendPortFails, SessionInv, ServiceInv, registryVars
  <2>8. ListingInv'
    BY <1>0, <1>21, <2>1, ListingKept DEF SendPortFails, Listens, clientVars, registryVars
  <2>9. OneInv'
    BY <1>0, <1>21, <2>1, OneKept DEF SendPortFails, clientVars, registryVars
  <2>4. ListenInv'
    BY <1>0, <1>21, <2>1 DEF SendPortFails, ListenInv, Listens, TypeOK, SessionInv, Goto, Goroutines,
         Sessions, clientVars, registryVars
  <2>5. ClientInv'
    BY <1>0, <1>21, <2>1 DEF SendPortFails, ClientInv, TypeOK, Goto, Goroutines, clientVars, registryVars
  <2>6. ClosingInv'
    BY <1>0, <1>21, <2>1 DEF SendPortFails, ClosingInv, TypeOK, SessionInv, ClientInv, Of, Goto,
         Goroutines, Closing, clientVars, registryVars
  <2>7. HandshakesStall'
    BY <1>0, <1>21, <2>1 DEF SendPortFails, HandshakesStall, ClientInv, TypeOK, Goto, Goroutines,
         clientVars, registryVars
  <2> QED
    BY <2>2, <2>3, <2>4, <2>5, <2>6, <2>7, <2>8, <2>9 DEF IInv
<1>22. ASSUME NEW c \in Clients, TestChan(c) PROVE IInv'
  <2>1. ses' = ses
    BY <1>0, <1>22 DEF TestChan, registryVars
  <2>2. TypeOK'
    BY <1>0, <1>22, <2>1 DEF TestChan, TypeOK, Goto, End, Sessions, Goroutines, Places, Serving, Closing,
         registryVars
  <2>3. SessionInv' /\ ServiceInv'
    BY <1>0, <1>22, <2>1 DEF TestChan, SessionInv, ServiceInv, registryVars
  <2>8. ListingInv'
    BY <1>0, <1>22, <2>1, ListingKept DEF TestChan, Listens, clientVars, registryVars
  <2>9. OneInv'
    BY <1>0, <1>22, <2>1, OneKept DEF TestChan, clientVars, registryVars
  <2>4. ListenInv'
    BY <1>0, <1>22, <2>1 DEF TestChan, ListenInv, Listens, TypeOK, SessionInv, Goto, End, Goroutines,
         Sessions, registryVars
  <2>5. ClientInv'
    BY <1>0, <1>22, <2>1 DEF TestChan, ClientInv, TypeOK, Goto, End, Goroutines, registryVars
  <2>6. ClosingInv'
    BY <1>0, <1>22, <2>1 DEF TestChan, ClosingInv, TypeOK, SessionInv, ClientInv, Of, Goto, End,
         Goroutines, Closing, registryVars
  <2>7. HandshakesStall'
    BY <1>0, <1>22, <2>1 DEF TestChan, HandshakesStall, ClientInv, TypeOK, Goto, End, Goroutines, registryVars
  <2> QED
    BY <2>2, <2>3, <2>4, <2>5, <2>6, <2>7, <2>8, <2>9 DEF IInv
<1>23. ASSUME NEW c \in Clients, EvalChan(c) PROVE IInv'
  <2>1. ses' = ses
    BY <1>0, <1>23 DEF EvalChan, clientVars, registryVars
  <2>2. TypeOK'
    BY <1>0, <1>23, <2>1 DEF EvalChan, TypeOK, Goto, Sessions, Goroutines, Places, Serving, Closing,
         clientVars, registryVars
  <2>3. SessionInv' /\ ServiceInv'
    BY <1>0, <1>23, <2>1 DEF EvalChan, SessionInv, ServiceInv, registryVars
  <2>8. ListingInv'
    BY <1>0, <1>23, <2>1, ListingKept DEF EvalChan, Listens, clientVars, registryVars
  <2>9. OneInv'
    BY <1>0, <1>23, <2>1, OneKept DEF EvalChan, clientVars, registryVars
  <2>4. ListenInv'
    BY <1>0, <1>23, <2>1 DEF EvalChan, ListenInv, Listens, TypeOK, SessionInv, Goto, Goroutines,
         Sessions, clientVars, registryVars
  <2>5. ClientInv'
    BY <1>0, <1>23, <2>1 DEF EvalChan, ClientInv, TypeOK, Goto, Goroutines, clientVars, registryVars
  <2>6. ClosingInv'
    BY <1>0, <1>23, <2>1 DEF EvalChan, ClosingInv, TypeOK, SessionInv, ClientInv, Of, Goto, Goroutines,
         Closing, clientVars, registryVars
  <2>7. HandshakesStall'
    BY <1>0, <1>23, <2>1 DEF EvalChan, HandshakesStall, ClientInv, TypeOK, Goto, Goroutines, clientVars,
         registryVars
  <2> QED
    BY <2>2, <2>3, <2>4, <2>5, <2>6, <2>7, <2>8, <2>9 DEF IInv
<1>24. ASSUME NEW c \in Clients, RecvConn(c) PROVE IInv'
  <2>1. ses' = ses
    BY <1>0, <1>24 DEF RecvConn, Offered, handshakeWithClient, registryVars
  <2>2. TypeOK'
    <3>1. pc' \in [Goroutines -> Places]
      BY <1>0, <1>24 DEF RecvConn, TypeOK, Goto, End, Offered, handshakeWithClient, Places, Serving,
           Goroutines
    <3>2. cli' \in [Clients -> {"idle", "dial", "ack", "sent", "failed"}]
      BY <1>0, <1>24 DEF RecvConn, TypeOK, End
    <3> QED
      BY <1>0, <1>24, <2>1, <3>1, <3>2 DEF RecvConn, TypeOK, registryVars
  <2>3. SessionInv' /\ ServiceInv'
    BY <1>0, <1>24, <2>1 DEF RecvConn, SessionInv, ServiceInv, registryVars
  <2>8. ListingInv'
    BY <1>0, <1>24, <2>1, ListingKept DEF RecvConn, Listens, clientVars, registryVars
  <2>9. OneInv'
    BY <1>0, <1>24, <2>1, OneKept DEF RecvConn, clientVars, registryVars
  <2>4. ListenInv'
    BY <1>0, <1>24, <2>1 DEF RecvConn, ListenInv, Listens, TypeOK, SessionInv, Goto, End, Goroutines,
         Sessions, registryVars
  <2>5. ClientInv'
    BY <1>0, <1>24, <2>1 DEF RecvConn, ClientInv, TypeOK, Goto, End, Goroutines, registryVars, Offered,
         handshakeWithClient
  <2>6. ClosingInv'
    BY <1>0, <1>24, <2>1 DEF RecvConn, ClosingInv, TypeOK, SessionInv, ClientInv, Of, Goto, End,
         Goroutines, Closing, registryVars, Offered, handshakeWithClient
  <2>7. HandshakesStall'
    BY <1>0, <1>24, <2>1 DEF RecvConn, HandshakesStall, ClientInv, TypeOK, Goto, End, Goroutines,
         registryVars, Offered, handshakeWithClient
  <2> QED
    BY <2>2, <2>3, <2>4, <2>5, <2>6, <2>7, <2>8, <2>9 DEF IInv
<1>25. ASSUME NEW c \in Clients, Lookup(c) PROVE IInv'
  <2>1. ses' = ses
    BY <1>0, <1>25 DEF Lookup, proxyVars, registryVars
  <2>2. TypeOK'
    BY <1>0, <1>25, <2>1 DEF Lookup, TypeOK, Sessions, Goroutines, Places, Serving, Closing, proxyVars,
         registryVars
  <2>3. SessionInv' /\ ServiceInv'
    BY <1>0, <1>25, <2>1 DEF Lookup, SessionInv, ServiceInv, registryVars
  <2>8. ListingInv'
    BY <1>0, <1>25, <2>1, ListingKept DEF Lookup, Listens, clientVars, registryVars
  <2>9. OneInv'
    BY <1>0, <1>25, <2>1, OneKept DEF Lookup, clientVars, registryVars
  <2>4. ListenInv'
    BY <1>0, <1>25, <2>1 DEF Lookup, ListenInv, Listens, TypeOK, SessionInv, Goroutines, Sessions,
         proxyVars, registryVars
  <2>5. ClientInv'
    BY <1>0, <1>25, <2>1 DEF Lookup, ClientInv, TypeOK, Goroutines, proxyVars, registryVars
  <2>6. ClosingInv'
    BY <1>0, <1>25, <2>1 DEF Lookup, ClosingInv, TypeOK, SessionInv, ClientInv, Of, Goroutines, Closing,
         proxyVars, registryVars
  <2>7. HandshakesStall'
    BY <1>0, <1>25, <2>1 DEF Lookup, HandshakesStall, ClientInv, TypeOK, Goroutines, proxyVars, registryVars
  <2> QED
    BY <2>2, <2>3, <2>4, <2>5, <2>6, <2>7, <2>8, <2>9 DEF IInv
<1>26. ASSUME NEW c \in Clients, Dial(c) PROVE IInv'
  <2>1. ses' = ses
    BY <1>0, <1>26 DEF Dial, registryVars
  <2>2. TypeOK'
    <3>1. pc' \in [Goroutines -> Places]
      BY <1>0, <1>26 DEF Dial, TypeOK, Goto, End, Places, Serving, Goroutines
    <3>2. cli' \in [Clients -> {"idle", "dial", "ack", "sent", "failed"}]
      BY <1>0, <1>26 DEF Dial, TypeOK, End
    <3> QED
      BY <1>0, <1>26, <2>1, <3>1, <3>2 DEF Dial, TypeOK, registryVars
  <2>3. SessionInv' /\ ServiceInv'
    BY <1>0, <1>26, <2>1 DEF Dial, SessionInv, ServiceInv, registryVars
  <2>8. ListingInv'
    BY <1>0, <1>26, <2>1, ListingKept DEF Dial, Listens, clientVars, registryVars
  <2>9. OneInv'
    BY <1>0, <1>26, <2>1, OneKept DEF Dial, clientVars, registryVars
  <2>4. ListenInv'
    <3>1. /\ \A n \in Sessions : pc'[n] = pc[n]
          /\ UNCHANGED <<wan, via>>
      BY <1>0, <1>26, ReverseProxyAssumption DEF Dial, TypeOK, Goto, End, Goroutines, registryVars
    <3> QED
      BY <1>0, <2>1, <3>1 DEF ListenInv, Listens
  <2>5. ClientInv'
    BY <1>0, <1>26, <2>1 DEF Dial, ClientInv, TypeOK, Goto, End, Goroutines, registryVars
  <2>6. ClosingInv'
    BY <1>0, <1>26, <2>1 DEF Dial, ClosingInv, TypeOK, SessionInv, ClientInv, Of, Goto, End, Goroutines,
         Closing, registryVars
  <2>7. HandshakesStall'
    BY <1>0, <1>26, <2>1 DEF Dial, HandshakesStall, ClientInv, TypeOK, Goto, End, Goroutines, registryVars
  <2> QED
    BY <2>2, <2>3, <2>4, <2>5, <2>6, <2>7, <2>8, <2>9 DEF IInv
<1>27. ASSUME NEW g \in Goroutines, CloseRev(g) PROVE IInv'
  <2>1. CASE Panic
    BY <1>27, <2>1, PanicIInv DEF CloseRev
  <2>2. CASE ~Panic
    <3>1. pc[g] = "revDo" /\ Of(g) \in Sessions /\ ses[Of(g)].cmd = "lost"
      BY <1>0, <1>27, OfSession DEF CloseRev, ClosingInv, Closing
    <3>2. /\ ses' = [ses EXCEPT ![Of(g)].rev = "closed"] /\ pc' = [pc EXCEPT ![g] = AfterRev(g)]
          /\ UNCHANGED <<svc, cli, via, wan, dels, displaced>>
      BY <1>27, <2>2 DEF CloseRev, Goto
    <3>3. /\ ses' \in [Sessions -> Session]
          /\ \A n \in Sessions : /\ ses'[n].cmd = ses[n].cmd /\ ses'[n].handler = ses[n].handler
                                /\ ses'[n].prox = ses[n].prox
      <4> PICK q \in Session : q = ses[Of(g)]
        BY <1>0, <3>1 DEF TypeOK
      <4> DEFINE r == [q EXCEPT !.rev = "closed"]
      <4>1. ses' = [ses EXCEPT ![Of(g)] = r]
        BY <1>0, <3>1, <3>2 DEF TypeOK
      <4>2. r \in Session
        BY DEF Session
      <4>3. r.cmd = q.cmd /\ r.handler = q.handler /\ r.prox = q.prox
        BY DEF Session
      <4> HIDE DEF r
      <4> QED
        BY <1>0, <3>1, <4>1, <4>2, <4>3, SesPut DEF TypeOK
    <3>4. AfterRev(g) \in Closing \cup {"missed"} /\ pc[g] \in Closing
      BY <3>1 DEF AfterRev, Closing
    <3> QED
      BY <1>0, <3>1, <3>2, <3>3, <3>4, ClosesOn
  <2> QED
    BY <2>1, <2>2
<1>28. ASSUME NEW g \in Goroutines, CloseProxTest(g) PROVE IInv'
  <2>1. CASE Panic
    BY <1>28, <2>1, PanicIInv DEF CloseProxTest
  <2>2. CASE ~Panic
    <3>1. pc[g] = "proxTest" /\ Of(g) \in Sessions /\ ses[Of(g)].cmd = "lost"
      BY <1>0, <1>28, OfSession DEF CloseProxTest, ClosingInv, Closing
    <3>2. UNCHANGED <<ses, svc, via, wan, dels, displaced>>
      BY <1>28, <2>2 DEF CloseProxTest
    <3>3. CASE pc' = [pc EXCEPT ![g] = "missed"] /\ cli' = cli
      BY <1>0, <3>1, <3>2, <3>3, ClosesOn DEF TypeOK, Closing
    <3>4. CASE pc' = [pc EXCEPT ![g] = "proxDo"] /\ cli' = cli
      BY <1>0, <3>1, <3>2, <3>4, ClosesOn DEF TypeOK, Closing
    <3>5. CASE End(g)
      <4>1. pc[g] \in Closing /\ dels' = dels /\ ses' \in [Sessions -> Session]
        BY <1>0, <3>1, <3>2 DEF TypeOK, Closing
      <4> QED
        BY <3>1, <3>2, <3>5, <4>1, Ends
    <3> QED
      BY <1>28, <2>2, <3>3, <3>4, <3>5 DEF CloseProxTest, Goto
  <2> QED
    BY <2>1, <2>2
<1>29. ASSUME NEW g \in Goroutines, CloseProx(g) PROVE IInv'
  <2>1. CASE Panic
    BY <1>29, <2>1, PanicIInv DEF CloseProx
  <2>2. CASE ~Panic
    <3>1. pc[g] = "proxDo" /\ Of(g) \in Sessions /\ ses[Of(g)].cmd = "lost"
      BY <1>0, <1>29, OfSession DEF CloseProx, ClosingInv, Closing
    <3>2. /\ ses' = [ses EXCEPT ![Of(g)].prox = "closed"] /\ End(g)
          /\ dels' = dels \cup {Of(g)}
          /\ UNCHANGED <<svc, via, wan, displaced>>
      BY <1>29, <2>2 DEF CloseProx
    <3>3. /\ ses' \in [Sessions -> Session]
          /\ \A n \in Sessions : /\ ses'[n].cmd = ses[n].cmd /\ ses'[n].handler = ses[n].handler
                                /\ ses'[n].prox = IF n = Of(g) THEN "closed" ELSE ses[n].prox
      <4> PICK q \in Session : q = ses[Of(g)]
        BY <1>0, <3>1 DEF TypeOK
      <4> DEFINE r == [q EXCEPT !.prox = "closed"]
      <4>1. ses' = [ses EXCEPT ![Of(g)] = r]
        BY <1>0, <3>1, <3>2 DEF TypeOK
      <4>2. r \in Session
        BY DEF Session
      <4>3. r.cmd = q.cmd /\ r.handler = q.handler /\ r.prox = "closed"
        BY DEF Session
      <4> HIDE DEF r
      <4> QED
        BY <1>0, <3>1, <4>1, <4>2, <4>3, SesPut DEF TypeOK
    <3>4. ses'[Of(g)].prox = "closed"
      BY <3>1, <3>3
    <3>5. pc[g] \in Closing
      BY <3>1 DEF Closing
    <3> QED
      BY <3>1, <3>2, <3>3, <3>4, <3>5, Ends
  <2> QED
    BY <2>1, <2>2
<1>31. ASSUME NEW c \in Clients, HandshakeFails(c) PROVE IInv'
  <2>1. ses' = ses
    BY <1>31 DEF HandshakeFails
  <2>2. TypeOK'
    <3>1. pc' \in [Goroutines -> Places] /\ cli' \in [Clients -> {"idle", "dial", "ack", "sent", "failed"}]
      BY <1>0, <1>31 DEF HandshakeFails, TypeOK, Goto, End, Places, Goroutines
    <3> QED
      BY <1>0, <1>31, <2>1, <3>1 DEF HandshakeFails, TypeOK, registryVars
  <2>3. SessionInv' /\ ServiceInv'
    BY <1>0, <1>31, <2>1 DEF HandshakeFails, SessionInv, ServiceInv, registryVars
  <2>4. ListenInv'
    BY <1>0, <1>31, <2>1 DEF HandshakeFails, ListenInv, Listens, TypeOK, SessionInv, Goto, End, Goroutines,
         Sessions, registryVars
  <2>5. ClientInv'
    BY <1>0, <1>31, <2>1 DEF HandshakeFails, ClientInv, TypeOK, Goto, End, Goroutines, registryVars
  <2>6. ClosingInv'
    BY <1>0, <1>31, <2>1 DEF HandshakeFails, ClosingInv, TypeOK, SessionInv, ClientInv, Of, Goto, End,
         Goroutines, Closing, registryVars
  <2>7. HandshakesStall'
    BY <1>0, <1>31, <2>1 DEF HandshakeFails, HandshakesStall, ClientInv, TypeOK, Goto, End, Goroutines,
         registryVars
  <2>8. ListingInv'
    BY <1>0, <1>31, <2>1, ListingKept DEF HandshakeFails, Listens, registryVars
  <2>9. OneInv'
    BY <1>0, <1>31, <2>1, OneKept DEF HandshakeFails, registryVars
  <2> QED
    BY <2>2, <2>3, <2>4, <2>5, <2>6, <2>7, <2>8, <2>9 DEF IInv
<1>30. CASE UNCHANGED vars
  BY <1>0, <1>30 DEF IInv, vars, proxyVars, clientVars, registryVars, TypeOK, SessionInv, ServiceInv,
       ListenInv, Listens, ClientInv, ClosingInv, Of, OneInv, ListingInv, HandshakesStall
<1> QED
  BY <1>1, <1>2, <1>3, <1>4, <1>5, <1>6, <1>7, <1>8, <1>9, <1>10, <1>11, <1>12, <1>13, <1>14, <1>15,
       <1>16, <1>17, <1>18, <1>19, <1>20, <1>21, <1>22, <1>23, <1>24, <1>25, <1>26, <1>27, <1>28, <1>29,
       <1>30, <1>31 DEF Next, service, Handle, Proxy

(* So it always holds. *)
LEMMA SpecIInv == Spec => []IInv
  BY InitIInv, NextIInv, PTL DEF Spec

(* No client of a proxied service is ever joined to it, with any number of clients
   and sessions: the client of a marked listing waits for the ack, its handler for
   the client's marker, and a reverse connection for a marker that nobody sends. *)
THEOREM SpecHandshakesStall == Spec => []HandshakesStall
<1>1. IInv => HandshakesStall
  BY DEF IInv
<1> QED
  BY <1>1, SpecIInv, PTL

(* A service with a working session is listed in the WAN, unless another session,
   which has lost its command connection, replaced or deleted that very listing:
   whatever the order in which old and new sessions register, fail, lose their
   connections and delete listings, and whenever the proxy panics.          *)
THEOREM SpecListedWhileServed == Spec => []ListedWhileServed
<1>1. IInv => ListedWhileServed
  <2> SUFFICES ASSUME IInv, svc.at \in {"recv", "dial"}, ~svc.closed, ses[svc.current].cmd = "open",
                      wan # svc.current
               PROVE  \E s \in displaced[svc.current] : ses[s].cmd = "lost"
    BY DEF ListedWhileServed
  <2>1. svc.current \in Sessions /\ ses[svc.current].handler = "ok"
    BY DEF IInv, TypeOK, Service, ServiceInv, Sessions
  <2>2. ses[svc.current].prox # "closed"
    BY <2>1 DEF IInv, ClosingInv
  <2>3. PICK d \in displaced[svc.current] : TRUE
    BY <2>1, <2>2 DEF IInv, ListingInv
  <2>4. d # svc.current /\ d # 0 /\ Listens(d)
    BY <2>1 DEF IInv, ListingInv
  <2>5. d \in Sessions
    <3>1. d \in 0..MaxSessions
      BY <2>1 DEF IInv, TypeOK
    <3> QED
      BY <2>4, <3>1, ReverseProxyAssumption DEF Sessions
  <2>6. ~(d > svc.used)
    BY <2>4, <2>5 DEF IInv, SessionInv, Listens
  <2>7. ses[d].cmd # "open" /\ ses[d].cmd # "none"
    BY <2>4, <2>5, <2>6 DEF IInv, OneInv
  <2>8. ses[d].cmd = "lost"
    BY <2>5, <2>7 DEF IInv, TypeOK, Session
  <2> QED
    BY <2>8
<1> QED
  BY <1>1, SpecIInv, PTL

=============================================================================
