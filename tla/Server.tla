------------------------------- MODULE Server -------------------------------
(***************************************************************************)
(* The life of a Server (server.go): init and publish start its parts (the *)
(* message queue, the transports, the registries) and put each one on      *)
(* s.closers; Serve waits for an event on errRecovers, a channel of        *)
(* capacity 1, and then closes the parts; Close, CloseWait and the signal  *)
(* cleaner (adaptiveservice.go 274-316) send that event.                   *)
(*                                                                         *)
(* Handlers of the reverse proxy service (reverseproxy_svc.go 17-102) run  *)
(* on the workers of the message queue and start two more transports each, *)
(* calling s.addCloser without a lock.                                     *)
(*                                                                         *)
(* The goroutine that publishes and serves is called Main.  A part is a    *)
(* value: "mq" or a member of a sequence given by a constant.              *)
(***************************************************************************)
EXTENDS Naturals, Sequences, Functions

CONSTANTS
    Builtins,       \* parts init starts after the message queue, in order
    Published,      \* parts one Publish call starts, in order
    Callers,        \* goroutines that close the server
    Kind,           \* [Callers -> {"Close", "CloseWait", "signal"}]
    Handlers,       \* reverse proxy handlers that run during the server's life
    LateParts,      \* [Handlers -> sequence of parts the handler starts]
    MayFail         \* whether starting a part may fail

Main == "main"
Parts == {"mq"} \cup Range(Builtins) \cup Range(Published)
           \cup UNION {Range(LateParts[h]) : h \in Handlers}

ASSUME ServerAssumption ==
    /\ Kind \in [Callers -> {"Close", "CloseWait", "signal"}]
    /\ Main \notin Callers \cup Handlers
    /\ Builtins \in Seq(Parts) /\ Published \in Seq(Parts)
    /\ LateParts \in [Handlers -> Seq(Parts)]
    /\ "mq" \notin Range(Builtins) \cup Range(Published)
    /\ \A h \in Handlers : "mq" \notin Range(LateParts[h])
    /\ MayFail \in BOOLEAN

VARIABLES
    initialized,    \* s.initialized
    closers,        \* s.closers (the empty sequence is nil)
    open,           \* parts that are running
    errs,           \* s.errRecovers
    closed,         \* whether close(s.closed) was executed
    pc,             \* control state of Main and of the handlers
    todo,           \* parts Main or a handler has still to start
    seen,           \* s.closers as an append in progress has read it
    ranged,         \* what is left of the slice doClose ranges over
    call,           \* the call Main starts parts for: "publish" or "Serve"
    cpc,            \* control state of each caller
    raced           \* history: parts that unsynchronised appends kept off the list

vars == <<initialized, closers, open, errs, closed, pc, todo, seen, ranged, call, cpc, raced>>

ErrCap == 1
Starters == {Main} \cup Handlers

TypeOK ==
    /\ initialized \in BOOLEAN /\ closed \in BOOLEAN
    /\ closers \in Seq(Parts) /\ ranged \in Seq(Parts)
    /\ open \subseteq Parts /\ raced \subseteq Parts
    /\ errs \in Seq({"noError", "unrecoverable"}) /\ Len(errs) <= ErrCap
    /\ pc \in [Starters -> {"user", "start", "append", "serve", "closing", "end"}]
    /\ todo \in [Starters -> Seq(Parts)]
    /\ seen \in [Starters -> Seq(Parts)]
    /\ call \in {"publish", "Serve"}
    /\ cpc \in [Callers -> {"idle", "send", "wait", "ret"}]

Init ==
    /\ initialized = FALSE /\ closers = <<>> /\ open = {} /\ errs = <<>>
    /\ closed = FALSE
    /\ pc = [p \in Starters |-> "user"]
    /\ todo = [p \in Starters |-> IF p = Main THEN <<>> ELSE LateParts[p]]
    /\ seen = [p \in Starters |-> <<>>]
    /\ ranged = <<>> /\ call = "publish" /\ raced = {}
    /\ cpc = [c \in Callers |-> "idle"]

-----------------------------------------------------------------------------
(* init: the flag is set first, the message queue is made and put on       *)
(* closers, and the built-in services the configuration asks for follow,   *)
(* each of which may fail and end init with its error.                     *)
initServer(rest) ==
    /\ initialized' = TRUE
    /\ open' = open \cup {"mq"}
    /\ closers' = Append(closers, "mq")
    /\ todo' = [todo EXCEPT ![Main] = Builtins \o rest]

(* publish, called by Publish and PublishIn: init if nobody did, then the  *)
(* service's transports.  The program publishes the service once.          *)
publish ==
    /\ pc[Main] = "user" /\ Range(Published) \cap open = {}
    /\ \/ ~initialized /\ initServer(Published)
       \/ /\ initialized
          /\ todo' = [todo EXCEPT ![Main] = Published]
          /\ UNCHANGED <<initialized, open, closers>>
    /\ pc' = [pc EXCEPT ![Main] = "start"]
    /\ call' = "publish"
    /\ UNCHANGED <<errs, closed, seen, ranged, cpc, raced>>

(* A part starts (it listens from now on); a failure is returned to the    *)
(* caller, and the parts that were started before it stay as they are.     *)
StartPart(p) ==
    /\ pc[p] = "start" /\ todo[p] # <<>>
    /\ open' = open \cup {Head(todo[p])}
    /\ pc' = [pc EXCEPT ![p] = "append"]
    /\ seen' = [seen EXCEPT ![p] = closers]
    /\ UNCHANGED <<initialized, closers, errs, closed, todo, ranged, call, cpc, raced>>

StartFails(p) ==
    /\ MayFail
    /\ pc[p] = "start" /\ todo[p] # <<>>
    /\ pc' = [pc EXCEPT ![p] = IF p = Main THEN "user" ELSE "end"]
    /\ todo' = [todo EXCEPT ![p] = <<>>]
    /\ UNCHANGED <<initialized, closers, open, errs, closed, seen, ranged, call, cpc, raced>>

\* A mutation: addCloser forgets what was on the list.
addCloserReplaces(p) == <<Head(todo[p])>>

(* s.closers = append(s.closers, closer): the read was in StartPart.       *)
addCloser(p) == Append(seen[p], Head(todo[p]))

(* What addCloser does without a lock: the parts others put on the list    *)
(* since the read are gone; and when doClose has evaluated the list, the   *)
(* part itself comes too late.                                             *)
Lost(p) == IF pc[Main] = "closing" THEN {Head(todo[p])} ELSE Range(closers) \ Range(seen[p])

AppendPart(p) ==
    /\ pc[p] = "append"
    /\ closers' = addCloser(p)
    /\ todo' = [todo EXCEPT ![p] = Tail(@)]
    /\ seen' = [seen EXCEPT ![p] = <<>>]
    /\ pc' = [pc EXCEPT ![p] = "start"]
    /\ raced' = raced \cup Lost(p)
    /\ UNCHANGED <<initialized, open, errs, closed, ranged, call, cpc>>

Started(p) ==
    /\ pc[p] = "start" /\ todo[p] = <<>>
    /\ pc' = [pc EXCEPT ![p] = IF p # Main THEN "end"
                               ELSE IF call = "Serve" THEN "serve" ELSE "user"]
    /\ UNCHANGED <<initialized, closers, open, errs, closed, todo, seen, ranged, call, cpc, raced>>

(* A worker of the message queue takes a registration message: it does so  *)
(* until mq.close() has returned.                                          *)
HandlerStart(h) ==
    /\ pc[h] = "user"
    /\ "mq" \in open /\ Range(Builtins) \cap open # {}
    /\ pc' = [pc EXCEPT ![h] = "start"]
    /\ UNCHANGED <<initialized, closers, open, errs, closed, todo, seen, ranged, call, cpc, raced>>

-----------------------------------------------------------------------------
(* Serve: a server nothing was published on is initialised here.           *)
ServeInit ==
    /\ pc[Main] = "user" /\ ~initialized
    /\ initServer(<<>>)
    /\ pc' = [pc EXCEPT ![Main] = "start"]
    /\ call' = "Serve"
    /\ UNCHANGED <<errs, closed, seen, ranged, cpc, raced>>

Serve ==
    /\ pc[Main] = "user" /\ initialized
    /\ pc' = [pc EXCEPT ![Main] = "serve"]
    /\ UNCHANGED <<initialized, closers, open, errs, closed, todo, seen, ranged, call, cpc, raced>>

(* The loop over errRecovers ends with the first event: noError breaks, an *)
(* unrecoverable error returns; the deferred doClose evaluates the slice   *)
(* it ranges over.                                                         *)
ServeEvent ==
    /\ pc[Main] = "serve" /\ errs # <<>>
    /\ errs' = Tail(errs)
    /\ pc' = [pc EXCEPT ![Main] = "closing"]
    /\ ranged' = closers
    /\ UNCHANGED <<initialized, closers, open, closed, todo, seen, call, cpc, raced>>

(* closer.close() of one part; the message queue's waits until its workers *)
(* have left their handlers.                                               *)
ClosePart ==
    /\ pc[Main] = "closing" /\ ranged # <<>>
    /\ Head(ranged) = "mq" => \A h \in Handlers : pc[h] \in {"user", "end"}
    /\ open' = open \ {Head(ranged)}
    /\ ranged' = Tail(ranged)
    /\ UNCHANGED <<initialized, closers, errs, closed, pc, todo, seen, call, cpc, raced>>

\* A mutation: doClose returns without closing s.closed.
doCloseEndSilent ==
    /\ pc[Main] = "closing" /\ ranged = <<>>
    /\ closers' = <<>>
    /\ pc' = [pc EXCEPT ![Main] = "end"]
    /\ UNCHANGED <<initialized, open, errs, closed, todo, seen, ranged, call, cpc, raced>>

doCloseEnd ==
    /\ pc[Main] = "closing" /\ ranged = <<>>
    /\ closers' = <<>>
    /\ closed' = TRUE
    /\ pc' = [pc EXCEPT ![Main] = "end"]
    /\ UNCHANGED <<initialized, open, errs, todo, seen, ranged, call, cpc, raced>>

-----------------------------------------------------------------------------
(* Close, CloseWait and close: nothing is sent when closers is nil.        *)
(* CloseWait waits for s.closed all the same.                              *)
AfterClose(c) == IF Kind[c] = "CloseWait" THEN "wait" ELSE "ret"

CallClose(c) ==
    /\ cpc[c] = "idle"
    /\ Kind[c] = "signal" => initialized
    /\ cpc' = [cpc EXCEPT ![c] = IF closers = <<>> THEN AfterClose(c) ELSE "send"]
    /\ UNCHANGED <<initialized, closers, open, errs, closed, pc, todo, seen, ranged, call, raced>>

(* The send waits for room in the channel.                                 *)
SendEvent(c) ==
    /\ cpc[c] = "send" /\ Len(errs) < ErrCap
    /\ errs' = Append(errs, IF Kind[c] = "signal" THEN "unrecoverable" ELSE "noError")
    /\ cpc' = [cpc EXCEPT ![c] = AfterClose(c)]
    /\ UNCHANGED <<initialized, closers, open, closed, pc, todo, seen, ranged, call, raced>>

Wait(c) ==
    /\ cpc[c] = "wait" /\ closed
    /\ cpc' = [cpc EXCEPT ![c] = "ret"]
    /\ UNCHANGED <<initialized, closers, open, errs, closed, pc, todo, seen, ranged, call, raced>>

-----------------------------------------------------------------------------
Starting(p) == StartPart(p) \/ StartFails(p) \/ AppendPart(p) \/ Started(p)

Next ==
    \/ publish \/ ServeInit \/ Serve \/ ServeEvent \/ ClosePart \/ doCloseEnd
    \/ \E p \in Starters : Starting(p)
    \/ \E h \in Handlers : HandlerStart(h)
    \/ \E c \in Callers : CallClose(c) \/ SendEvent(c) \/ Wait(c)

(* Goroutines run when they can, and a program that publishes does serve.  *)
(* Nobody has to close, and no peer has to register with the proxy.        *)
Fairness ==
    /\ WF_vars(ServeInit) /\ SF_vars(Serve) /\ WF_vars(ServeEvent)
    /\ WF_vars(ClosePart) /\ WF_vars(doCloseEnd)
    /\ \A p \in Starters : WF_vars(Starting(p))
    /\ \A c \in Callers : SF_vars(SendEvent(c)) /\ WF_vars(Wait(c))

Spec == Init /\ [][Next]_vars
FairSpec == Spec /\ Fairness

-----------------------------------------------------------------------------
(* "CloseWait triggers the close procedure and waits until the server is   *)
(* fully closed." (server.go 426-427): when a CloseWait has returned, the  *)
(* only parts still running are transports whose addCloser met another     *)
(* append or doClose itself, however starting, failing and closing         *)
(* interleaved.                                                            *)
CloseWaitMeansClosed ==
    \A c \in Callers : Kind[c] = "CloseWait" /\ cpc[c] = "ret" => open \subseteq raced

(* The event of a closing call has been sent.                              *)
Closing == errs # <<>> \/ pc[Main] \in {"closing", "end"}

(* A closing call that finds the server initialised closes it, with any    *)
(* number of other closing calls and reverse proxy handlers under way, and *)
(* then every CloseWait returns, also the one that came too early to send  *)
(* an event.                                                               *)
CloseTakesEffect ==
    \A c \in Callers : /\ cpc[c] = "send" ~> closed
                       /\ (Closing /\ cpc[c] = "wait") ~> cpc[c] = "ret"
=============================================================================
