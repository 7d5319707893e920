# adaptiveservice: TLA+ models, checks and proofs

`adaptiveservice` is a Go library for message-oriented services: a server
publishes services, a client discovers them by name (from its own process to
the WAN) and exchanges messages with them over multiplexed streams; known
messages are handled by an auto-scaled worker pool. This directory holds TLA+
models of its concurrent core, the TLC runs that check them on small instances,
and TLAPS proofs of the most important results for instances of every size.
`PROJECT.json` lists the same material in machine-readable form: which lines
each definition models, which mutation of the model each property detects, and
the hazards the properties are for.

## 1. Inventory

| Component | State | Operations | What is hard | What makes it correct |
|---|---|---|---|---|
| Message queue (`scalamsgq.go`) | three ingress channels and an egress channel, the last three made on demand; reorder's counters | `putMetaMsg`, `initChan`, `reorder`, `worker`, `autoScaler`, `close` | the queue changes mode while goroutines wait on the channels of the old one; counts read before they are used | nothing lost or duplicated, order within a priority, low yields, everything handled |
| Worker pool (`workerpool.go`) | slots, three counters, wait group | `addWorker`, `rmWorker`, `close`, a worker's exit, `autoScaler`'s reads | counters updated one at a time by many goroutines, `done` variables set to nil under a starting worker | counters consistent, close leaves no worker and returns, the pool follows its target |
| Stream transport (`streamtransport*.go`) | per stream channels, the server's stream map, shared encoders, the socket | `Send`, `Recv`, `SendRecv`, both receivers, `Close` on either side | one receiver for all streams, concurrent replies, late replies, ends of either side | replies whole, each call its own reply, calls return |
| Channel transport (`chantransport*.go`, `chanRegistry`) | handshake, per connection channel and goroutine, private channels | lookup, accept, `Send`, `Recv`, `Close`, dispatch, handlers | close behind queued messages, private channels at their limit | order, own answer, everything sent is dispatched, both sides end |
| Server (`server.go`, the signal cleaner of `adaptiveservice.go`) | `closers`, `errRecovers` (capacity 1), `closed` | `init`, `publish`, `Serve`, `Close`, `CloseWait`, `doClose` | closing before, during and after start, unlocked `addCloser` from handlers | a returned `CloseWait` means closed, closing takes effect |
| Root registry (`registry.go` 654-965) | provider map with time stamps, record file | register, delete, check and save, restart | pings without a lock, one-way deletes, crash between two writes | live providers stay, dead ones go |
| LAN registry (`registry.go` 342-652, `lanregistry_svc.go`) | local table, cache, 15 s memory, record file, per node | register, delete, query, packets, ticker, stop, restart | lossy broadcasts, three levels of caching | local services kept, queries answered, services found and forgotten |
| Discovery (`client.go`) | marked keys, rounds left, connections, cached registry address | the search over five scopes | providers that come, go and restart while the search is under way | nearest first, nobody twice, not too many, finds and ends |
| Message tracing (`messagetracing.go`, `messagetracing_svc.go`) | sequence numbers per message type; sessions in an LRU list and a lookup table | `TraceMsgBy*`, `getTracingID`, record handlers, readers | test and use of a number apart, four critical sections per record | IDs unique, numbers bounded, both indexes agree, a record is read once |
| Wildcard matching (`adaptiveservice.go` 373-420) | none | `WildcardMatch` | greedy without backtracking, overlap of prefix and suffix | agrees with the definition |
| Delivery of trace records (`messagetracing.go` 339-473) | bounded buffer, one undelivered record, failure count, connection | `traceMsg`, `run`, `deliver`, giving up | a failed send is retried over another connection; closed and the buffer are tested apart from the send | accepted records arrive in order and once |
| Reverse proxy (`reverseproxy_svc.go`, `streamtransportserver.go` 61-160, 300-393, `stream.go` 91-123) | per session two listeners, the pairing channel, the command connection; the listing in the WAN | register, watch, accept, pair; on the service's side connect, receive ports, dial, reconnect | a channel set to nil while other goroutines use it, a close that is not atomic, three parties that wait for each other | a lost session is released, a working one is listed, clients are joined to the service |
| Small built-in services, contexts, options, interfaces | two cached answers, a locked map, values | one stateless handler each, setters | the own provider ID may be unknown when it is needed | the two answers are in `Discover`, the rest is not modelled |

How they interact: the transports' receivers decode frames and call
`putMetaMsg` (known messages) or fill a stream's private channel (the others);
workers run `Handle()` and reply on the transport the message came from;
`publish` starts transports and registers them with the registries, all of
which end up in `Server.closers`; `Discover` asks the registries and dials the
transports; every `Send` asks `getTracingID`, and traced messages are recorded
through a client of the tracing service.

## 2. Modules

One module per component. `MCx` instantiates module `x` for TLC; `xProofs`
holds the theorems about `x`, `ServerProofs` also those about the pool, and
`RegistryProofs` those about both registries (the specifications of the pool and
of the LAN registry are therefore called `PoolSpec` and `LANSpec`). Definitions keep the names of the code where they
stand for a function (`putMetaMsg`, `rmWorker`, `getTracingID`'s parts, ...).
Definitions with a comment "mutation" or "mutant", or whose name says what they
get wrong, are plausible mistakes in the definition that follows; they are not
part of the specification.

* **MsgQ.** A goroutine is a program counter and the message in its local
  variable (`hold`); a channel is a bounded sequence. What a `select` waits for
  is fixed when it is entered, which is the point of the model: `sel` and `src`
  remember it. Messages are values with a priority. `autoScaler` is here too,
  so that workers come and go, but the pool's bookkeeping is abstracted.
* **Dispatch.** What the queue promises, without channels and goroutines: a
  message is outside, waiting, running or done; a high one starts only after the
  high ones accepted before it, a low one only after everything accepted before
  it, a normal one at any time (a worker may take it straight from its channel).
  `MsgQ` implements it (`ImplementsDispatch`) under the mapping `DispatchStatus`:
  what a channel or `reorder` holds is waiting, what a worker holds is running,
  and the order of acceptance is that of the receivers' sends.
* **WorkerPool.** The same pool with every access to shared memory a step of
  its own; the queue is reduced to its length. `captured` tells whether a
  worker's goroutine read its `done` variable before or after it became nil.
* **StreamTransport.** One connection. A request stands for its frame, its reply
  and the reply's frame, so encoding is not modelled beyond which buffer holds
  which reply (`encBuf`, the shared main encoder). Each kind of handler (reply,
  EOF, too large, session with a private message, undecodable, close) is a kind
  of request. The messages in between are handed to a worker of their own; the
  queue is `MsgQ`'s subject.
* **ChanTransport.** Connections inside a process with the handshake, the
  goroutine per connection, and a small fixed set of workers behind a queue.
* **Server.** A part (message queue, transport, registry) is a name that is
  started, appended to `closers` and closed. An append is a read and a write,
  since `addCloser` takes no lock.
* **RootRegistry.** An address stands for one incarnation of a server. The
  check-and-save loop takes one step per lock it acquires, ping it makes and
  file operation it performs; the proxied mark is a value that is formatted into
  the address and parsed back. Time is whether a stamp is older than five
  minutes.
* **LANRegistry.** One action per case of the daemon's `select`, a network that
  loses and delays packets, and the three stores (local table, cache, memory of
  answers) with their expiry.
* **Discover.** One call of `Discover` against a world in which instances
  appear, stop and are forgotten by their registries. Names, provider IDs and
  their patterns are short words that the matcher of `Wildcard` is applied to;
  a call names the service, perhaps with wildcards, perhaps provider IDs, and
  knows its own provider ID or does not. A registry is what it lists; selection
  methods are any order of the providers that answer. The rounds come from
  the timeout and the check interval as in `client.go` 311, each search of the own
  directory may fail to get the own ID, and the LAN registry may leave a query
  unanswered. Socket files outside the providers' directories (`registry.go`
  229-234) are none that this code makes, and are left out. Dialling an instance of `Proxied` does not return, as
  `ReverseProxy` shows.
* **Wildcard.** The matcher and a reference definition that shares nothing with
  it: letter by letter of the pattern, the prefixes of the string that match so
  far. The code cuts pieces off the string; the model moves the two ends of what
  is left of it.
* **TraceHelper, Tracing.** `TraceHelper` is the delivery helper of a process:
  the buffer, the goroutine's loop and the connection that may break under it.
  `Tracing` extends it with the tagging of messages of one type and with the
  collecting service, so that a record that the helper delivers is one that the
  service's handlers take up. Records made by other processes on the path of a
  message arrive in any number, since their helpers may drop some. Sessions are
  named after the record that made them.
* **ReverseProxy.** A service behind NAT, the proxy and the clients. A session is
  one command connection with what the proxy's handler makes for it. The
  watcher and the handlers of clients' connections take one step per shared
  variable they access: the two halves of `streamTransport.close`, closing
  `chanServerConn` and setting it to nil, testing it and receiving from it. A
  panic of one of these goroutines ends the proxy's process.

The components are composed through their interfaces: each module has its
neighbours as the weakest environment it needs (for `MsgQ`, receivers that put
messages at any time; for the transports, workers that run when they can; for
`Discover`, registries whose listings may be out of date, as the two registry
modules show they can be; for `ReverseProxy`, a root registry with one listing
per provider). `Tracing` is composed with `TraceHelper` directly, and `Discover`
with `Wildcard`.

## 3. Runs

Deadlock checking is off in every run, since every modelled program may stop: a
server that is closed, a client that has nothing more to send, a call that has
returned. The properties state what must not remain undone when it does.

| Run | Instance | Shows |
|---|---|---|
| `MsgQ_order` | a normal and two low messages, 2 receivers, up to 2 workers that come and go, channels of 2, symmetry | `ExactlyOnce`, `ImplementsDispatch`, `DrainNeverBlocks`, `NothingStrands` |
| `MsgQ_lost` | one high message | `EveryMessageHandled` is violated, see section 4 |
| `WorkerPool_scaled` | 3 workers, 1 resident, 2 messages | `CountersSane`, `ClosedMeansNoWorker`, `CloseReturns`, `QueueDrains`, `PoolFollowsTarget` |
| `StreamTransport_all` | 2 streams, 7 programs, all channels of size 1, receive timeouts on both sides | `RepliesIntact`, `SendRecvGetsItsReply`, `CallsReturn` |
| `ChanTransport_all` | 1 connection, 2 streams, one with a client's and one with a handler's receive timeout, 1 worker, channels of 1 | `InOrder`, `OwnReply`, `SentIsDispatched`, `CallsReturn`, `Disconnects` |
| `Server_all` | 3 closing calls, 1 reverse proxy handler, parts may fail | `CloseWaitMeansClosed`, `CloseTakesEffect` |
| `RootRegistry_all` | 3 incarnations of a provider (one proxied), 2 crashes | `LiveKept`, `DeadForgotten` |
| `LANRegistry_all` | 2 nodes, 2 lost packets, 2 stops, failing broadcasts | `LocalKept`, `QueriesAnswered`, `Discoverable`, `Forgotten` |
| `Discover_all` | 6 instances in 4 scopes, 7 ways of calling with names, provider IDs and wildcards, timeouts of -1, 0 and 1 s and check intervals from 700 to 2000 ms; for the matcher all patterns and strings of up to 5 letters over two letters and the star | `ConnectsAsAsked`, `NearestFirst`, `OncePerService`, `AtMostExpected`, `Found`, `Ends` |
| `Tracing_all` | 2 senders, up to 4 records, 2 readers, room for 2 sessions, 3 records through a buffer of 1 | `TokensUnique`, `SeqNumBounded`, `IndexesAgree`, `ReturnedOnce`, `DeliveredInOrder` |
| `ReverseProxy_all` | 2 sessions, 1 client, listings with and without the proxied mark | `SessionReleased`, `ListedWhileServed` |
| `ReverseProxy_nat` | 1 session, 1 client | `ClientsJoined` is violated, see section 4 |

`MsgQ_order` also checks the module's type invariant. Those of the other modules
(`TypeOK`, with the capacities of the channels) hold on the instances of these
runs as well; the runs leave them out, because they follow from guards that the
other properties depend on.

**Bounds.** Channel capacities of 1 or 2 reach both limits (full and empty) and
every order of two waiting messages. In `MsgQ_order` two low messages next to a
normal one are the least with which two receivers can make the same channel at
once, and order within a priority and against the normal messages can go wrong;
two workers, one of them resident, are the least with which the scaler adds and
removes. High messages go through the same steps in front of the low ones. They
are in the theorems, for any instance, and in larger instances that have been
checked too but take longer (a message of each priority and 2 workers, 1.7
million states; a high, a normal and two low messages and 1 worker, 2.9 million).
The liveness of a queue of this size is out of TLC's reach: `NothingStrands` says
instead, in every state, that somebody can go on. The pool needs three workers: a resident
one that blocks, one being added and one being removed. `ChanTransport` lets a
stream (`s1`) send as many stray messages as overfill its private channel; one
such stream is enough to stop the connection of both. The other (`s2`) sends two
requests, so that the answer to the first, after a timeout, meets the second. One
worker is enough for late answers to hold every worker (`Stalled`), which with
two would take more requests; the safety properties are proved for any number,
and the run with two workers passes as well.
`ReverseProxy` needs two sessions, since what can go wrong is an old one
interfering with its successor; a second client adds handlers that
interleave with the watcher in the same way as the first. In `ReverseProxy_nat`
one session suffices for the client to wait.
`RootRegistry` has three incarnations so that a deletion, a check and a
registration of different incarnations are pending at once; a larger instance
with a second key, of 1.6 million states, has been checked too. `Discover` has a
provider listed in two networks and a service seen in two scopes of the own
host and in the LAN; `Vanishing` instances stop. The bounds of `Tracing` are chosen per
behaviour (`Bounds`): racing senders and callers without records, racing senders
with records, more IDs than the service has room for, and records that go
through the helper, three of them so that one is kept for a retry while one is
buffered and one is dropped or waits. Counters that only
limit the run (`MaxMsgs`, `MaxSends`, `MaxCrashes`, `MaxLost`, `MaxStops`,
`MaxSessions`, `Bounds`) appear in guards only.

**Fairness.** Weak fairness of a goroutine's next step is Go's scheduler: a
goroutine that can run does. Strong fairness is used only where a channel
operation competes with others for the same slot (sends into a channel that is
repeatedly full, workers that take from one queue): Go's channels serve waiting
goroutines first come, first served. Nothing obliges a program to close, a peer
to die, a timeout to fire or `Handle()` to return (in `WorkerPool` a handler may
block for ever); `StreamTransport` and `ChanTransport` take their handlers to
return, since what a call waits for is the handler. In the LAN registry, timers
fire, packets that are not lost arrive, and clients ask again and again;
`PromptNet` says that an answer arrives within the 100 ms the daemon waits for
it. In `ReverseProxy` the goroutines run on, deletions that were sent arrive or
are lost, and the root registry goes on checking its listings; nobody has to
connect, to close or to lose a connection. In the root registry, a registry that stopped need not be started again.

## 4. What the code does not promise

Some properties hold with exceptions that are part of their statement. Each
exception is needed, that is, TLC finds a violation without it:

* **`MsgQ_lost`** (the first finding of `PROJECT.json`). A worker evaluates
  `getEgressChan()` once per `select` (`scalamsgq.go:104`). When the first
  prioritised message makes the egress channel, the workers that wait already
  keep waiting on the normal channel. If no normal message comes, the
  prioritised message stays in the egress channel. `NothingStrands` says that
  this is the only way: after the switch (`Settled`), the goroutines never all
  wait with a message among them.
* **WorkerPool.** `autoScaler` tests `mq.done` before it adds a worker, so one
  worker may be added after `close()` went through the slots: the wait for it
  may not end, or it outlives `close()`. A worker whose goroutine first runs
  after its `done` variable was set to nil (`workerpool.go:66`) never stops
  (`Deaf`). `ClosedMeansNoWorker`, `CloseReturns` and `PoolFollowsTarget` name
  these cases.
* **StreamTransport.** A reply left unread (after a timeout, or to a one-way
  message whose handler replies) is taken for the reply to the next `SendRecv`
  of that stream; a full or nil (after EOF) channel of one stream stops the
  client's receiver and with it every stream of the connection (`HeadOfLine`).
  Private messages that no handler receives stop the server's receiver in the
  same way until the client closes the connection (`Stray`). A call whose handler
  returns nil or a reply that is too large, which `streamtransportserver.go` 196-198
  refuses with an error that the worker drops (`scalamsgq.go:120`), waits until the
  client closes (`Unanswered`).
* **ChanTransport.** Messages that no handler receives fill the private channel
  and stop the connection's goroutine, which then never sees the close
  (`Blocked`). A `Recv` does not wait for the end of the connection: when another
  goroutine closes it, the call may never return, and a `Send` under way may
  panic on the channel that the server's goroutine closes. What was sent before
  is dispatched all the same. After `ErrRecvTimeout` the late answer is taken by
  the stream's next call, and what comes after a handler's `Recv` has given up by
  its next handler (`OwnReply`); late answers that nobody reads hold the workers
  that send them, in the end all of them (`Stalled`).
* **Server.** Transports that a reverse proxy handler adds after `doClose` has
  read the list are not closed, and of two appends at the same time one is lost,
  with what it had added (`raced`); `CloseWaitMeansClosed` says that no other part
  stays open, handlers or not. A third concurrent closing call blocks in its
  send, and a `CloseWait` before `init` triggers nothing; `CloseTakesEffect`
  therefore promises that the server closes and that waiting calls return, once
  one event was sent.
* **Registries.** Deletes name the provider, not the incarnation: a late delete
  of an earlier server removes a newly registered one (`Rivals` in `LiveKept`,
  and the exception of `LocalKept`). A query whose broadcast fails is never
  answered. In both models the ping of an address where a server listens
  succeeds, and in `RootRegistry` a provider has one live server per service at a
  time; with two of them, or with a ping that fails in passing, the code drops a
  live listing, which these properties do not speak of.
* **Discover.** A key that was refused once is not dialled again by the same
  `Discover`; an address of the root registry that could not be found stays
  `"NA"` in the client; a service of the own process that stops between lookup
  and handshake, a dial through a reverse proxy, and a query that the LAN registry
  does not answer block the search for ever (`Reachable`, `Stuck`). When
  `GetSelfProviderID` fails, nothing of the own socket directory is found in that
  round, and a farther instance is connected (`Missed`). The number of rounds is
  a division that drops the fraction (`Rounds`): the default timeout of -1 s,
  "wait forever" (`client_options.go` 45), is 0 rounds when `SetCheckInterval` was
  given more than 1000 ms, and `Discover` gives up after one; `Found` is about
  intervals that are not longer than the timeout. The own provider's service can be connected a second
  time when it is found by ID in the socket directory, or in the network while
  the client does not know its own ID (`OncePerService`); and without knowing
  it, the client takes the services of its own process whatever providers it was
  asked for (`ConnectsAsAsked`).
* **ReverseProxy.** `adaptiveservice.go` 41-43 says that services behind NAT "can
  be auto proxied by the builtin reverseProxy". In the code at this commit the
  three parties wait for each other: the client of a listing with the proxied
  mark sends its marker only after the proxy's acknowledgement
  (`streamtransportclient.go` 48-52), the proxy asks the service for a connection
  only after the client's marker (`streamtransportserver.go` 376), and the
  service dials without sending a marker, which the proxy's listener waits for.
  So `ClientsJoined`, which states what the documentation says, is violated with
  every party at work (`ReverseProxy_nat`, the second finding of `PROJECT.json`);
  `SpecHandshakesStall` proves that no client is ever joined, for listings without
  the mark too. Further limits that the properties name: a session whose watcher wakes before
  the handler has assigned `proxytran` leaves that listener and its listing
  behind; a handler of a client that evaluates `chanServerConn` after it became
  nil never returns; two goroutines inside `streamTransport.close` at once, or a
  client's handler that calls it on a nil `proxytran`, panic. The deletion at the
  end of an old session removes the listing of the new one, and an old session's
  handler that registers late replaces it: `ListedWhileServed` asks that a session
  which did either to this very listing (`displaced`) has lost its connection, and
  allows nothing else. A service that was closed takes the closed command
  connection for a lost proxy, and registers again.
* **Tracing.** Two overlapping sends can get the same ID (`TokensUnique` allows
  exactly that). Two handlers that both miss an ID make two sessions, one of
  which cannot be found by the ID (`IndexesAgree`). A repeated `TraceMsgByType` with
  a count equal to the number already reached starts nothing, since
  `messagetracing.go:155` compares with `<`. A record is dropped when the buffer
  is full, when the helper has given up, or when the connection broke under a
  send that succeeded locally; `DeliveredInOrder` is about all others.

## 5. Proofs

Eight modules hold theorems, checked by TLAPS for all values of the constants.
They rest on the named `ASSUME`s of the modules they are about, which TLC
evaluates on the instances of the runs, and on the library's facts about finite
sets, sequences and well-founded orders. An inductive invariant was first
checked by TLC on the run's instance, then proved: `Init => IInv`, one lemma per
action, and `IInv` implies the property.

| Module | Theorems (property) |
|---|---|
| `MsgQProofs` | `NoLossNoDuplicate` (`ExactlyOnce`), `DrainsDoNotBlock` (`DrainNeverBlocks`), `TypeCorrect`, `QueueImplementsDispatch` (`ImplementsDispatch`) |
| `ServerProofs` | `SpecCloseWait` (`CloseWaitMeansClosed`), `SpecTypeOK`; of the pool `CountersStaySane` (`CountersSane`), `PoolCloses` (`ClosedMeansNoWorker`), `PoolTypeCorrect` |
| `StreamTransportProofs` | `SpecRepliesIntact` (`RepliesIntact`), `SpecSendRecv` (`SendRecvGetsItsReply`), `SpecTypeOK` |
| `ChanTransportProofs` | `SpecInOrder` (`InOrder`), `SpecOwnReply` (`OwnReply`) |
| `RegistryProofs` | `SpecLiveKept` (`LiveKept`), `SpecLocalKept` (`LocalKept`), `SpecLANTypeOK` |
| `DiscoverProofs` | `SpecOncePerService` (`OncePerService`), `SpecAtMostExpected` (`AtMostExpected`), `SpecNearestFirst` (`NearestFirst`), `SpecConnectsAsAsked` (`ConnectsAsAsked`), `WildcardMatchExact` |
| `TracingProofs` | `SpecTokensUnique` (`TokensUnique`), `SpecSeqNumBounded` (`SeqNumBounded`), `SpecIndexesAgree` (`IndexesAgree`), `SpecReturnedOnce` (`ReturnedOnce`), `SpecDeliveredInOrder` (`DeliveredInOrder`) |
| `ReverseProxyProofs` | `SpecHandshakesStall`, `SpecListedWhileServed` (`ListedWhileServed`) |

* **MsgQProofs.** `SpecIInv` proves `IInv`: the type invariant, what each local
  variable holds at each program point (`HandsInv`), that a channel is empty
  until it is made (`MadeInv`), that the counters are zero outside the drain
  loops (`LeftInv`), and `DrainNeverBlocks`. `MadeInv` is what makes the double
  check in `initChan` safe, and `DrainNeverBlocks` needs `LeftInv` at the point
  where a new round counts. `NoLossNoDuplicate` is a proof of its own: every
  action is a move of one message from one place to another, and `SendMoves`
  and `RecvMoves` show that such a move keeps each message in exactly one place.
  `QueueImplementsDispatch` is the step simulation. It needs `DispatchInv`: a
  message that was accepted is in the flow of its priority (`FlowInv`), and the
  flows are in the order of acceptance (`OrderInv`), through the ingress channel,
  `reorder`'s hands and the egress channel. `reorder`'s own steps stutter; a
  receiver's send accepts, a worker's receive starts, and its return finishes a
  message.
* **ServerProofs, the server.** `CloseWaitMeansClosed` says nothing about how a
  server gets there. `ListedInv` does: what runs and is not in `raced` is on
  `closers`, or is the part whose append is under way; during `doClose` it is in
  what is left of the slice; at the end there is nothing. An append of a handler
  that works on an old copy of the list puts exactly what the current list has
  more into `raced`. `ClosedInv` ties `closed` to the end of `Serve` and the return
  of a `CloseWait` to `closed`.
* **ServerProofs, the pool.** `Accounting` says which program points each counter
  counts: `count`, `idleCount` and the wait group are the cardinalities of three
  sets of workers. `MoveAccounting` proves once that moving a worker and
  changing each counter by what the move adds keeps the accounts; every action
  is an instance. `AddingInv` says that at most one worker is between its slot
  and its goroutine. `CountersStaySane` follows from the inclusions of the three
  sets, and `PoolCloses` from the wait group being zero when `close` returns,
  with the scaler's position bounding what may start afterwards. It covers fixed
  and scaling pools.
* **StreamTransportProofs.** The heart is `EncoderInv`: at most one handler of a
  server stream has won the compare-and-swap, and what it is about to write is
  what it encoded. That a reply is written once needs more: a request is in one
  place until it is dispatched (`ComingInv`), so that it has one handler
  (`HandlerInv`), and a private message reaches one handler (`PrivateInv`).
  `GenInv` bounds the generations of a server stream by the close messages that
  were dispatched. `SendRecvGetsItsReply` follows a call through both sides:
  which replies are on their way to a stream (`Arriving`), that each was written
  for a request of that stream and is delivered once (`DeliverInv`, `CallInv`),
  and `AwaitInv`: while a call waits and no earlier reply of its stream is
  unread, the only reply that can arrive is its own. Assumed: a program of the
  client sends a request once, on its own stream, and the words for the outcome
  of a call (`"nothing"`, `"error"`, `"timeout"`) are not names of requests.
* **ChanTransportProofs.** `LineInv` says that what is between "sent" and
  "dispatched" is what waits in line at the connection's goroutine, in order and
  complete; `InOrder` follows. For `OwnReply`, `AskInv` follows the one
  unanswered request of a stream through its five stages (line, queue, private
  channel, a worker's hands, answer), which are exclusive as long as the stream
  has sent no stray data and no `Recv` of it has timed out.
* **RegistryProofs, the root registry.** `WalkInv` places every server that was kept when the
  walk began: ahead of the walk, being looked at, or its line is the last of its
  key in what will be written. `DurableInv` says the same of the record file, and
  with it a restart finds the server again, a crash between truncation and write
  included. `KeptInv` is why nobody else touches its slot.
* **RegistryProofs, the LAN daemons.** `LocalKept` is about daemons that run.
  `KnownInv` adds where a service is while its daemon does not (in the record
  file), and that no delete which would remove it is pending; `DaemonInv` says that
  commands are those of running daemons, and that a stopped one holds nothing. For
  the type of `replies`, a channel of size 1, `ReplyInv` is needed: a reply waits
  only for the query that is under way.
* **DiscoverProofs.** `ConnsInv` and `NetInv`: what is connected is marked, each
  key once, and what waits to be dialled in the network is marked but not
  connected. `OncePerService` follows by cases on which of two connections was
  recognised as the own provider's; this is where the assumption is used that no
  provider's ID is empty or `"NA"`. For `NearestFirst`, while no connection has
  been made, a marked key was refused or is still to be dialled (`MarkedInv`),
  instances of the tiers before that were up since the call have been refused or
  were in the own directory when the own ID could not be had (`PassedInv`), and
  those of this tier are pending (`PendingInv`).
  For `SpecConnectsAsAsked`, everything connected went through a lookup of a tier
  that was to be searched (`WantedInv`, `ConnsInv`), and the lookups' matcher is
  exact.
* **DiscoverProofs, the matcher.** `WildcardMatchExact`: for every pattern and
  string over any alphabet, of any length, the greedy matcher answers what the
  reference does. `Cuts` and `PartsOf` say what lies between the stars, `Segment`
  how the reference moves through a part. The argument is that after a star the
  prefixes which match are all those from some length on, and that this length is
  where the greedy matcher stands; `PartStep` takes this over one part, since the
  first occurrence gives the least length. The library's induction theorems
  cannot be applied, so each induction goes through the set of numbers for which
  the claim holds (`UpTo`), which has no least exception (`Least`, from the
  well-foundedness of `<`); that the recursive functions exist is shown the same
  way (`Reference`, `Greedy`).
* **TracingProofs.** `SpentInv` puts every issued ID below its type's next number,
  but for one whose sender has still to advance it: that gives `TokensUnique`, an
  action property. `SeqNumBounded` is inductive as it stands, since a sender
  under way reserves its own increment. For the collector, a record is in one
  session at most (`RecordInv`), a session in the list or with one reader
  (`SessionInv`), and what a reader has collected is in sessions nobody can read
  any more (`ReadInv`). For the helper, `Flow` is the sequence of the records
  delivered, the one kept for a retry and those in the buffer. `FlowInv` says
  that it holds what was accepted and not lost, in order and each record once;
  each step moves the border between two of its parts or drops one element.
* **ReverseProxyProofs.** `HandshakesStall` is nearly inductive: it needs that a
  client's handler exists only for a client that dialled a session (`ClientInv`),
  and that nobody works for a session whose listeners are not open
  (`ListenInv`). `ListedWhileServed` needs `ListingInv`: a session that has
  registered is listed, has closed its listener, or was displaced by another
  session, or by the service when that was closed. Listeners are closed only after
  the command connection was lost (`ClosingInv`), and at most one command
  connection is open besides the one being made (`OneInv`), so a session that
  displaced the working one has lost its own.

Only model-checked are the liveness properties and `NothingStrands`, since the prover does not handle
fairness or `ENABLED`: `NothingStrands`, `CloseReturns`, `QueueDrains`,
`PoolFollowsTarget`, `CallsReturn` and `SentIsDispatched`, `Disconnects`,
`CloseTakesEffect`, `DeadForgotten`, `QueriesAnswered`, `Discoverable`,
`Forgotten`, `Found`, `Ends`, `SessionReleased`.

## 6. Not modelled

Encoding (`gotiny`, frame sizes beyond "too large"), socket options,
`/proc/net/unix` parsing and the scores of the selection methods: data that no
property depends on. `OnConnect` functions that take a connection over. In the reverse proxy, other proxies the service might find
(a search that ends with another proxy is one that leaves this one), the copying
of data between joined connections, which is never reached, and the root
registry's test ping of a new listener. Of the delivery helper, `close()`, which
nothing calls, and `tryWait()`, which only yields the processor; the helper's
liveness is not stated, since it may give up after any three failures. Contexts,
goroutine-local data, options, type registration and the stateless built-in
services: nothing in them changes state that another goroutine depends on, but
for the own provider's ID and the registry's address, which are in `Discover`.
Examples are programs that use the library.

## 7. Plan

1. *Modelled, done:* queue and pool, the two transports, the server's life cycle,
   both registries, discovery with wildcards, tracing with its delivery helper,
   the reverse proxy.
2. *Abstract specification, done:* `Dispatch`, implemented by `MsgQ`.
3. *Proved, done:* the simulation of `Dispatch`, and every safety property that a
   run checks (section 5).
4. *Left:* the liveness properties stay with TLC.
