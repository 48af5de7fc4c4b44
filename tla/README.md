# Machinebeat in TLA+

Machinebeat is a Metricbeat with three modules of its own: OPC UA
(`module/opcua/nodevalue`), MQTT (`module/mqtt/topic`) and PLC4X
(`module/plc4x/value`).  This directory holds specifications of the three, the
TLC configurations that check them on small instances, and proofs that hold for
every value of their constants.  Paths below are relative to the repository's
root; `client.go` without a path is that of the metricset under discussion.

## 1. Inventory

Metricbeat calls a metricset's `New` once and then its `Fetch` in every period,
one call after the other.  What makes the code hard is what runs beside these
calls.  No lock guards any field of a `Client` or any package variable.

| Part | State | Operations | Runs beside Fetch |
|---|---|---|---|
| OPC UA, subscribe mode (`nodevalue.go`, `client.go`) | `connected`, `counter`, `opcua`, `openSubscription`, the channel `subscription`, `nodesToCollect` | `New`, `Fetch` (drain, `publishResponses`, `handleCounter`, `closeConnection`, `establishConnection`), `subscribeTo` | one `subscribeTo` goroutine per connection, that nothing stops |
| OPC UA, poll mode | the same, and the semaphore `sem` | `New`, `Fetch` (acquire, launch, `establishConnection`), `collect`, `closeConnection` | up to `maxThreads` collectors |
| OPC UA, finding nodes | `nodesToCollect` | `startBrowse`, `browse`, `findChildren`, `getDataType`, `appendNodeInformation` | nothing: it is part of `New` |
| MQTT (`mqtt.go`, `client.go`) | package variables `connected`, `config`, `events`, shared by every instance of the metricset | `New`, `setupMqttClient`, `connect`, `subscribeOnConnect`, `reConnectHandler`, `onMessage`, `Fetch` | the callbacks of each paho client, and the other instances |
| PLC4X (`value.go`, `client.go`) | `connected`, `connection` | `New`, `connect`, `read`, `publishResponses`, `Fetch` | nothing but the link |
| Command line, registration, fields, build files | none of their own | | |

Interactions.  In the subscribe mode goroutine and `Fetch` share a channel
(capacity 50000) and the fields of the client: `Fetch` closes what
`openSubscription` names, the goroutine sets it and captures `client.opcua`
whenever it happens to be scheduled.  In the poll mode collectors write
`connected`, which `Fetch` reads before it waits for a permit.  In MQTT every
instance's callbacks write `events`, and every instance's `Fetch` drains
whatever `events` is at that moment.  The metricsets do not interact with one
another.

What makes each part correct, and what is hard about it:

* Subscribe mode: a change is collected once, in order, under the name of its
  node; what reached the channel is reported; only a connection that was silent
  is torn down, and a silent one is; every connection is closed.  Hard:
  close and reconnect against a goroutine at any of its steps, a goroutine of
  an earlier connection, a close whose errors are ignored, so that the server
  keeps the session, the one counter shared by all connections, a batch
  whose publishing panics halfway, a full channel.
* Poll mode: permits come back on every path, the sessions opened are explained
  by failures, events come in the order of the reads.  Hard: collectors that
  fail late, after a reconnect; `connect` that returns an error and a connection.
* Finding nodes: what is found is what the limits allow, in a definite order,
  `New` ends, and what was found can be asked for.  Hard: cycles, nodes that are
  referenced twice, requests that fail halfway, the off-by-one at the limit,
  two ways to a list of nodes that fill in different fields.
* MQTT: every host is connected to, no message is lost or copied between
  handler, channel and report, and order is kept.  Hard: one flag, one
  configuration and one channel for all instances, the channel replaced on each
  reconnect; the window between subscription and the channel's creation.
* PLC4X: a Fetch reports a prefix of the nodes, and an error leads to a
  reconnect.  Hard: a read that fails or is refused in the middle.

`PROJECT.json` lists the hazards one by one, each at its line.

## 2. Modules

| Module | Models | Checked by | Proofs |
|---|---|---|---|
| `OpcuaSubscribe` | subscribe mode and the server as the code uses it | `subscribe`, `subscribe_*` | `OpcuaSubscribe_proofs`, `OpcuaSubscribeFeed_proofs`, `OpcuaSubscribeSole_proofs` |
| `OpcuaPoll` | poll mode | `poll` | `OpcuaPoll_proofs` |
| `OpcuaNew` | all of `New` in both modes, and the first read request | `new`, `new_poll` | `OpcuaNew_proofs` |
| `MqttTopic` | every instance of the MQTT metricset | `mqtt*` | `MqttTopic_proofs`, `MqttTopicOrder_proofs` |
| `Plc4xValue` | the PLC4X metricset | `plc4x*` | `Plc4xValue_proofs` |
| `ChangeFeed`, `OpcuaFeed` | what the subscribe mode promises; the refinement mapping | `subscribe`, `subscribe_nodes` | refinement: `OpcuaSubscribeSole_proofs` |
| `ReadLog` | what the poll mode promises | `poll` | refinement: `OpcuaPoll_proofs` |
| `LossyQueue` | what the MQTT metricset promises | `mqtt` | refinement: `MqttTopicOrder_proofs` |
| `MCOpcuaSubscribe`, `MCOpcuaNew` | nodes, lists of nodes and of references for TLC | | |

Common conventions.  A program counter (`fetchPc`, `subPc`, `pc`, `newPc`)
stands for a place between two accesses to shared state; an action is the code
from one such place to the next.  Bounds on what the environment does are
constants of their own, marked `bound` at their declaration.  An action named
`...Panics` is a panic; whether somebody recovers it is in its comment.
Operators whose comment starts with "Mutant of" belong to no specification:
each is a changed form of an action or helper, kept to show that a property
depends on it.

**OpcuaSubscribe.**  A client is an `opcua.Client` that connected, a number; a
`subscribeTo` goroutine has the number of the client it was launched for, and
`subClient` is the client it captured, which may be another.  `sessions` are
those the server knows, `closed` the clients whose connection the program has
closed.  `closeConnection` ignores the errors of `Cancel`, `CloseSession` and
`Close`: the server may keep items and session (`CloseCancels`, `Hangup`), and
only the closed connection keeps what they still send from the program
(`Alive`).  `New` is `New`,
`NewStarts`, `NewFails`, `NewRejectsNode`; `Fetch` is `FetchStart`, `Drain`
(one receive from the channel), the three forms of `publishResponses`, the
three steps of `closeConnection` (`CloseCancels`, `CloseRecovers`,
`CloseSession`) and one action per outcome of `connect` inside
`establishConnection`.  `PublishNothing` contains `handleCounter`.  The
goroutine subscribes, monitors one node after the other (`Monitor`,
`MonitorSkips`), sets `openSubscription`, and then alternates `Receive` and
`Send`.  `responses` is everything ever sent into the channel: `received` and
`reported` say how far it was drained and published, so the channel itself is
what lies between.  `silent` and `abandoned` are history: empty publishes in a
row, and clients whose close was cut short by the panic in `Cancel`.

**OpcuaPoll.**  `permits` is the semaphore.  A collector captures the client
when it is scheduled (`CollectStart`), reads all nodes at once, publishes one
event a step, and releases its permit.  In this mode `openSubscription` is
always nil, so `closeConnection` does no more than its first assignment; the
session it means to close stays open at the server, one for each reconnect.

**OpcuaNew.**  `pc` is the part of `New` under way.  With browsing the recursion
is a stack of frames; a frame holds the children the server answered with when
the call asked for them.  A walk -- which root, then which child at each level
-- tells the visits of one node apart.  The address space is any graph, fixed
while `New` runs.  Every call of `browse` makes two requests, for attributes and
for children, and each may fail (`failed` records it).  Without browsing
`AppendNode` and `AppendFails` take the configured nodes one by one.  In both
modes an attribute that comes with status OK and without a value panics in `New`
(`BrowsePanics`, `AppendPanics`).  `Finish`
ends in "subscribe", "poll", or "idle" when there is no node.  `collectData`
builds the request of the poll mode; what happens to it is in `OpcuaPoll`, and
what follows "subscribe" in `OpcuaSubscribe`, both of which take the list of
nodes as given.

**MqttTopic.**  Channels are numbered as they are made, 0 is nil.  A handler
(`Handle`) evaluates `events` and then sends (`Send`), and a Fetch evaluates
`events` (`FetchLoad`, kept in `source`) and then receives (`FetchReceive`) or
finds the channel empty (`FetchReturns`): in both the channel may be replaced in
between.  `Subscribe`, `SubscribeAcked` and `MakeEvents` are
`subscribeOnConnect`, `HandleLost` and `HandleConnect` are `reConnectHandler`.
A panic in a callback, or in `New` when `NewTLSConfig` cannot read a
certificate, ends the process (`crashed`).

**Plc4xValue.**  `New` and the reconnect branch of `Fetch` share the actions of
`establishConnection`.  A value is the position of its node.

### Abstract specifications

Each says what a reader of the events relies on, and nothing of how it comes
about; the detailed module implements it under the mapping named `Feed`, `Log`
or `Queue`: every step maps to a step or to none.  A run checks it, and it is
proved (section 6).

* `ChangeFeed`: values change; a source collects the values of each handle in
  their order, under the name of the node; what was collected is reported from
  the front; as long as the feed has not split, no change is collected twice.
  `OpcuaFeed` maps it: a source is a client, what is collected is what was sent
  into the channel, and the feed splits at the first close that is cut short.
  Hidden are connections, goroutines, the server's queues and the drained batch.
* `ReadLog`: reads are answered, each is emitted node by node from the first
  one, and may break off for good.  Hidden are permits, `connected`,
  sessions and how many collectors run beside each other.
* `LossyQueue`: a message is handled once, put into a queue, fetched from its
  front and reported; a queue may be replaced by an empty one.  A fetcher looks
  into the queue that is current and may take from it once more after it was
  replaced; what else an earlier queue holds, or is still put into it, is lost.
  This is the exact extent of what a reconnect of the MQTT client loses.  Hidden
  are clients, callbacks and `connected`.

## 3. Runs

| Run | Instance | Shows |
|---|---|---|
| `subscribe` | 1 node, 2 clients, 1 change, channel of 1, fairness | single collection, which subscription is open, closed connections, tear-down, the abstract feed; an armed counter fires; what was collected is reported |
| `subscribe_nodes` | 2 nodes, 1 client, 3 changes, second value panics | handles lead to the right node though nodes are skipped; order per item; the abstract feed |
| `subscribe_twice` | 1 node, 2 clients, 1 change | fails: one change is collected twice |
| `subscribe_silence` | 1 node, 2 clients, 1 change | fails: a silent connection stays |
| `poll` | 2 threads, 2 nodes, 2 clients, 3 reads, fairness | permits, sessions, order, the abstract log, Fetch resumes |
| `new` | 2 nodes, 7 lists of references for each, 4 lists of configured nodes, both modes, level 1, limit 1, 2 failing requests, fairness | browsing finds all that the limits allow, nothing beyond the levels, in which order; New ends |
| `new_poll` | the same, no failing request | fails: a read asks for a nil identifier |
| `mqtt` | 2 instances, channel of 2, 2 connections, 3 messages, fairness | order, no message reported twice, the abstract queue, the current channel is drained |
| `mqtt_hosts` | 2 instances | fails: the second instance never connects |
| `mqtt_nil` | 1 instance, 1 connection, fairness | fails: a handler waits on the nil channel for ever |
| `plc4x` | 8 nodes | what a Fetch reports |
| `plc4x_reconnect` | 1 node, fairness | fails: no reconnect after an error |

Why the bounds are enough.  The interesting cases of the clients need a
connection, its close and a second connection at work together: two clients.  A
goroutine that outlives its connection, the overwriting of `openSubscription`
and the counter that is not re-armed all happen with two.  In `subscribe` one
change is collected by each of two subscriptions, next to the initial values of
both, and a channel of one is full at the second.  The safety properties of all
passing runs are proved for all constants, so that these bounds matter most to
the liveness properties.  Three changes of two nodes show orders across handles
and a queue at the server that overflows.  Two threads show two collectors of
different connections, three reads an overtaking in which a thread is used
again.  In MQTT two instances are enough for one to drain what the other sent; a
channel of two with three messages is full, and two connections replace it once.
Four references with a limit of one let the limit, and what lies beyond it,
happen; the lists of references include none, a loop, the other node, one node
twice, and two in both orders.  Every level limit works the same in `browse`, and
level 1 has a level that is entered, one that is cut off, and a node reached on
two walks.  Two failing requests are the attributes and the children of one
node, or of two, one above the other or side by side.

The runs switch deadlock checking off: each environment is bounded, so that a
run ends; New may fail; a panic that nobody recovers ends the fetch loop.

## 4. Fairness

`Fetch` is weakly fair since Metricbeat calls it in every period and each call
it makes has a timeout or an answer; goroutines and callbacks are weakly fair
since the Go scheduler runs whatever can run.  Nothing is assumed of servers
and brokers beyond an answer to a request: changes, losses, refusals and
reconnects may happen or not.  The PLC4X code awaits the driver without a timeout
(`module/plc4x/value/client.go:95`), so nothing in it guarantees that a Fetch
returns; the run `plc4x` assumes no fairness and claims none.  `plc4x_reconnect`
does, in the program's favour: even with a driver that always answers, no reconnect
comes.

## 5. Disagreements between code and words

1. `subscribe_twice`.  `closeConnection` (client.go:541) cancels
   `openSubscription` even when it is nil.  If the goroutine has not come to
   client.go:289 yet, the call panics and is recovered; session, subscription
   and goroutine live on next to the new connection, and a change is reported
   twice.  In poll mode the same line panics on every close, and each
   reconnect leaves a session behind.  (That the server may also keep the session
   of a close that ran to its end, whose errors client.go:541-544 ignore, is
   modelled; nothing is collected from it, since the connection is closed.)
2. `subscribe_silence`.  `handleCounter` (nodevalue.go:250) acts when the
   counter is 0, not when it is below, and only an event re-arms it: a
   connection made after a tear-down, without any event, is never torn down.
3. `mqtt_hosts`.  `connected` (client.go:18) is one flag for all instances.  The
   second finds it set in `connect` (client.go:103) and returns: its broker is
   never connected to, though a metricset is made for each host.
4. `mqtt_nil`.  A retained message can arrive before the channel exists, and
   its handler waits on a nil channel for ever (client.go:160).
5. `plc4x_reconnect`.  No error resets `connected`; `closeConnection` is called
   by nothing.  The reconnect branch (value.go:128) is never reached.
6. `new_poll`.  With `browse.enabled: false` and `subscribe: false` nothing sets
   `NodeId` (client.go:39) of a configured node, and `collectData` puts the nil
   identifier into the request (client.go:182).

Met while modelling, and kept in the models as the code has them: a reconnect of
MQTT makes a new channel (client.go:125), and what the old one held is lost
(`LossyQueue`); the path of a node is made of display names though the variable
is called `browseName` (client.go:437); `New` that fails after `connect` leaves
the connection open (nodevalue.go:169 and 194).

One more disagreement has no run of its own.  `browse.maxNodePerParent: 5`
(modules.d/opcua.yml.disabled:43) and the message "Max node per parent reached"
(client.go:472) promise a limit of five children, but client.go:471 tests it after
the child was browsed and compares an index that counts from 0: seven are browsed.
`Exhausted` has the code's test.  `FindsWithinLimits` therefore demands every child
within the configured limit, and bounds what is found by the levels only; it does
not say that the configured limit of children is kept, because it is not.

## 6. Proofs

All theorems are of the form `Spec => []P` (or `Spec => [][A]_vars`, or that
`Spec` implies an abstract specification), by an inductive invariant, and assume
no more than the named ASSUME of the module: constants are natural numbers,
capacities and client bounds positive.

*OpcuaSubscribe_proofs.* `TypeOK` is inductive; the proof takes it in six
parts, by the variables that change together. `TearDownIsPatient` needs
`WatchdogInv`: while the counter is positive, counter and the number of empty
publishes in a row add up to `MaxTriesToReconnect`, and a disconnected program
has a counter of 0 or less -- without the latter a reconnect could start with a
counter that belongs to no silence. `ConnectionsAreAccounted` counts connections,
not sessions, which the server may keep: whenever the program is about to connect,
every earlier client was closed or its close was cut short.

*OpcuaSubscribeFeed_proofs.*  `InOrder` says nothing of what is still under way,
so it is not inductive.  `FeedInv` follows a value from item to queue, to the
notification held by the goroutine, to the channel: whatever is held is older
than what is pending, whatever was sent is older than both, and each carries a
handle whose item names the node that changed.  `HandlesNameNodes` follows from
the same invariant.

*OpcuaSubscribeSole_proofs.*  `SoleInv` is conditional: as long as no close was
cut short, every session but the current client's is on a connection that was
closed, whether the server has ended it or not, and no two goroutines carry the
same change.  From it follow
`ChangesAreCollectedOnce` and `OpenSubscriptionsAreCurrent`.  The condition is
the exact place where finding 1 enters.

*OpcuaPoll_proofs.*  `PermitInv` counts: permits and busy collectors add up once
New made the semaphore; it also shows that a free collector is always there to
launch.  `ReconnectInv` bounds sessions by failures.  `EventsAreInReadOrder`
rests on `OrderInv`: a read whose events are still to come after a later
read's is published by a collector that was busy all the while, and one of the
threads is taken by the later read, so there are fewer than `MaxThreads`.
`PollImplementsReadLog` is the refinement: a step of the program is a step of
`ReadLog` or none.  It needs `OrderInv` (two collectors never publish the same
read, so that a step of one leaves the reads of the others open) and the count of
permits (a collector with an answer in hand leaves room for its read).

*Plc4xValue_proofs.*  `ReadInv`: while it runs, `read` holds exactly the nodes
before the one it reads.

*FeedImplemented* (in `OpcuaSubscribeSole_proofs`) is the refinement of
`ChangeFeed`.  Three kinds of steps are visible.  A `Send` collects: that the
value is the next of its handle comes from `FeedInv`, that it was not collected
through another client while nothing was abandoned from `SoleInv`.  A `Publish`
reports the drained batch, or what comes before the value that panics.  A close
that is cut short splits the feed.  All others stutter.

*MqttTopic_proofs.*  `TypeOK` bounds the channels made, and the callbacks that are
due after a lost connection, by the number of connections, which no step shows by
itself.  `Claims` counts what is still under way: each channel made, each
subscription that will make one, and each run of `reConnectHandler` is for a
connection of its own (`ChannelsClaimed`, `HandlersClaimed`).

*MqttTopicOrder_proofs.*  `ReportedInOrder` speaks of messages at the end of
their way, so `OrderInv` follows them from the start: what a client has not
handled yet is in the order of arrival; whatever was handled is older than that
(`Behind`); the messages of one host are in order over all channels, replaced ones
included (`ChannelOrder`), since a handler that sends late, to a replaced channel,
is the only one of its client and no later channel has a message of its host
(`HandOrder`); and whatever an instance fetched or reported is older than all it
can still receive, from the channel it looks into on (`Ahead`, `Floor`).
`ReportsOnce` has an invariant of its own: what was fetched has left all channels
and is in one Fetch's hands, what was reported in none (`OnceInv`).
`QueueImplemented` maps the channels made to the queues, the hands of all handlers
and of all Fetches to sets, and `source` to the queue a fetcher looks into; a
message leaves one place when it enters the next by `OrderInv` and `OnceInv`.

*OpcuaNew_proofs.*  Depth-first search over an arbitrary graph, with no memory of
nodes: all reasoning is about walks.  `Over(walk)` says that the search has left
the walk behind: it leaves the way to the current call to an earlier child, or
ends on that way.  `StackInv` ties each frame to the way to it.  From
`CollectedIsOver` follows `CollectsInOrder`: what is visited next is not over
yet, and so comes after all that was collected.  `FindsAll` has the invariant
`Search`: what was collected is exactly what the walks that `browse` takes lead to
(`Browsed`, with the limit of children as the code tests it), is not hidden by a
failed request, and is over.  In the end every walk is over, so that it is
everything; and every walk within the configured limits is one that `browse` takes,
as every walk that it takes is one of the graph (`AllowedBrowsed`,
`BrowsedReached`).  A visit adds one walk to those that are over, a return from
`browse` adds none: all that lay below was hidden or beyond the limits, and this
is where an off-by-one in `Exhausted` or `TooDeep` would show.

The reference definition `ReachedAt` and the loop `Parsable` are recursive
functions, and their equations hold only once a function with such equations is
known to exist.  `SmallestElement` gets induction over the naturals, for a set in
place of a predicate, out of the well-foundedness of finite sets, and
`RecursionUpTo`, `Recursion` build the functions with it.

Only model-checked: the liveness properties (`ArmedWatchdogFires`,
`CollectedIsReported`, `WaitingFetchResumes`, `CurrentChannelIsDrained`,
`NewReturns`), since ENABLED and fairness are outside what the
prover does.  Every invariant, action property and refinement that a passing run
checks is proved.  `FindsAll`, like the property, is about a limit on the levels;
without one the search need not end.

## 7. Not modelled

* `closeConnection` of the PLC4X metricset: nothing calls it.
* The layout of events, formatting, and logging: data no property looks at.  The
  panic of a type assertion in `publishResponses` is kept.
* Endpoint choice, security policies, certificates and login of OPC UA, and the
  TLS files of MQTT: options passed to a library; they change no state of the
  program, and their failure is a failure of `connect` or a panic of `New`.
* Names, labels, paths and types of nodes, which `browse` and
  `appendNodeInformation` fill in: data.
* Command line, registration, generated field data and build targets.
* gopcua's AutoReconnect, which is on by default: a session that the server ends
  (`SessionLost`) stays lost until the program connects again, where the library
  might restore it.  That leaves more to the program's own tear-down, and hides
  what a restored session could still deliver.
* An answer of plc4go that never comes, except as a Fetch that takes no step.
* The growth of the stack in the mutual calls of `connect` and
  `reConnectHandler`, and a server faster than the drain loop.

## 8. Plan

Written, in this order, the most important behaviour first: `OpcuaSubscribe`,
its proofs, `OpcuaPoll`, its proofs, `MqttTopic`, `Plc4xValue` and its proofs,
the three abstract specifications, `OpcuaNew`, and the proofs of `MqttTopic`,
`OpcuaNew` and the remaining refinements.  Next:

1. What the abstract specifications promise by themselves, as theorems about
   them: nothing is reported in `LossyQueue` that was not handled, and a message
   is in one place; the values of a handle in `ChangeFeed` are reported in order.
2. `FindsAll` without a limit on the levels, for a search that ended.
3. The safety half of the liveness properties: what a step that must eventually
   happen achieves, and that nothing undoes it (a rank that no step increases).
