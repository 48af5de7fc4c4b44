--------------------------- MODULE OpcuaSubscribe ---------------------------
(***************************************************************************)
(* The OPC UA metricset in subscribe mode.  Metricbeat calls New once and  *)
(* then Fetch, one call after the other.  New and a reconnecting Fetch     *)
(* launch a goroutine, subscribeTo, that subscribes the collected nodes    *)
(* and copies what the server sends into the channel client.subscription;  *)
(* a connected Fetch drains that channel and publishes.  Nothing stops a   *)
(* goroutine, and no lock guards client.opcua, client.openSubscription or  *)
(* client.connected.                                                       *)
(*                                                                         *)
(* A client is one opcua.Client that connected, numbered in the order of   *)
(* creation; a goroutine is named by the client that was current when it   *)
(* was launched, which need not be the client it captures.  Server and     *)
(* gopcua are external, modelled from how the code uses them.              *)
(***************************************************************************)
EXTENDS Integers, Sequences, FiniteSets

CONSTANTS
  Node,                 \* the nodes of the server's address space
  nodesToCollect,       \* what New found or was given; handle i is node i
  MaxTriesToReconnect,  \* configuration
  RetryOnErrorCount,    \* configuration
  ChanCap,              \* capacity of client.subscription (50000)
  PanicChanges,         \* changes whose value makes publishResponses panic
  MaxClients,           \* bound: clients that connect
  MaxChanges            \* bound: value changes at the server

ASSUME SubscribeAssumption ==
  /\ nodesToCollect \in Seq(Node)
  /\ MaxTriesToReconnect \in Nat
  /\ RetryOnErrorCount \in Nat
  /\ ChanCap \in Nat \ {0}
  /\ PanicChanges \subseteq Nat
  /\ MaxClients \in Nat \ {0}
  /\ MaxChanges \in Nat

Clients == 1..MaxClients
NoClient == 0          \* an opcua.Client that never connected
NoSubscription == 0    \* a nil openSubscription
Handles == 1..Len(nodesToCollect)   \* the code counts from 0

CounterFloor == -1     \* the code tests only whether the counter is 0

Item == [node : Node, handle : Handles]
Notification == [change : 0..MaxChanges, handle : Handles, initial : BOOLEAN]
ResponseObject == [node : Node, value : Notification, via : Clients]

VARIABLES
  connected, counter, opcua, openSubscription,   \* fields of Client
  fetchPc, tries,                                \* the thread of New and Fetch
  subPc, subClient, nextNode, held,              \* the subscribeTo goroutines
  responses, received, reported,                 \* client.subscription
  sessions, closed, created,                     \* what Connect opened
  items, pending, changed,                       \* the server
  silent, abandoned                              \* history

clientVars == <<connected, counter, opcua, openSubscription>>
fetchVars  == <<fetchPc, tries>>
subVars    == <<subPc, subClient, nextNode, held>>
flowVars   == <<responses, received, reported>>
serverVars == <<sessions, closed, created, items, pending, changed>>
history    == <<silent, abandoned>>
vars == <<clientVars, fetchVars, subVars, flowVars, serverVars, history>>

(* client.subscription holds the responses sent and not yet received. *)
Buffered == Len(responses) - received

(* The batch the running Fetch has drained so far. *)
Batch == received - reported

(* The change that gave node n the value it has, 0 if it never changed. *)
Current(n) ==
  {c \in 0..Len(changed) :
     /\ c > 0 => changed[c] = n
     /\ \A d \in c+1..Len(changed) : changed[d] # n}

Older(a, b) == a.handle = b.handle /\ a.change < b.change

-----------------------------------------------------------------------------
Init ==
  /\ connected = FALSE
  /\ counter = MaxTriesToReconnect
  /\ opcua = NoClient
  /\ openSubscription = NoSubscription
  /\ fetchPc = "new"
  /\ tries = 0
  /\ subPc = [g \in Clients |-> "none"]
  /\ subClient = [g \in Clients |-> NoClient]
  /\ nextNode = [g \in Clients |-> 1]
  /\ held = [g \in Clients |-> {}]
  /\ responses = <<>>
  /\ received = 0
  /\ reported = 0
  /\ sessions = {}
  /\ closed = {}
  /\ created = 0
  /\ items = [g \in Clients |-> {}]
  /\ pending = [g \in Clients |-> {}]
  /\ changed = <<>>
  /\ silent = 0
  /\ abandoned = {}

(* startSubscription: make the channel once, launch subscribeTo. *)
startSubscription(c) == subPc' = [subPc EXCEPT ![c] = "start"]

(* The part of connect that opens a session on a new opcua.Client. *)
Connect ==
  /\ created < MaxClients
  /\ created' = created + 1
  /\ opcua' = created'
  /\ sessions' = sessions \union {created'}
  /\ connected' = TRUE
  /\ silent' = 0
  /\ UNCHANGED <<counter, openSubscription, closed, items, pending, changed,
                 abandoned>>

-----------------------------------------------------------------------------
(* New: one attempt to connect, then the nodes are looked up, then the
   subscription is started.  A failure ends the metricset; when GetEndpoints
   failed and Connect did not, or a node identifier does not parse, the
   session stays open. *)
New ==
  /\ fetchPc = "new"
  /\ Connect
  /\ fetchPc' \in {"browse", "failed"}
  /\ UNCHANGED <<tries, subVars, flowVars>>

NewFails ==
  /\ fetchPc = "new"
  /\ fetchPc' = "failed"
  /\ UNCHANGED <<clientVars, tries, subVars, flowVars, serverVars, history>>

NewStarts ==
  /\ fetchPc = "browse"
  /\ fetchPc' = "idle"
  /\ IF nodesToCollect = <<>> THEN UNCHANGED subPc
                              ELSE startSubscription(opcua)
  /\ UNCHANGED <<clientVars, tries, subClient, nextNode, held, flowVars,
                 serverVars, history>>

NewRejectsNode ==
  /\ fetchPc = "browse"
  /\ fetchPc' = "failed"
  /\ UNCHANGED <<clientVars, tries, subVars, flowVars, serverVars, history>>

-----------------------------------------------------------------------------
FetchStart ==
  /\ fetchPc = "idle"
  /\ IF connected
       THEN /\ fetchPc' = "drain"
            /\ UNCHANGED tries
       ELSE /\ fetchPc' = "reconnect"
            /\ tries' = RetryOnErrorCount
  /\ UNCHANGED <<clientVars, subVars, flowVars, serverVars, history>>

(* Mutant of Drain: receives without looking whether the channel is empty. *)
DrainBlindly ==
  /\ fetchPc = "drain"
  /\ received' = received + 1
  /\ UNCHANGED <<clientVars, fetchVars, subVars, responses, reported,
                 serverVars, history>>

Drain ==
  /\ fetchPc = "drain"
  /\ Buffered > 0
  /\ received' = received + 1
  /\ UNCHANGED <<clientVars, fetchVars, subVars, responses, reported,
                 serverVars, history>>

(* handleCounter for an empty batch. *)
CountDown ==
  /\ counter' = IF counter > CounterFloor THEN counter - 1 ELSE counter
  /\ silent' = IF silent > MaxTriesToReconnect THEN silent ELSE silent + 1

(* handleCounter for a batch with events. *)
CounterReset ==
  /\ counter' = MaxTriesToReconnect
  /\ silent' = 0

(* Mutant of PublishNothing: "counter <= 0" for "counter == 0". *)
PublishNothingEager ==
  /\ fetchPc = "drain"
  /\ Buffered = 0
  /\ Batch = 0
  /\ CountDown
  /\ fetchPc' = IF counter' <= 0 THEN "closing" ELSE "idle"
  /\ UNCHANGED <<connected, opcua, openSubscription, tries, subVars, flowVars,
                 serverVars, abandoned>>

(* Mutant of PublishNothing: every empty publish resets the counter. *)
PublishNothingPatient ==
  /\ fetchPc = "drain"
  /\ Buffered = 0
  /\ Batch = 0
  /\ CounterReset
  /\ fetchPc' = "idle"
  /\ UNCHANGED <<connected, opcua, openSubscription, tries, subVars, flowVars,
                 serverVars, abandoned>>

PublishNothing ==
  /\ fetchPc = "drain"
  /\ Buffered = 0
  /\ Batch = 0
  /\ CountDown
  /\ fetchPc' = IF counter' = 0 THEN "closing" ELSE "idle"
  /\ UNCHANGED <<connected, opcua, openSubscription, tries, subVars, flowVars,
                 serverVars, abandoned>>

Panics(i) == responses[i].value.change \in PanicChanges

(* Mutant of PublishBatch: the loop ends one response early. *)
PublishBatchShort ==
  /\ fetchPc = "drain"
  /\ Buffered = 0
  /\ Batch > 0
  /\ CounterReset
  /\ \A i \in reported+1..received : ~ Panics(i)
  /\ reported' = received - 1
  /\ fetchPc' = "idle"
  /\ UNCHANGED <<connected, opcua, openSubscription, tries, subVars, responses,
                 received, serverVars, abandoned>>

PublishBatch ==
  /\ fetchPc = "drain"
  /\ Buffered = 0
  /\ Batch > 0
  /\ CounterReset
  /\ \A i \in reported+1..received : ~ Panics(i)
  /\ reported' = received
  /\ fetchPc' = "idle"
  /\ UNCHANGED <<connected, opcua, openSubscription, tries, subVars, responses,
                 received, serverVars, abandoned>>

(* A value that is not what its node's data type promises panics in the type
   assertion.  Fetch does not recover; Metricbeat ends its fetch loop, and
   the rest of the batch is lost. *)
PublishPanics ==
  /\ fetchPc = "drain"
  /\ Buffered = 0
  /\ Batch > 0
  /\ CounterReset
  /\ \E i \in reported+1..received :
       /\ Panics(i)
       /\ \A j \in reported+1..i-1 : ~ Panics(j)
       /\ reported' = i - 1
  /\ fetchPc' = "dead"
  /\ UNCHANGED <<connected, opcua, openSubscription, tries, subVars, responses,
                 received, serverVars, abandoned>>

-----------------------------------------------------------------------------
(* closeConnection up to Cancel, whose error is ignored: on a dead link the
   server keeps the items.  With a nil openSubscription Cancel panics, the
   deferred function recovers, and neither CloseSession nor Close runs. *)
CloseCancels ==
  /\ fetchPc = "closing"
  /\ openSubscription # NoSubscription
  /\ connected' = FALSE
  /\ items' \in {items, [items EXCEPT ![openSubscription] = {}]}
  /\ fetchPc' = "cancelled"
  /\ UNCHANGED <<counter, opcua, openSubscription, tries, subVars, flowVars,
                 sessions, closed, created, pending, changed, history>>

CloseRecovers ==
  /\ fetchPc = "closing"
  /\ openSubscription = NoSubscription
  /\ connected' = FALSE
  /\ abandoned' = abandoned \union {opcua}
  /\ fetchPc' = "idle"
  /\ UNCHANGED <<counter, opcua, openSubscription, tries, subVars, flowVars,
                 serverVars, silent>>

(* CloseSession and Close, whose errors are ignored too: the server may keep
   the session until it times out, but Close ends the client's connection. *)
Hangup ==
  /\ sessions' \in {sessions, sessions \ {opcua}}
  /\ closed' = closed \union {opcua}

(* Mutant of CloseSession: openSubscription is not reset. *)
CloseKeepsSubscription ==
  /\ fetchPc = "cancelled"
  /\ Hangup
  /\ fetchPc' = "idle"
  /\ UNCHANGED <<clientVars, tries, subVars, flowVars, created, items, pending,
                 changed, history>>

(* Mutant of CloseSession: an error of CloseSession returns before Close. *)
CloseStopsAtError ==
  /\ fetchPc = "cancelled"
  /\ openSubscription' = NoSubscription
  /\ Hangup \/ UNCHANGED <<sessions, closed>>
  /\ fetchPc' = "idle"
  /\ UNCHANGED <<connected, counter, opcua, tries, subVars, flowVars, created,
                 items, pending, changed, history>>

CloseSession ==
  /\ fetchPc = "cancelled"
  /\ openSubscription' = NoSubscription
  /\ Hangup
  /\ fetchPc' = "idle"
  /\ UNCHANGED <<connected, counter, opcua, tries, subVars, flowVars, created,
                 items, pending, changed, history>>

-----------------------------------------------------------------------------
(* establishConnection, one action per outcome of one call of connect. *)
ConnectOk ==
  /\ fetchPc = "reconnect"
  /\ tries > 0
  /\ ~ connected
  /\ Connect
  /\ startSubscription(opcua')
  /\ fetchPc' = "idle"
  /\ UNCHANGED <<tries, subClient, nextNode, held, flowVars>>

(* GetEndpoints failed, Connect succeeded: connect sets connected and still
   returns the error of GetEndpoints. *)
ConnectOkWithError ==
  /\ fetchPc = "reconnect"
  /\ tries > 0
  /\ ~ connected
  /\ Connect
  /\ tries' = tries - 1
  /\ UNCHANGED <<fetchPc, subVars, flowVars>>

ConnectAgain ==
  /\ fetchPc = "reconnect"
  /\ tries > 0
  /\ connected
  /\ startSubscription(opcua)
  /\ fetchPc' = "idle"
  /\ UNCHANGED <<clientVars, tries, subClient, nextNode, held, flowVars,
                 serverVars, history>>

ConnectFails ==
  /\ fetchPc = "reconnect"
  /\ tries > 0
  /\ ~ connected
  /\ opcua' = NoClient
  /\ tries' = tries - 1
  /\ UNCHANGED <<connected, counter, openSubscription, fetchPc, subVars,
                 flowVars, serverVars, history>>

ConnectGivesUp ==
  /\ fetchPc = "reconnect"
  /\ tries = 0
  /\ fetchPc' = "idle"
  /\ UNCHANGED <<clientVars, tries, subVars, flowVars, serverVars, history>>

-----------------------------------------------------------------------------
(* The client that goroutine g captured has a session and a connection. *)
Alive(g) == subClient[g] \in sessions \ closed

(* subscribeTo, from the capture of client.opcua to the listening loop. *)
SubscribeStart(g) ==
  /\ subPc[g] = "start"
  /\ subPc' = [subPc EXCEPT ![g] = "subscribe"]
  /\ subClient' = [subClient EXCEPT ![g] = opcua]
  /\ UNCHANGED <<clientVars, fetchVars, nextNode, held, flowVars, serverVars,
                 history>>

SubscribeOk(g) ==
  /\ subPc[g] = "subscribe"
  /\ Alive(g)
  /\ subPc' = [subPc EXCEPT ![g] = "monitor"]
  /\ UNCHANGED <<clientVars, fetchVars, subClient, nextNode, held, flowVars,
                 serverVars, history>>

SubscribeFails(g) ==
  /\ subPc[g] = "subscribe"
  /\ subPc' = [subPc EXCEPT ![g] = "returned"]
  /\ UNCHANGED <<clientVars, fetchVars, subClient, nextNode, held, flowVars,
                 serverVars, history>>

MonitoredItem(i) == [node |-> nodesToCollect[i], handle |-> i]

(* The server answers a new item with its current value. *)
InitialValue(i, c) == [change |-> c, handle |-> i, initial |-> TRUE]

(* Mutant of Monitor: handles count the nodes added, not the nodes tried. *)
MonitorCountsAdded(g) ==
  LET h == Cardinality(items[g]) + 1 IN
  /\ subPc[g] = "monitor"
  /\ nextNode[g] <= Len(nodesToCollect)
  /\ Alive(g)
  /\ items' = [items EXCEPT ![g] =
                 @ \union {[MonitoredItem(nextNode[g]) EXCEPT !.handle = h]}]
  /\ nextNode' = [nextNode EXCEPT ![g] = @ + 1]
  /\ UNCHANGED <<clientVars, fetchVars, subPc, subClient, held, flowVars,
                 sessions, closed, created, pending, changed, history>>

Monitor(g) ==
  /\ subPc[g] = "monitor"
  /\ nextNode[g] <= Len(nodesToCollect)
  /\ Alive(g)
  /\ items' = [items EXCEPT ![g] = @ \union {MonitoredItem(nextNode[g])}]
  /\ \E c \in Current(nodesToCollect[nextNode[g]]) :
       pending' = [pending EXCEPT ![g] = @ \union {InitialValue(nextNode[g], c)}]
  /\ nextNode' = [nextNode EXCEPT ![g] = @ + 1]
  /\ UNCHANGED <<clientVars, fetchVars, subPc, subClient, held, flowVars,
                 sessions, closed, created, changed, history>>

MonitorSkips(g) ==
  /\ subPc[g] = "monitor"
  /\ nextNode[g] <= Len(nodesToCollect)
  /\ nextNode' = [nextNode EXCEPT ![g] = @ + 1]
  /\ UNCHANGED <<clientVars, fetchVars, subPc, subClient, held, flowVars,
                 serverVars, history>>

SubscribeOpens(g) ==
  /\ subPc[g] = "monitor"
  /\ nextNode[g] > Len(nodesToCollect)
  /\ openSubscription' = g
  /\ subPc' = [subPc EXCEPT ![g] = "listen"]
  /\ UNCHANGED <<connected, counter, opcua, fetchVars, subClient, nextNode,
                 held, flowVars, serverVars, history>>

(* One DataChangeNotification: of each handle, the oldest values pending. *)
Receive(g) ==
  /\ subPc[g] = "listen"
  /\ held[g] = {}
  /\ \E batch \in SUBSET pending[g] \ {{}} :
       /\ \A n \in batch : \A o \in pending[g] : Older(o, n) => o \in batch
       /\ held' = [held EXCEPT ![g] = batch]
       /\ pending' = [pending EXCEPT ![g] = @ \ batch]
  /\ UNCHANGED <<clientVars, fetchVars, subPc, subClient, nextNode, flowVars,
                 sessions, closed, created, items, changed, history>>

Response(g, n) ==
  [node |-> nodesToCollect[n.handle], value |-> n, via |-> g]

(* Mutant of Send: the items of a notification in any order. *)
SendUnordered(g) ==
  /\ Buffered < ChanCap
  /\ \E n \in held[g] :
       /\ responses' = Append(responses, Response(g, n))
       /\ held' = [held EXCEPT ![g] = @ \ {n}]
  /\ UNCHANGED <<clientVars, fetchVars, subPc, subClient, nextNode, received,
                 reported, serverVars, history>>

(* Mutant of Send: after a wait the notification is read from its start. *)
SendAgain(g) ==
  /\ Buffered < ChanCap
  /\ \E n \in held[g] : responses' = Append(responses, Response(g, n))
  /\ UNCHANGED <<clientVars, fetchVars, subVars, received, reported,
                 serverVars, history>>

(* client.subscription <- &response, which blocks while the channel is full. *)
Send(g) ==
  /\ Buffered < ChanCap
  /\ \E n \in held[g] :
       /\ \A o \in held[g] : ~ Older(o, n)
       /\ responses' = Append(responses, Response(g, n))
       /\ held' = [held EXCEPT ![g] = @ \ {n}]
  /\ UNCHANGED <<clientVars, fetchVars, subPc, subClient, nextNode, received,
                 reported, serverVars, history>>

-----------------------------------------------------------------------------
(* The server. *)
ChangesOf(g, n, c) ==
  {[change |-> c, handle |-> i.handle, initial |-> FALSE] :
     i \in {j \in items[g] : j.node = n /\ Alive(g)}}

Change(n) ==
  /\ Len(changed) < MaxChanges
  /\ changed' = Append(changed, n)
  /\ pending' = [g \in Clients |->
                   pending[g] \union ChangesOf(g, n, Len(changed'))]
  /\ UNCHANGED <<clientVars, fetchVars, subVars, flowVars, sessions, closed,
                 created, items, history>>

(* DiscardOldest: a newer value may push an older one out of the queue. *)
Discard(g) ==
  /\ \E o, n \in pending[g] :
       /\ Older(o, n)
       /\ pending' = [pending EXCEPT ![g] = @ \ {o}]
  /\ UNCHANGED <<clientVars, fetchVars, subVars, flowVars, sessions, closed,
                 created, items, changed, history>>

(* The server restarts or times the session out; the program is not told. *)
SessionLost(c) ==
  /\ c \in sessions
  /\ sessions' = sessions \ {c}
  /\ UNCHANGED <<clientVars, fetchVars, subVars, flowVars, closed, created,
                 items, pending, changed, history>>

-----------------------------------------------------------------------------
Setup == New \/ NewFails \/ NewStarts \/ NewRejectsNode

Publish == PublishNothing \/ PublishBatch \/ PublishPanics

closeConnection == CloseCancels \/ CloseRecovers \/ CloseSession

establishConnection ==
  ConnectOk \/ ConnectOkWithError \/ ConnectAgain \/ ConnectFails \/ ConnectGivesUp

Fetch == FetchStart \/ Drain \/ Publish \/ closeConnection \/ establishConnection

subscribeTo(g) ==
  \/ SubscribeStart(g) \/ SubscribeOk(g) \/ SubscribeFails(g)
  \/ Monitor(g) \/ MonitorSkips(g) \/ SubscribeOpens(g)
  \/ Receive(g) \/ Send(g)

Server ==
  \/ \E n \in Node : Change(n)
  \/ \E g \in Clients : Discard(g) \/ SessionLost(g)

Next == Setup \/ Fetch \/ (\E g \in Clients : subscribeTo(g)) \/ Server

Spec == Init /\ [][Next]_vars

(* Metricbeat calls Fetch after every period, every call it makes returns, and
   the Go scheduler runs every goroutine.  Nothing is assumed of the server. *)
FairSpec ==
  /\ Spec
  /\ WF_vars(Fetch)
  /\ \A g \in Clients : WF_vars(subscribeTo(g))

-----------------------------------------------------------------------------
FetchPcs == {"new", "browse", "idle", "drain", "closing", "cancelled",
             "reconnect", "dead", "failed"}
SubPcs == {"none", "start", "subscribe", "monitor", "listen", "returned"}

(* Every variable stays in its type. *)
TypeOK ==
  /\ connected \in BOOLEAN
  /\ counter \in CounterFloor..MaxTriesToReconnect
  /\ opcua \in 0..created
  /\ openSubscription \in Clients \union {NoSubscription}
  /\ fetchPc \in FetchPcs
  /\ tries \in 0..RetryOnErrorCount
  /\ subPc \in [Clients -> SubPcs]
  /\ subClient \in [Clients -> Clients \union {NoClient}]
  /\ nextNode \in [Clients -> 1..Len(nodesToCollect)+1]
  /\ held \in [Clients -> SUBSET Notification]
  /\ responses \in Seq(ResponseObject)
  /\ received \in 0..Len(responses)
  /\ reported \in 0..received
  /\ Buffered <= ChanCap
  /\ created \in 0..MaxClients
  /\ sessions \subseteq 1..created
  /\ closed \subseteq 0..created
  /\ items \in [Clients -> SUBSET Item]
  /\ pending \in [Clients -> SUBSET Notification]
  /\ changed \in Seq(Node)
  /\ Len(changed) <= MaxChanges
  /\ silent \in 0..MaxTriesToReconnect+1
  /\ abandoned \subseteq 0..created

(* The values of one monitored item reach the channel in the order in which
   the server saw them, and none twice, whatever the goroutines interleave. *)
InOrder ==
  \A i, j \in DOMAIN responses :
    /\ i < j
    /\ responses[i].via = responses[j].via
    /\ responses[i].value.handle = responses[j].value.handle
    => responses[i].value.change < responses[j].value.change

(* An event names the node whose value changed: the handle sent with Monitor
   and the index used in the listening loop agree, though nodes are skipped. *)
HandleNamesNode ==
  \A i \in DOMAIN responses :
    responses[i].value.change > 0 =>
      changed[responses[i].value.change] = responses[i].node

(* Two events of the same change for the same handle. *)
Twice(i, j) ==
  /\ i # j
  /\ ~ responses[i].value.initial
  /\ responses[i].value = responses[j].value

(* One event for a change of a value: what the configuration file says of the
   subscribe mode.  (Initial values of a new subscription do not count.) *)
OneEventPerChange ==
  \A i, j \in DOMAIN responses : ~ Twice(i, j)

(* As long as no closeConnection was cut short by its recovered panic, a
   change is collected once: old and new subscription never overlap. *)
OneEventUnlessAbandoned == abandoned = {} => OneEventPerChange

(* openSubscription, the only thing a later closeConnection can cancel, is the
   subscription of the current client unless a close was cut short. *)
OpenSubscriptionIsCurrent ==
  abandoned = {} => openSubscription \in {NoSubscription, opcua}

(* Of all clients that ever connected, the program closed every one but the
   current, except those whose close was cut short: no connection is leaked,
   though the server may keep the session of a closed one. *)
ConnectionsAccounted == 1..created \subseteq closed \union abandoned \union {opcua}

(* A connection is torn down only after MaxTriesToReconnect publish attempts
   without an event in a row. *)
PatientTearDown ==
  [][connected /\ ~ connected' => silent = MaxTriesToReconnect /\ silent > 0]_vars

(* "Too much zero publish attempts" closes the connection: none lives through
   more than MaxTriesToReconnect empty publishes in a row. *)
SilenceIsBounded == silent <= MaxTriesToReconnect

-----------------------------------------------------------------------------
(* Nothing can reach the channel any more: it is empty, and every goroutine
   has returned, was never launched, or waits for a server that is gone. *)
Quiet ==
  /\ Batch = 0 /\ Buffered = 0
  /\ \A g \in Clients :
       \/ subPc[g] \in {"none", "returned"}
       \/ subPc[g] = "listen" /\ ~ Alive(g) /\ held[g] = {} /\ pending[g] = {}

Running == fetchPc \notin {"new", "browse", "dead", "failed"}

(* The watchdog: a counter that is still armed ends a connection over which
   nothing can arrive. *)
ArmedWatchdogFires ==
  (Running /\ connected /\ counter > 0 /\ Quiet) ~> ~ connected

(* What reached the channel is reported, or the fetch loop has died, provided
   the connection keeps coming back: a Fetch that is not connected does not
   drain the channel. *)
CollectedIsReported ==
  ([]<> connected) =>
    (reported < Len(responses) ~> reported = Len(responses) \/ fetchPc = "dead")

=============================================================================
