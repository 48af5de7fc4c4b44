------------------------ MODULE OpcuaSubscribe_proofs ------------------------
(***************************************************************************)
(* Theorems about OpcuaSubscribe for every value of its constants.         *)
(***************************************************************************)
EXTENDS OpcuaSubscribe, TLAPS

(* The type invariant is inductive: no step of Fetch, of a goroutine or of the
   server takes a variable out of its type. *)
LEMMA TypeInit == Init => TypeOK
<1> SUFFICES ASSUME Init PROVE TypeOK
  OBVIOUS
<1> USE SubscribeAssumption DEF SubscribeAssumption
<1>1. connected \in BOOLEAN
  BY DEF Init
<1>2. Len(nodesToCollect) \in Nat
  OBVIOUS
<1>3. QED
  BY <1>1, <1>2 DEF Init, TypeOK, CounterFloor, NoClient, NoSubscription, FetchPcs, SubPcs,
     Buffered, Clients

(* The parts of the type invariant, by the variables a step changes together. *)
FetchType ==
  /\ connected \in BOOLEAN
  /\ fetchPc \in FetchPcs

CountType ==
  /\ counter \in CounterFloor..MaxTriesToReconnect
  /\ tries \in 0..RetryOnErrorCount
  /\ silent \in 0..MaxTriesToReconnect+1

ClientType ==
  /\ created \in 0..MaxClients
  /\ opcua \in 0..created
  /\ sessions \subseteq 1..created
  /\ closed \subseteq 0..created
  /\ abandoned \subseteq 0..created

GoroutineType ==
  /\ openSubscription \in Clients \union {NoSubscription}
  /\ subPc \in [Clients -> SubPcs]
  /\ subClient \in [Clients -> Clients \union {NoClient}]
  /\ nextNode \in [Clients -> 1..Len(nodesToCollect)+1]

ChannelType ==
  /\ responses \in Seq(ResponseObject)
  /\ received \in 0..Len(responses)
  /\ reported \in 0..received
  /\ Buffered <= ChanCap

FeedType ==
  /\ held \in [Clients -> SUBSET Notification]
  /\ items \in [Clients -> SUBSET Item]
  /\ pending \in [Clients -> SUBSET Notification]
  /\ changed \in Seq(Node)
  /\ Len(changed) <= MaxChanges

(* The parts make up the whole. *)
LEMMA TypeParts ==
  TypeOK <=> /\ FetchType /\ CountType /\ ClientType
             /\ GoroutineType /\ ChannelType /\ FeedType
BY Zenon DEF TypeOK, FetchType, CountType, ClientType, GoroutineType, ChannelType,
   FeedType

(* Fetch goes from one of its places to another. *)
LEMMA FetchTypeNext == FetchType /\ [Next]_vars => FetchType'
<1> SUFFICES ASSUME FetchType, [Next]_vars PROVE FetchType'
  OBVIOUS
<1>same. ASSUME UNCHANGED <<connected, fetchPc>> PROVE FetchType'
  BY <1>same DEF FetchType
<1>step. ASSUME connected' \in {TRUE, FALSE, connected}, fetchPc' \in FetchPcs
         PROVE  FetchType'
  BY <1>step, Zenon DEF FetchType
<1> USE DEF clientVars, fetchVars, FetchPcs
<1>1. CASE Setup
  BY <1>1, <1>step DEF Setup, New, NewFails, NewStarts, NewRejectsNode, Connect
<1>2. CASE FetchStart \/ Publish \/ closeConnection
  BY <1>2, <1>step DEF FetchStart, Publish, PublishNothing, PublishBatch,
     PublishPanics, closeConnection, CloseCancels, CloseRecovers, CloseSession
<1>3. CASE establishConnection
  BY <1>3, <1>step, <1>same DEF establishConnection, ConnectOk, ConnectOkWithError,
     ConnectAgain, ConnectFails, ConnectGivesUp, Connect, FetchType
<1>4. CASE Drain \/ Server \/ UNCHANGED vars
  BY <1>4, <1>same DEF Drain, Server, Change, Discard, SessionLost, vars
<1>5. ASSUME NEW g \in Clients, subscribeTo(g) PROVE FetchType'
  BY <1>5, <1>same DEF subscribeTo, SubscribeStart, SubscribeOk, SubscribeFails,
     Monitor, MonitorSkips, SubscribeOpens, Receive, Send
<1>6. QED
  BY <1>1, <1>2, <1>3, <1>4, <1>5 DEF Next, Fetch

(* The counters stay within their limits. *)
LEMMA CountTypeNext == CountType /\ [Next]_vars => CountType'
<1> SUFFICES ASSUME CountType, [Next]_vars PROVE CountType'
  OBVIOUS
<1> USE SubscribeAssumption DEF SubscribeAssumption
<1>same. ASSUME UNCHANGED <<counter, tries, silent>> PROVE CountType'
  BY <1>same DEF CountType
<1> USE DEF clientVars, fetchVars, history
<1>1. CASE Setup
  BY <1>1 DEF Setup, New, NewFails, NewStarts, NewRejectsNode, Connect, CountType
<1>2. CASE FetchStart
  BY <1>2 DEF FetchStart, CountType
<1>3. CASE PublishNothing
  BY <1>3 DEF PublishNothing, CountDown, CountType, CounterFloor
<1>4. CASE PublishBatch \/ PublishPanics
  BY <1>4 DEF PublishBatch, PublishPanics, CounterReset, CountType, CounterFloor
<1>5. CASE closeConnection
  BY <1>5, <1>same DEF closeConnection, CloseCancels, CloseRecovers, CloseSession
<1>6. CASE establishConnection
  BY <1>6 DEF establishConnection, ConnectOk, ConnectOkWithError, ConnectAgain,
     ConnectFails, ConnectGivesUp, Connect, CountType
<1>7. CASE Drain \/ Server \/ UNCHANGED vars
  BY <1>7, <1>same DEF Drain, Server, Change, Discard, SessionLost, vars
<1>8. ASSUME NEW g \in Clients, subscribeTo(g) PROVE CountType'
  BY <1>8, <1>same DEF subscribeTo, SubscribeStart, SubscribeOk, SubscribeFails,
     Monitor, MonitorSkips, SubscribeOpens, Receive, Send
<1>9. QED
  BY <1>1, <1>2, <1>3, <1>4, <1>5, <1>6, <1>7, <1>8 DEF Next, Fetch, Publish

(* Clients and sessions are numbered in the order of their creation. *)
LEMMA ClientTypeNext == ClientType /\ [Next]_vars => ClientType'
<1> SUFFICES ASSUME ClientType, [Next]_vars PROVE ClientType'
  OBVIOUS
<1> USE SubscribeAssumption DEF SubscribeAssumption
<1>same. ASSUME UNCHANGED <<opcua, created, sessions, closed, abandoned>>
         PROVE  ClientType'
  BY <1>same DEF ClientType
<1>connect. ASSUME Connect PROVE ClientType'
  BY <1>connect DEF Connect, ClientType
<1> USE DEF clientVars, serverVars, history
<1>1. CASE Setup
  BY <1>1, <1>same, <1>connect DEF Setup, New, NewFails, NewStarts, NewRejectsNode
<1>2. CASE FetchStart \/ Drain \/ Publish
  BY <1>2, <1>same DEF FetchStart, Drain, Publish, PublishNothing, PublishBatch,
     PublishPanics
<1>3. CASE closeConnection
  <2>1. CASE CloseSession
    BY <2>1 DEF CloseSession, Hangup, ClientType
  <2>2. CASE CloseRecovers
    BY <2>2 DEF CloseRecovers, ClientType
  <2>3. QED
    BY <1>3, <2>1, <2>2, <1>same DEF closeConnection, CloseCancels
<1>4. CASE establishConnection
  <2>1. CASE ConnectFails
    BY <2>1 DEF ConnectFails, NoClient, ClientType
  <2>2. QED
    BY <1>4, <2>1, <1>same, <1>connect DEF establishConnection, ConnectOk,
       ConnectOkWithError, ConnectAgain, ConnectGivesUp
<1>5. CASE Server
  BY <1>5, <1>same DEF Server, Change, Discard, SessionLost, ClientType
<1>6. ASSUME NEW g \in Clients, subscribeTo(g) PROVE ClientType'
  BY <1>6, <1>same DEF subscribeTo, SubscribeStart, SubscribeOk, SubscribeFails,
     Monitor, MonitorSkips, SubscribeOpens, Receive, Send
<1>7. CASE UNCHANGED vars
  BY <1>7, <1>same DEF vars
<1>8. QED
  BY <1>1, <1>2, <1>3, <1>4, <1>5, <1>6, <1>7 DEF Next, Fetch

(* A goroutine goes from one of its places to another, and captures a client that
   exists or the one that never connected. *)
LEMMA GoroutineTypeNext ==
  GoroutineType /\ ClientType /\ [Next]_vars => GoroutineType'
<1> SUFFICES ASSUME GoroutineType, ClientType, [Next]_vars PROVE GoroutineType'
  OBVIOUS
<1> USE SubscribeAssumption DEF SubscribeAssumption
<1>same. ASSUME UNCHANGED <<openSubscription, subPc, subClient, nextNode>>
         PROVE  GoroutineType'
  BY <1>same DEF GoroutineType
<1>pc. ASSUME UNCHANGED <<openSubscription, subClient, nextNode>>,
              NEW c, NEW p \in SubPcs, subPc' = [subPc EXCEPT ![c] = p]
       PROVE  GoroutineType'
  BY <1>pc DEF GoroutineType
<1> USE DEF clientVars, subVars
<1>1. CASE Setup
  BY <1>1, <1>same, <1>pc DEF Setup, New, NewFails, NewStarts, NewRejectsNode,
     Connect, startSubscription, SubPcs
<1>2. CASE FetchStart \/ Drain \/ Publish
  BY <1>2, <1>same DEF FetchStart, Drain, Publish, PublishNothing, PublishBatch,
     PublishPanics
<1>3. CASE closeConnection
  BY <1>3, <1>same DEF closeConnection, CloseCancels, CloseRecovers, CloseSession,
     GoroutineType
<1>4. CASE establishConnection
  BY <1>4, <1>same, <1>pc DEF establishConnection, ConnectOk, ConnectOkWithError,
     ConnectAgain, ConnectFails, ConnectGivesUp, Connect, startSubscription, SubPcs
<1>5. CASE Server \/ UNCHANGED vars
  BY <1>5, <1>same DEF Server, Change, Discard, SessionLost, vars
<1>6. ASSUME NEW g \in Clients, subscribeTo(g) PROVE GoroutineType'
  <2>1. CASE SubscribeStart(g)
    <3>1. opcua \in Clients \union {NoClient}
      BY DEF ClientType, Clients, NoClient
    <3>2. QED
      BY <2>1, <3>1 DEF SubscribeStart, GoroutineType, SubPcs
  <2>2. CASE SubscribeOk(g) \/ SubscribeFails(g)
    BY <2>2, <1>pc DEF SubscribeOk, SubscribeFails, SubPcs
  <2>3. CASE Monitor(g) \/ MonitorSkips(g)
    <3>1. /\ nextNode[g] <= Len(nodesToCollect)
          /\ nextNode' = [nextNode EXCEPT ![g] = @ + 1]
          /\ UNCHANGED <<openSubscription, subPc, subClient>>
      BY <2>3 DEF Monitor, MonitorSkips
    <3>2. nextNode[g] + 1 \in 1..Len(nodesToCollect)+1
      BY <3>1 DEF GoroutineType
    <3>3. QED
      BY <3>1, <3>2 DEF GoroutineType
  <2>4. CASE SubscribeOpens(g)
    BY <2>4 DEF SubscribeOpens, GoroutineType, SubPcs
  <2>5. CASE Receive(g) \/ Send(g)
    BY <2>5, <1>same DEF Receive, Send
  <2>6. QED
    BY <1>6, <2>1, <2>2, <2>3, <2>4, <2>5 DEF subscribeTo
<1>7. QED
  BY <1>1, <1>2, <1>3, <1>4, <1>5, <1>6 DEF Next, Fetch

(* What a goroutine holds are notifications, and their handles those of nodes. *)
LEMMA ResponseIsResponse ==
  ASSUME FeedType, NEW g \in Clients, NEW n \in held[g]
  PROVE  Response(g, n) \in ResponseObject
<1>1. n \in Notification
  BY DEF FeedType
<1>2. nodesToCollect[n.handle] \in Node
  BY <1>1, SubscribeAssumption DEF Notification, Handles, SubscribeAssumption
<1>3. QED
  BY <1>1, <1>2 DEF Response, ResponseObject

(* The channel is filled up to its capacity and drained from its start. *)
LEMMA ChannelTypeNext == ChannelType /\ FeedType /\ [Next]_vars => ChannelType'
<1> SUFFICES ASSUME ChannelType, FeedType, [Next]_vars PROVE ChannelType'
  OBVIOUS
<1> USE SubscribeAssumption DEF SubscribeAssumption
<1>same. ASSUME UNCHANGED <<responses, received, reported>> PROVE ChannelType'
  BY <1>same DEF ChannelType, Buffered
<1> USE DEF flowVars
<1>1. CASE Setup
  BY <1>1, <1>same DEF Setup, New, NewFails, NewStarts, NewRejectsNode
<1>2. CASE FetchStart \/ PublishNothing \/ closeConnection \/ establishConnection
  BY <1>2, <1>same DEF FetchStart, PublishNothing, closeConnection, CloseCancels,
     CloseRecovers, CloseSession, establishConnection, ConnectOk, ConnectOkWithError,
     ConnectAgain, ConnectFails, ConnectGivesUp
<1>3. CASE Drain
  BY <1>3 DEF Drain, ChannelType, Buffered
<1>4. CASE PublishBatch \/ PublishPanics
  BY <1>4 DEF PublishBatch, PublishPanics, ChannelType, Buffered
<1>5. CASE Server \/ UNCHANGED vars
  BY <1>5, <1>same DEF Server, Change, Discard, SessionLost, vars
<1>6. ASSUME NEW g \in Clients, subscribeTo(g) PROVE ChannelType'
  <2>1. CASE Send(g)
    <3>1. PICK n \in held[g] : responses' = Append(responses, Response(g, n))
      BY <2>1 DEF Send
    <3>2. Response(g, n) \in ResponseObject
      BY ResponseIsResponse
    <3>3. responses' \in Seq(ResponseObject) /\ Len(responses') = Len(responses) + 1
      BY <3>1, <3>2 DEF ChannelType
    <3>4. received' = received /\ reported' = reported /\ Buffered < ChanCap
      BY <2>1 DEF Send
    <3>5. Len(responses) \in Nat
      BY DEF ChannelType
    <3>6. QED
      BY <3>3, <3>4, <3>5 DEF ChannelType, Buffered
  <2>2. QED
    BY <1>6, <2>1, <1>same DEF subscribeTo, SubscribeStart, SubscribeOk,
       SubscribeFails, Monitor, MonitorSkips, SubscribeOpens, Receive
<1>7. QED
  BY <1>1, <1>2, <1>3, <1>4, <1>5, <1>6 DEF Next, Fetch, Publish

(* What a change sends to a subscription are notifications. *)
LEMMA ChangesAreNotifications ==
  ASSUME FeedType, NEW h \in Clients, NEW n \in Node, NEW c \in 0..MaxChanges
  PROVE  ChangesOf(h, n, c) \subseteq Notification
<1>1. \A i \in items[h] : i.handle \in Handles
  BY DEF FeedType, Item
<1>2. ASSUME NEW m \in ChangesOf(h, n, c) PROVE m \in Notification
  <2>1. PICK i \in items[h] : m = [change |-> c, handle |-> i.handle, initial |-> FALSE]
    BY Zenon DEF ChangesOf
  <2>2. QED
    BY <1>1, <2>1 DEF Notification
<1>3. QED
  BY <1>2

(* Items name nodes, and notifications changes that have happened. *)
LEMMA FeedTypeNext == FeedType /\ GoroutineType /\ [Next]_vars => FeedType'
<1> SUFFICES ASSUME FeedType, GoroutineType, [Next]_vars PROVE FeedType'
  OBVIOUS
<1> USE SubscribeAssumption DEF SubscribeAssumption
<1>same. ASSUME UNCHANGED <<held, items, pending, changed>> PROVE FeedType'
  BY <1>same DEF FeedType
<1> USE DEF subVars, serverVars
<1>1. CASE Setup
  BY <1>1, <1>same DEF Setup, New, NewFails, NewStarts, NewRejectsNode, Connect
<1>2. CASE FetchStart \/ Drain \/ Publish
  BY <1>2, <1>same DEF FetchStart, Drain, Publish, PublishNothing, PublishBatch,
     PublishPanics
<1>3. CASE closeConnection
  <2>1. CASE CloseCancels
    BY <2>1 DEF CloseCancels, FeedType
  <2>2. QED
    BY <1>3, <2>1, <1>same DEF closeConnection, CloseRecovers, CloseSession
<1>4. CASE establishConnection
  BY <1>4, <1>same DEF establishConnection, ConnectOk, ConnectOkWithError,
     ConnectAgain, ConnectFails, ConnectGivesUp, Connect
<1>5. ASSUME NEW g \in Clients, subscribeTo(g) PROVE FeedType'
  <2>1. CASE Monitor(g)
    <3>1. nextNode[g] \in Handles
      BY <2>1 DEF Monitor, Handles, GoroutineType
    <3>2. MonitoredItem(nextNode[g]) \in Item
      BY <3>1 DEF MonitoredItem, Item, Handles
    <3>3. PICK c \in Current(nodesToCollect[nextNode[g]]) :
            pending' = [pending EXCEPT ![g] = @ \union {InitialValue(nextNode[g], c)}]
      BY <2>1 DEF Monitor
    <3>4. c \in 0..MaxChanges
      BY <3>3 DEF Current, FeedType
    <3>5. InitialValue(nextNode[g], c) \in Notification
      BY <3>1, <3>4 DEF InitialValue, Notification
    <3>6. items' = [items EXCEPT ![g] = @ \union {MonitoredItem(nextNode[g])}]
      BY <2>1 DEF Monitor
    <3>7. UNCHANGED <<held, changed>>
      BY <2>1 DEF Monitor
    <3>8. QED
      BY <3>2, <3>3, <3>5, <3>6, <3>7 DEF FeedType
  <2>2. CASE Receive(g)
    <3>1. PICK batch \in SUBSET pending[g] :
            /\ held' = [held EXCEPT ![g] = batch]
            /\ pending' = [pending EXCEPT ![g] = @ \ batch]
      BY <2>2 DEF Receive
    <3>2. UNCHANGED <<items, changed>>
      BY <2>2 DEF Receive
    <3>3. QED
      BY <3>1, <3>2 DEF FeedType
  <2>3. CASE Send(g)
    <3>1. PICK n : held' = [held EXCEPT ![g] = @ \ {n}]
      BY <2>3 DEF Send
    <3>2. UNCHANGED <<items, pending, changed>>
      BY <2>3 DEF Send
    <3>3. QED
      BY <3>1, <3>2 DEF FeedType
  <2>4. QED
    BY <1>5, <2>1, <2>2, <2>3, <1>same DEF subscribeTo, SubscribeStart, SubscribeOk,
       SubscribeFails, MonitorSkips, SubscribeOpens
<1>6. ASSUME NEW n \in Node, Change(n) PROVE FeedType'
  <2>1. /\ changed' = Append(changed, n) /\ Len(changed) < MaxChanges
        /\ pending' = [g \in Clients |->
                         pending[g] \union ChangesOf(g, n, Len(changed'))]
        /\ UNCHANGED <<held, items>>
    BY <1>6 DEF Change
  <2>2. changed' \in Seq(Node) /\ Len(changed') = Len(changed) + 1
    BY <2>1 DEF FeedType
  <2>3. Len(changed') \in 0..MaxChanges
    BY <2>1, <2>2 DEF FeedType
  <2>4. \A h \in Clients : ChangesOf(h, n, Len(changed')) \subseteq Notification
    BY <2>3, ChangesAreNotifications
  <2>5. pending' \in [Clients -> SUBSET Notification]
    BY <2>1, <2>4 DEF FeedType
  <2>6. QED
    BY <2>1, <2>2, <2>3, <2>5 DEF FeedType
<1>7. ASSUME NEW g \in Clients, Discard(g) \/ SessionLost(g) PROVE FeedType'
  BY <1>7, <1>same DEF Discard, SessionLost, FeedType
<1>8. CASE UNCHANGED vars
  BY <1>8, <1>same DEF vars
<1>9. QED
  BY <1>1, <1>2, <1>3, <1>4, <1>5, <1>6, <1>7, <1>8 DEF Next, Fetch, Server

(* No step of New, of Fetch, of a goroutine or of the server takes a variable
   out of its type. *)
LEMMA TypeNext == TypeOK /\ [Next]_vars => TypeOK'
<1>1. (TypeOK <=> /\ FetchType /\ CountType /\ ClientType
                  /\ GoroutineType /\ ChannelType /\ FeedType)'
  BY TypeParts, PTL
<1>2. QED
  BY <1>1, TypeParts, FetchTypeNext, CountTypeNext, ClientTypeNext,
     GoroutineTypeNext, ChannelTypeNext, FeedTypeNext

(* Type correctness: the counter of zero publish attempts stays at or above -1,
   the channel within its capacity, and every other variable in its type. *)
THEOREM TypeCorrect == Spec => []TypeOK
<1>1. QED
  BY TypeInit, TypeNext, PTL DEF Spec

-----------------------------------------------------------------------------
(* The watchdog.  A positive counter and the empty publishes since the last
   event or connect add up to MaxTriesToReconnect; only a Fetch that counted
   down to 0 is closing; while disconnected the counter is used up. *)
WatchdogInv ==
  /\ fetchPc = "new" => counter = MaxTriesToReconnect /\ silent = 0
  /\ fetchPc \in {"browse", "drain", "closing"} => connected
  /\ fetchPc \in {"new", "cancelled"} => ~ connected
  /\ fetchPc = "closing" => silent = MaxTriesToReconnect /\ silent > 0
  /\ counter > 0 => counter + silent = MaxTriesToReconnect
  /\ fetchPc \notin {"new", "failed"} /\ ~ connected => counter <= 0

(* Before New runs nothing was published, and nothing is connected. *)
LEMMA WatchdogInit == Init => WatchdogInv
BY SubscribeAssumption DEF Init, WatchdogInv, SubscribeAssumption

(* Every step keeps the counter and the empty publishes made so far in step. *)
LEMMA WatchdogNext == TypeOK /\ WatchdogInv /\ [Next]_vars => WatchdogInv'
<1> SUFFICES ASSUME TypeOK, WatchdogInv, [Next]_vars PROVE WatchdogInv'
  OBVIOUS
<1> USE SubscribeAssumption DEF SubscribeAssumption
<1>type. /\ connected \in BOOLEAN
         /\ counter \in Int /\ counter <= MaxTriesToReconnect
         /\ silent \in Nat
  BY DEF TypeOK, CounterFloor
<1>same. ASSUME UNCHANGED <<connected, counter, fetchPc, silent>>
         PROVE  WatchdogInv'
  BY <1>same DEF WatchdogInv
<1> USE DEF WatchdogInv, clientVars, fetchVars, subVars, flowVars, serverVars, history
<1>1. CASE New
  BY <1>1, <1>type DEF New, Connect
<1>2. CASE NewFails
  BY <1>2, <1>type DEF NewFails
<1>3. CASE NewStarts
  BY <1>3, <1>type DEF NewStarts
<1>4. CASE NewRejectsNode
  BY <1>4, <1>type DEF NewRejectsNode
<1>5. CASE FetchStart
  BY <1>5, <1>type DEF FetchStart
<1>6. CASE Drain
  BY <1>6, <1>same DEF Drain
<1>7. CASE PublishNothing
  <2>1. connected /\ connected' = connected
    BY <1>7 DEF PublishNothing
  <2>2. CASE counter' = 0
    <3>1. counter = 1 /\ fetchPc' = "closing" /\ counter + silent = MaxTriesToReconnect
      BY <1>7, <2>2, <1>type DEF PublishNothing, CountDown, CounterFloor
    <3>2. silent' = silent + 1
      BY <1>7, <3>1, <1>type DEF PublishNothing, CountDown
    <3>3. QED
      BY <2>1, <2>2, <3>1, <3>2, <1>type
  <2>3. CASE counter' # 0
    <3>1. fetchPc' = "idle"
      BY <1>7, <2>3 DEF PublishNothing
    <3>2. counter' > 0 => counter' + silent' = MaxTriesToReconnect
      BY <1>7, <2>3, <1>type DEF PublishNothing, CountDown, CounterFloor
    <3>3. QED
      BY <2>1, <3>1, <3>2
  <2>4. QED
    BY <2>2, <2>3
<1>8. CASE PublishBatch
  BY <1>8, <1>type DEF PublishBatch, CounterReset
<1>9. CASE PublishPanics
  BY <1>9, <1>type DEF PublishPanics, CounterReset
<1>10. CASE CloseCancels
  BY <1>10, <1>type DEF CloseCancels
<1>11. CASE CloseRecovers
  BY <1>11, <1>type DEF CloseRecovers
<1>12. CASE CloseSession
  BY <1>12, <1>type DEF CloseSession
<1>13. CASE ConnectOk
  BY <1>13, <1>type DEF ConnectOk, Connect
<1>14. CASE ConnectOkWithError
  BY <1>14, <1>type DEF ConnectOkWithError, Connect
<1>15. CASE ConnectAgain
  BY <1>15, <1>type DEF ConnectAgain
<1>16. CASE ConnectFails
  BY <1>16, <1>same DEF ConnectFails
<1>17. CASE ConnectGivesUp
  BY <1>17, <1>type DEF ConnectGivesUp
<1>18. ASSUME NEW g \in Clients, subscribeTo(g) PROVE WatchdogInv'
  BY <1>18, <1>same DEF subscribeTo, SubscribeStart, SubscribeOk, SubscribeFails,
     Monitor, MonitorSkips, SubscribeOpens, Receive, Send
<1>19. CASE Server
  BY <1>19, <1>same DEF Server, Change, Discard, SessionLost
<1>20. CASE UNCHANGED vars
  BY <1>20, <1>same DEF vars
<1>21. QED
  BY <1>1, <1>2, <1>3, <1>4, <1>5, <1>6, <1>7, <1>8, <1>9, <1>10, <1>11, <1>12,
     <1>13, <1>14, <1>15, <1>16, <1>17, <1>18, <1>19, <1>20
  DEF Next, Setup, Fetch, Publish, closeConnection, establishConnection

(* The watchdog invariant holds in every reachable state. *)
THEOREM WatchdogCorrect == Spec => [](TypeOK /\ WatchdogInv)
<1>1. QED
  BY TypeInit, TypeNext, WatchdogInit, WatchdogNext, PTL DEF Spec

(* For every configuration: connected goes from TRUE to FALSE only after
   MaxTriesToReconnect empty publishes in a row. *)
THEOREM TearDownIsPatient == Spec => PatientTearDown
<1>1. TypeOK /\ WatchdogInv /\ [Next]_vars =>
        [connected /\ ~ connected' => silent = MaxTriesToReconnect /\ silent > 0]_vars
  <2> SUFFICES ASSUME WatchdogInv, [Next]_vars, connected, ~ connected'
               PROVE  silent = MaxTriesToReconnect /\ silent > 0
    OBVIOUS
  <2> USE DEF clientVars, fetchVars, subVars, flowVars, serverVars, history
  <2>1. fetchPc = "closing"
    <3>1. CASE Setup
      BY <3>1 DEF Setup, New, NewFails, NewStarts, NewRejectsNode, Connect
    <3>2. CASE FetchStart \/ Drain \/ Publish
      BY <3>2 DEF FetchStart, Drain, Publish, PublishNothing, PublishBatch, PublishPanics
    <3>3. CASE closeConnection
      BY <3>3 DEF closeConnection, CloseCancels, CloseRecovers, CloseSession
    <3>4. CASE establishConnection
      BY <3>4 DEF establishConnection, ConnectOk, ConnectOkWithError, ConnectAgain,
         ConnectFails, ConnectGivesUp, Connect
    <3>5. ASSUME NEW g \in Clients, subscribeTo(g) PROVE FALSE
      BY <3>5 DEF subscribeTo, SubscribeStart, SubscribeOk, SubscribeFails,
         Monitor, MonitorSkips, SubscribeOpens, Receive, Send
    <3>6. CASE Server
      BY <3>6 DEF Server, Change, Discard, SessionLost
    <3>7. CASE UNCHANGED vars
      BY <3>7 DEF vars
    <3>8. QED
      BY <3>1, <3>2, <3>3, <3>4, <3>5, <3>6, <3>7 DEF Next, Fetch
  <2>2. QED
    BY <2>1 DEF WatchdogInv
<1>2. QED
  BY <1>1, WatchdogCorrect, PTL DEF Spec, PatientTearDown

(* Connections.  While the program is disconnected, all that it ever opened are
   closed, or their close was cut short. *)
ConnectionInv ==
  /\ 1..created \subseteq closed \union abandoned \union {opcua}
  /\ ~ connected /\ fetchPc # "cancelled" => 1..created \subseteq closed \union abandoned

(* Before New runs no client has connected. *)
LEMMA ConnectionInit == Init => ConnectionInv
BY DEF Init, ConnectionInv

(* Every step keeps the connections within those the program can name. *)
LEMMA ConnectionNext ==
  TypeOK /\ WatchdogInv /\ ConnectionInv /\ [Next]_vars => ConnectionInv'
<1> SUFFICES ASSUME TypeOK, WatchdogInv, ConnectionInv, [Next]_vars PROVE ConnectionInv'
  OBVIOUS
<1>same. ASSUME UNCHANGED <<connected, opcua, created, closed, abandoned>>,
                fetchPc = "cancelled" => fetchPc' = "cancelled"
         PROVE  ConnectionInv'
  BY <1>same DEF ConnectionInv
<1> USE DEF clientVars, fetchVars, subVars, flowVars, serverVars, history
<1>1. CASE New \/ ConnectOk \/ ConnectOkWithError
  <2>1. 1..created \subseteq closed \union abandoned
    BY <1>1 DEF ConnectionInv, WatchdogInv, New, ConnectOk, ConnectOkWithError
  <2>2. /\ connected' /\ abandoned' = abandoned /\ closed' = closed
        /\ created' = created + 1 /\ opcua' = created'
    BY <1>1 DEF New, ConnectOk, ConnectOkWithError, Connect
  <2>3. 1..created' \subseteq 1..created \union {opcua'}
    BY <2>2, SubscribeAssumption DEF TypeOK, SubscribeAssumption
  <2>4. QED
    BY <2>1, <2>2, <2>3 DEF ConnectionInv
<1>2. CASE NewFails \/ NewStarts \/ NewRejectsNode
  BY <1>2, <1>same DEF NewFails, NewStarts, NewRejectsNode
<1>3. CASE FetchStart \/ Drain \/ Publish
  BY <1>3, <1>same DEF FetchStart, Drain, Publish, PublishNothing, PublishBatch,
     PublishPanics
<1>4. CASE CloseCancels
  BY <1>4 DEF CloseCancels, ConnectionInv
<1>5. CASE CloseRecovers
  BY <1>5 DEF CloseRecovers, ConnectionInv
<1>6. CASE CloseSession
  BY <1>6 DEF CloseSession, Hangup, ConnectionInv
<1>7. CASE ConnectAgain \/ ConnectGivesUp
  BY <1>7, <1>same DEF ConnectAgain, ConnectGivesUp
<1>8. CASE ConnectFails
  BY <1>8 DEF ConnectFails, ConnectionInv
<1>9. ASSUME NEW g \in Clients, subscribeTo(g) PROVE ConnectionInv'
  BY <1>9, <1>same DEF subscribeTo, SubscribeStart, SubscribeOk, SubscribeFails,
     Monitor, MonitorSkips, SubscribeOpens, Receive, Send
<1>10. CASE Server
  BY <1>10, <1>same DEF Server, Change, Discard, SessionLost
<1>11. CASE UNCHANGED vars
  BY <1>11, <1>same DEF vars
<1>12. QED
  BY <1>1, <1>2, <1>3, <1>4, <1>5, <1>6, <1>7, <1>8, <1>9, <1>10, <1>11
  DEF Next, Setup, Fetch, closeConnection, establishConnection

(* For every configuration, any number of reconnects and whatever the server
   answers to a close: every client that connected is closed, the current one, or
   one whose close was cut short by its panic. *)
THEOREM ConnectionsAreAccounted == Spec => []ConnectionsAccounted
<1>1. ConnectionInv => ConnectionsAccounted
  BY DEF ConnectionInv, ConnectionsAccounted
<1>2. QED
  BY <1>1, ConnectionInit, ConnectionNext, WatchdogCorrect, PTL DEF Spec

=============================================================================
