---------------------- MODULE OpcuaSubscribeSole_proofs ----------------------
(***************************************************************************)
(* As long as no closeConnection was cut short, subscriptions of           *)
(* OpcuaSubscribe never overlap and a change is collected once; and, with  *)
(* what OpcuaSubscribeFeed_proofs shows, OpcuaSubscribe implements         *)
(* ChangeFeed: for every value of the constants.                           *)
(***************************************************************************)
EXTENDS OpcuaSubscribeFeed_proofs, OpcuaFeed

(* There is one subscription: that of the current client. *)
SoleSubscription ==
  /\ sessions \ closed \subseteq {opcua}
  /\ \A g \in Clients :
       /\ subPc[g] \in {"start", "subscribe", "monitor"} => g = opcua /\ connected
       /\ subClient[g] \in {NoClient, g}
       /\ g > created => subPc[g] = "none"
  /\ openSubscription # NoSubscription =>
       /\ openSubscription = opcua
       /\ subPc[opcua] = "listen"
       /\ connected \/ fetchPc = "cancelled"
  /\ fetchPc \in {"browse", "reconnect"} /\ connected => subPc[opcua] = "none"

(* Goroutine g has or sent the notification n. *)
Carries(g, n) ==
  \/ n \in Unsent(g)
  \/ \E i \in DOMAIN responses : responses[i].via = g /\ responses[i].value = n

(* What goroutines have and sent came over different sessions at different
   times, so no change occurs in two of them. *)
Disjoint ==
  \A g, h \in Clients : \A n \in Notification :
    ~ n.initial /\ Carries(g, n) /\ Carries(h, n) => g = h

SoleInv == abandoned = {} => SoleSubscription /\ Disjoint

(* Before New runs there is no subscription at all. *)
LEMMA SoleInit == Init => SoleInv
BY DEF Init, SoleInv, SoleSubscription, Disjoint, Carries, Unsent

(* A session whose close was cut short stays one. *)
LEMMA AbandonedGrows == [Next]_vars => abandoned \subseteq abandoned'
<1> SUFFICES ASSUME [Next]_vars PROVE abandoned \subseteq abandoned'
  OBVIOUS
<1> USE DEF clientVars, fetchVars, subVars, flowVars, serverVars, history
<1>1. CASE Setup
  BY <1>1 DEF Setup, New, NewFails, NewStarts, NewRejectsNode, Connect
<1>2. CASE FetchStart \/ Drain \/ Publish
  BY <1>2 DEF FetchStart, Drain, Publish, PublishNothing, PublishBatch, PublishPanics
<1>3. CASE closeConnection
  BY <1>3 DEF closeConnection, CloseCancels, CloseRecovers, CloseSession
<1>4. CASE establishConnection
  BY <1>4 DEF establishConnection, ConnectOk, ConnectOkWithError, ConnectAgain,
     ConnectFails, ConnectGivesUp, Connect
<1>5. ASSUME NEW g \in Clients, subscribeTo(g) PROVE abandoned \subseteq abandoned'
  BY <1>5 DEF subscribeTo, SubscribeStart, SubscribeOk, SubscribeFails,
     Monitor, MonitorSkips, SubscribeOpens, Receive, Send
<1>6. CASE Server
  BY <1>6 DEF Server, Change, Discard, SessionLost
<1>7. CASE UNCHANGED vars
  BY <1>7 DEF vars
<1>8. QED
  BY <1>1, <1>2, <1>3, <1>4, <1>5, <1>6, <1>7 DEF Next, Fetch

-----------------------------------------------------------------------------
(* A new client: disconnected, the old ones have neither a connection nor an open
   subscription nor a goroutine on its way to one. *)
LEMMA SoleConnect ==
  ASSUME TypeOK, WatchdogInv, ConnectionInv, SoleSubscription, abandoned = {},
         New \/ ConnectOk \/ ConnectOkWithError
  PROVE  SoleSubscription'
<1>1. /\ ~ connected /\ fetchPc \in {"new", "reconnect"} /\ Connect
  BY DEF New, ConnectOk, ConnectOkWithError, WatchdogInv
<1>2. /\ opcua' = created + 1 /\ created' = created + 1 /\ connected'
      /\ sessions' = sessions \union {opcua'} /\ closed' = closed
      /\ openSubscription' = openSubscription
  BY <1>1 DEF Connect
<1>3. sessions \ closed = {} /\ openSubscription = NoSubscription
  BY <1>1 DEF ConnectionInv, SoleSubscription, TypeOK
<1>4. /\ created \in Nat /\ subPc \in [Clients -> SubPcs]
      /\ subClient' = subClient /\ opcua' \in Clients
  BY <1>1, <1>2, SubscribeAssumption
  DEF TypeOK, Connect, New, ConnectOk, ConnectOkWithError, subVars, Clients
<1>5. subPc[opcua'] = "none"
  BY <1>2, <1>4 DEF SoleSubscription, Clients
<1>6. \A g \in Clients : subPc[g] \notin {"start", "subscribe", "monitor"}
  BY <1>1 DEF SoleSubscription
<1>7. CASE subPc' = subPc
  BY <1>2, <1>3, <1>4, <1>5, <1>6, <1>7 DEF SoleSubscription, Clients
<1>8. CASE ConnectOk
  <2>1. subPc' = [subPc EXCEPT ![opcua'] = "start"] /\ fetchPc' = "idle"
    BY <1>8 DEF ConnectOk, startSubscription
  <2>2. QED
    BY <1>2, <1>3, <1>4, <1>6, <2>1 DEF SoleSubscription, Clients
<1>9. QED
  BY <1>7, <1>8 DEF New, ConnectOkWithError, subVars

(* Unless a close is cut short, a step leaves no subscription but that of the
   current client able to collect. *)
LEMMA SoleSubscriptionNext ==
  ASSUME TypeOK, WatchdogInv, ConnectionInv, SoleSubscription, abandoned = {},
         abandoned' = {}, [Next]_vars
  PROVE  SoleSubscription'
<1>same. ASSUME UNCHANGED <<connected, opcua, openSubscription, subPc, subClient,
                            created>>,
                sessions' \subseteq sessions, closed' = closed,
                fetchPc' = fetchPc \/ fetchPc \notin {"browse", "reconnect", "cancelled"},
                fetchPc' \in {"browse", "reconnect"} /\ connected => fetchPc' = fetchPc
         PROVE  SoleSubscription'
  BY <1>same DEF SoleSubscription
<1> USE DEF clientVars, fetchVars, subVars, flowVars, serverVars, history
<1>1. CASE New \/ ConnectOk \/ ConnectOkWithError
  BY <1>1, SoleConnect
<1>2. CASE NewFails
  BY <1>2, <1>same DEF NewFails
<1>3. CASE NewStarts \/ ConnectAgain
  <2>1. /\ connected /\ subPc[opcua] = "none" /\ fetchPc' = "idle"
        /\ subPc' = subPc \/ subPc' = [subPc EXCEPT ![opcua] = "start"]
        /\ UNCHANGED <<connected, opcua, openSubscription, subClient, created, sessions,
                       closed>>
    BY <1>3 DEF NewStarts, ConnectAgain, startSubscription, SoleSubscription, WatchdogInv
  <2>2. openSubscription = NoSubscription
    BY <2>1 DEF SoleSubscription
  <2>3. opcua \in 0..created /\ subPc \in [Clients -> SubPcs] /\ created \in Nat
    BY SubscribeAssumption DEF TypeOK
  <2>4. \A g \in Clients : /\ g # opcua => subPc'[g] = subPc[g]
                           /\ g > created => g # opcua
    BY <2>1, <2>3, SubscribeAssumption DEF Clients
  <2>5. \A g \in Clients :
          /\ subPc'[g] \in {"start", "subscribe", "monitor"} => g = opcua
          /\ g > created => subPc'[g] = "none"
    BY <2>4 DEF SoleSubscription
  <2>6. QED
    BY <2>1, <2>2, <2>5 DEF SoleSubscription
<1>4. CASE NewRejectsNode
  BY <1>4 DEF NewRejectsNode, SoleSubscription, WatchdogInv
<1>5. CASE FetchStart \/ Drain \/ Publish
  BY <1>5, <1>same DEF FetchStart, Drain, Publish, PublishNothing, PublishBatch,
     PublishPanics
<1>6. CASE CloseCancels
  BY <1>6 DEF CloseCancels, SoleSubscription
<1>7. CASE CloseRecovers
  BY <1>7 DEF CloseRecovers
<1>8. CASE CloseSession
  BY <1>8 DEF CloseSession, Hangup, SoleSubscription, WatchdogInv
<1>9. CASE ConnectFails
  <2>1. sessions \ closed = {} /\ openSubscription = NoSubscription /\ ~ connected
    BY <1>9 DEF ConnectFails, ConnectionInv, SoleSubscription, TypeOK
  <2>2. QED
    BY <1>9, <2>1 DEF ConnectFails, SoleSubscription
<1>10. CASE ConnectGivesUp
  BY <1>10 DEF ConnectGivesUp, SoleSubscription
<1>11. ASSUME NEW g \in Clients, subscribeTo(g) PROVE SoleSubscription'
  <2>1. CASE SubscribeStart(g)
    BY <1>11, <2>1 DEF SubscribeStart, SoleSubscription, TypeOK
  <2>2. CASE SubscribeOk(g)
    BY <1>11, <2>2 DEF SubscribeOk, SoleSubscription, TypeOK
  <2>3. CASE SubscribeFails(g)
    BY <1>11, <2>3 DEF SubscribeFails, SoleSubscription, TypeOK
  <2>4. CASE SubscribeOpens(g)
    BY <1>11, <2>4 DEF SubscribeOpens, SoleSubscription, TypeOK
  <2>5. CASE Monitor(g) \/ MonitorSkips(g) \/ Receive(g) \/ Send(g)
    BY <2>5, <1>same DEF Monitor, MonitorSkips, Receive, Send
  <2>6. QED
    BY <1>11, <2>1, <2>2, <2>3, <2>4, <2>5 DEF subscribeTo
<1>12. CASE Server
  BY <1>12, <1>same DEF Server, Change, Discard, SessionLost
<1>13. CASE UNCHANGED vars
  BY <1>13, <1>same DEF vars
<1>14. QED
  BY <1>1, <1>2, <1>3, <1>4, <1>5, <1>6, <1>7, <1>8, <1>9, <1>10, <1>11, <1>12, <1>13
  DEF Next, Setup, Fetch, closeConnection, establishConnection

-----------------------------------------------------------------------------
(* A step that brings no goroutine a change it did not have. *)
LEMMA DisjointKeeps ==
  ASSUME Disjoint,
         \A g \in Clients, n \in Notification :
           ~ n.initial /\ Carries(g, n)' => Carries(g, n)
  PROVE  Disjoint'
BY DEF Disjoint

(* The server tells a change to the current goroutine alone, and none has a
   change of that number yet. *)
LEMMA DisjointChange ==
  ASSUME TypeOK, FeedInv, SoleSubscription, Disjoint, NEW n \in Node, Change(n)
  PROVE  Disjoint'
<1>0. PICK c \in Nat : c = Len(changed) + 1
  BY DEF TypeOK
<1>1. /\ pending' = [g \in Clients |-> pending[g] \union ChangesOf(g, n, c)]
      /\ UNCHANGED <<held, responses>>
  BY <1>0 DEF Change, TypeOK, subVars, flowVars
<1>2. ASSUME NEW g \in Clients, NEW m, m \in ChangesOf(g, n, c)
      PROVE  m.change = c /\ g = opcua
  <2>1. m.change = c /\ subClient[g] \in sessions \ closed
    BY <1>2 DEF ChangesOf, Alive
  <2>2. subClient[g] # NoClient
    BY <2>1 DEF TypeOK, NoClient
  <2>3. QED
    BY <2>1, <2>2 DEF SoleSubscription
<1>3. ASSUME NEW g \in Clients, NEW m \in Notification, Carries(g, m)
      PROVE  m.change < c
  <2>1. Known(g, m)
    BY <1>3 DEF Carries, FeedInv, UnsentInv, SentInv
  <2>2. m.change \in Int
    BY SubscribeAssumption DEF Notification
  <2>3. QED
    BY <1>0, <2>1, <2>2 DEF Known, TypeOK
<1>4. \A g \in Clients, m \in Notification :
        Carries(g, m)' => Carries(g, m) \/ m \in ChangesOf(g, n, c)
  BY <1>1 DEF Carries, Unsent
<1>5. SUFFICES ASSUME NEW g \in Clients, NEW h \in Clients, NEW m \in Notification,
                      ~ m.initial, Carries(g, m)', Carries(h, m)'
               PROVE  g = h
  BY DEF Disjoint
<1>6. CASE Carries(g, m) /\ Carries(h, m)
  BY <1>5, <1>6 DEF Disjoint
<1>7. CASE m.change = c
  <2>1. ~ Carries(g, m) /\ ~ Carries(h, m)
    <3>1. ~ (m.change < c)
      BY <1>0, <1>7
    <3>2. QED
      BY <1>3, <3>1
  <2>2. QED
    BY <1>2, <1>4, <1>5, <2>1
<1>8. QED
  BY <1>2, <1>4, <1>5, <1>6, <1>7

(* Unless a close is cut short, a step gives no change to two goroutines. *)
LEMMA DisjointNext ==
  ASSUME TypeOK, FeedInv, SoleSubscription, Disjoint, [Next]_vars
  PROVE  Disjoint'
<1>same. ASSUME UNCHANGED <<held, pending, responses>> PROVE Disjoint'
  BY <1>same, DisjointKeeps DEF Carries, Unsent
<1> USE DEF clientVars, fetchVars, subVars, flowVars, serverVars, history
<1>1. CASE Setup
  BY <1>1, <1>same DEF Setup, New, NewFails, NewStarts, NewRejectsNode, Connect
<1>2. CASE FetchStart \/ Drain \/ Publish
  BY <1>2, <1>same DEF FetchStart, Drain, Publish, PublishNothing, PublishBatch,
     PublishPanics
<1>3. CASE closeConnection
  BY <1>3, <1>same DEF closeConnection, CloseCancels, CloseRecovers, CloseSession
<1>4. CASE establishConnection
  BY <1>4, <1>same DEF establishConnection, ConnectOk, ConnectOkWithError,
     ConnectAgain, ConnectFails, ConnectGivesUp, Connect
<1>5. ASSUME NEW g \in Clients, subscribeTo(g) PROVE Disjoint'
  <2>1. CASE SubscribeStart(g) \/ SubscribeOk(g) \/ SubscribeFails(g)
             \/ MonitorSkips(g) \/ SubscribeOpens(g)
    BY <2>1, <1>same
    DEF SubscribeStart, SubscribeOk, SubscribeFails, MonitorSkips, SubscribeOpens
  <2>2. CASE Monitor(g)
    <3>1. PICK c : pending' = [pending EXCEPT ![g] = @ \union {InitialValue(nextNode[g], c)}]
      BY <2>2 DEF Monitor
    <3>2. UNCHANGED <<held, responses>> /\ InitialValue(nextNode[g], c).initial
      BY <2>2 DEF Monitor, InitialValue
    <3>3. \A h \in Clients, n \in Notification :
            ~ n.initial /\ Carries(h, n)' => Carries(h, n)
      BY <3>1, <3>2 DEF Carries, Unsent, TypeOK
    <3>4. QED
      BY <3>3, DisjointKeeps
  <2>3. CASE Receive(g)
    <3>1. PICK batch \in SUBSET pending[g] :
            /\ held' = [held EXCEPT ![g] = batch]
            /\ pending' = [pending EXCEPT ![g] = @ \ batch]
      BY <2>3 DEF Receive
    <3>2. UNCHANGED responses
      BY <2>3 DEF Receive
    <3>3. \A h \in Clients, n \in Notification : Carries(h, n)' => Carries(h, n)
      BY <3>1, <3>2 DEF Carries, Unsent, TypeOK
    <3>4. QED
      BY <3>3, DisjointKeeps
  <2>4. CASE Send(g)
    <3>1. PICK n \in held[g] : /\ responses' = Append(responses, Response(g, n))
                               /\ held' = [held EXCEPT ![g] = @ \ {n}]
      BY <2>4 DEF Send
    <3>2. UNCHANGED pending
      BY <2>4 DEF Send
    <3>3. \A h \in Clients : Unsent(h)' \subseteq Unsent(h)
      BY <3>1, <3>2 DEF Unsent, TypeOK
    <3>4. /\ DOMAIN responses' = DOMAIN responses \union {Len(responses) + 1}
          /\ \A i \in DOMAIN responses : responses'[i] = responses[i]
          /\ responses'[Len(responses) + 1] = Response(g, n)
      BY <3>1 DEF TypeOK
    <3>5. Response(g, n).via = g /\ Response(g, n).value = n /\ n \in Unsent(g)
      BY DEF Response, Unsent
    <3>6. \A h \in Clients, m \in Notification : Carries(h, m)' => Carries(h, m)
      BY <3>3, <3>4, <3>5 DEF Carries
    <3>7. QED
      BY <3>6, DisjointKeeps
  <2>5. QED
    BY <1>5, <2>1, <2>2, <2>3, <2>4 DEF subscribeTo
<1>6. ASSUME NEW g \in Clients, Discard(g) PROVE Disjoint'
  <2>1. UNCHANGED <<held, responses>> /\ \A h \in Clients : pending'[h] \subseteq pending[h]
    BY <1>6 DEF Discard, TypeOK
  <2>2. \A h \in Clients, n \in Notification : Carries(h, n)' => Carries(h, n)
    BY <2>1 DEF Carries, Unsent
  <2>3. QED
    BY <2>2, DisjointKeeps
<1>7. ASSUME NEW g \in Clients, SessionLost(g) PROVE Disjoint'
  BY <1>7, <1>same DEF SessionLost
<1>8. CASE UNCHANGED vars
  BY <1>8, <1>same DEF vars
<1>9. QED
  BY <1>1, <1>2, <1>3, <1>4, <1>5, <1>6, <1>7, <1>8, DisjointChange
  DEF Next, Fetch, Server

-----------------------------------------------------------------------------
(* The two facts together: every step keeps a single collecting subscription. *)
LEMMA SoleNext ==
  TypeOK /\ WatchdogInv /\ ConnectionInv /\ FeedInv /\ SoleInv /\ [Next]_vars => SoleInv'
<1> SUFFICES ASSUME TypeOK, WatchdogInv, ConnectionInv, FeedInv, SoleInv, [Next]_vars,
                    abandoned' = {}
             PROVE  SoleSubscription' /\ Disjoint'
  BY DEF SoleInv
<1>1. abandoned = {}
  BY AbandonedGrows
<1>2. SoleSubscription /\ Disjoint
  BY <1>1 DEF SoleInv
<1>3. QED
  BY <1>1, <1>2, SoleSubscriptionNext, DisjointNext

(* All the invariants of the subscribe mode hold in every reachable state. *)
LEMMA SoleCorrect == Spec => [](TypeOK /\ FeedInv /\ SoleInv)
<1>1. QED
  BY WatchdogCorrect, ConnectionInit, ConnectionNext, FeedInit, FeedNext, SoleInit,
     SoleNext, PTL DEF Spec

(* For every configuration and any number of reconnects: unless a close was cut
   short, no change of a monitored item is collected twice. *)
THEOREM ChangesAreCollectedOnce == Spec => []OneEventUnlessAbandoned
<1>1. TypeOK /\ FeedInv /\ SoleInv => OneEventUnlessAbandoned
  <2> SUFFICES ASSUME TypeOK, FeedInv, SoleInv, abandoned = {},
                      NEW i \in DOMAIN responses, NEW j \in DOMAIN responses,
                      Twice(i, j)
               PROVE  FALSE
    BY DEF OneEventUnlessAbandoned, OneEventPerChange
  <2>1. /\ i # j /\ ~ responses[i].value.initial
        /\ responses[i].value = responses[j].value
    BY DEF Twice
  <2>2. /\ responses[i].via \in Clients /\ responses[j].via \in Clients
        /\ responses[i].value \in Notification
    BY ResponseType
  <2>3. responses[i].via = responses[j].via
    BY <2>1, <2>2 DEF SoleInv, Disjoint, Carries
  <2>4. responses[i].value.change \in Int /\ i \in Int /\ j \in Int
    <3>1. responses[i].value.change \in 0..MaxChanges
      BY <2>2 DEF Notification
    <3>2. responses \in Seq(ResponseObject)
      BY DEF TypeOK
    <3>3. QED
      BY <3>1, <3>2
  <2>5. QED
    <3>1. InOrder
      BY DEF FeedInv
    <3>2. ~ i < j
      BY <2>1, <2>3, <2>4, <3>1 DEF InOrder
    <3>3. ~ j < i
      BY <2>1, <2>3, <2>4, <3>1 DEF InOrder
    <3>4. QED
      BY <2>1, <2>4, <3>2, <3>3
<1>2. QED
  BY <1>1, SoleCorrect, PTL

(* For every configuration: unless a close was cut short, what closeConnection
   would cancel is the subscription of the current client. *)
THEOREM OpenSubscriptionsAreCurrent == Spec => []OpenSubscriptionIsCurrent
<1>1. SoleInv => OpenSubscriptionIsCurrent
  BY DEF SoleInv, SoleSubscription, OpenSubscriptionIsCurrent
<1>2. QED
  BY <1>1, SoleCorrect, PTL

-----------------------------------------------------------------------------
(* The refinement of ChangeFeed: every step is one of the feed or stutters. *)
FeedSame == UNCHANGED <<changed, responses, reported, abandoned>>

LEMMA SameStutters == FeedSame => UNCHANGED Feed!vars
BY DEF FeedSame, Feed!vars

(* A goroutine sends: its value is later than all it sent of the handle and, unless
   a close was cut short, no other goroutine sent it. *)
LEMMA SendCollects ==
  ASSUME TypeOK, FeedInv, SoleInv, NEW g \in Clients, Send(g)
  PROVE  Feed!Next
<1>1. PICK n \in held[g] : responses' = Append(responses, Response(g, n))
  BY DEF Send
<1>2. UNCHANGED <<changed, reported, abandoned>>
  BY DEF Send, serverVars, history
<1>3. n \in Notification /\ n \in Unsent(g) /\ Known(g, n)
  BY DEF TypeOK, Unsent, FeedInv, UnsentInv
<1>4. n.handle \in Handles /\ n.change \in 0..Len(changed) /\ n.initial \in BOOLEAN
  <2>1. n.handle \in Handles /\ n.initial \in BOOLEAN
    BY <1>3 DEF Notification
  <2>2. n.change \in Nat /\ n.change <= Len(changed)
    BY <1>3 DEF Notification, Known
  <2>3. Len(changed) \in Nat
    BY DEF TypeOK
  <2> QED
    BY <2>1, <2>2, <2>3
<1>5. n.handle \in Feed!Handle
  BY <1>4, SubscribeAssumption DEF Feed!Handle, Handles
<1>6. Feed!IsValueOf(n.handle, n.change)
  BY <1>3 DEF Feed!IsValueOf, Known
<1>7. Feed!IsNext(g, n.handle, n.change)
  <2> SUFFICES ASSUME NEW i \in DOMAIN responses, responses[i].via = g,
                      responses[i].value.handle = n.handle
               PROVE  responses[i].value.change < n.change
    BY DEF Feed!IsNext
  <2> QED
    BY <1>3 DEF FeedInv, SentInv
<1>8. Feed!IsFirst(n)
  <2> SUFFICES ASSUME abandoned = {}, ~ n.initial, NEW i \in DOMAIN responses,
                      responses[i].value = n
               PROVE  FALSE
    BY DEF Feed!IsFirst
  <2>1. responses[i].via \in Clients
    BY ResponseType
  <2>2. Carries(responses[i].via, n) /\ Carries(g, n)
    BY <1>3 DEF Carries
  <2>3. responses[i].via = g
    BY <1>3, <2>1, <2>2 DEF SoleInv, Disjoint
  <2>4. n.change < n.change
    BY <1>3, <2>3 DEF FeedInv, SentInv
  <2> QED
    BY <1>4, <2>4
<1>9. n = [change |-> n.change, handle |-> n.handle, initial |-> n.initial]
  BY <1>3 DEF Notification
<1>10. Response(g, n) = [node |-> nodesToCollect[n.handle], value |-> n, via |-> g]
  BY DEF Response
<1>11. Feed!Collect(g, n.handle, n.change)
  <2>1. PICK c, h, b : c = n.change /\ h = n.handle /\ b = n.initial
    OBVIOUS
  <2>2. n = [change |-> c, handle |-> h, initial |-> b]
    BY <1>9, <2>1
  <2>3. /\ Feed!IsFirst([change |-> c, handle |-> h, initial |-> b])
        /\ responses' = Append(responses, [node |-> nodesToCollect[h],
                                 value |-> [change |-> c, handle |-> h, initial |-> b],
                                 via |-> g])
    BY <1>1, <1>8, <1>10, <2>1, <2>2
  <2>4. Feed!Collect(g, h, c)
    BY <1>2, <1>4, <1>6, <1>7, <2>1, <2>3 DEF Feed!Collect
  <2> QED
    BY <2>1, <2>4
<1> QED
  BY <1>4, <1>5, <1>11 DEF Feed!Next

(* A published batch is reported from the front, up to the response that panics. *)
LEMMA PublishReports ==
  ASSUME TypeOK, Publish
  PROVE  [Feed!Next]_(Feed!vars)
<1>0. /\ received \in Nat /\ reported \in Nat /\ Len(responses) \in Nat
      /\ reported <= received /\ received <= Len(responses)
  BY DEF TypeOK
<1>1. CASE PublishNothing
  BY <1>1, SameStutters DEF PublishNothing, FeedSame, flowVars, serverVars
<1>2. CASE PublishBatch
  <2>1. reported' = received /\ received > reported
    BY <1>0, <1>2 DEF PublishBatch, Batch
  <2>2. UNCHANGED <<changed, responses, abandoned>>
    BY <1>2 DEF PublishBatch, serverVars
  <2>3. received \in reported+1..Len(responses)
    BY <1>0, <2>1
  <2>4. Feed!Report
    BY <2>1, <2>2, <2>3 DEF Feed!Report
  <2> QED
    BY <2>4 DEF Feed!Next
<1>3. CASE PublishPanics
  <2>1. PICK i \in reported+1..received : reported' = i - 1
    BY <1>3 DEF PublishPanics
  <2>2. UNCHANGED <<changed, responses, abandoned>>
    BY <1>3 DEF PublishPanics, serverVars
  <2>3. CASE i - 1 = reported
    BY <2>1, <2>2, <2>3, SameStutters DEF FeedSame
  <2>4. CASE i - 1 # reported
    <3>1. i - 1 \in reported+1..Len(responses)
      BY <1>0, <2>1, <2>4
    <3>2. Feed!Report
      BY <2>1, <2>2, <3>1 DEF Feed!Report
    <3> QED
      BY <3>2 DEF Feed!Next
  <2> QED
    BY <2>3, <2>4
<1> QED
  BY <1>1, <1>2, <1>3 DEF Publish

LEMMA FeedStep ==
  ASSUME TypeOK, FeedInv, SoleInv, [Next]_vars
  PROVE  [Feed!Next]_(Feed!vars)
<1> USE DEF clientVars, fetchVars, subVars, flowVars, serverVars, history
<1>1. CASE Setup
  <2>1. FeedSame
    BY <1>1 DEF FeedSame, Setup, New, NewFails, NewStarts, NewRejectsNode, Connect
  <2> QED
    BY <2>1, SameStutters
<1>2. CASE FetchStart \/ Drain
  <2>1. FeedSame
    BY <1>2 DEF FeedSame, FetchStart, Drain
  <2> QED
    BY <2>1, SameStutters
<1>3. CASE Publish
  BY <1>3, PublishReports
<1>4. CASE closeConnection
  <2>1. CASE CloseCancels \/ CloseSession
    <3>1. FeedSame
      BY <2>1 DEF FeedSame, CloseCancels, CloseSession
    <3> QED
      BY <3>1, SameStutters
  <2>2. CASE CloseRecovers
    <3>1. /\ UNCHANGED <<changed, responses, reported>>
          /\ abandoned' = abandoned \union {opcua}
      BY <2>2 DEF CloseRecovers
    <3>2. Feed!Split
      BY <3>1 DEF Feed!Split
    <3> QED
      BY <3>2 DEF Feed!Next
  <2> QED
    BY <1>4, <2>1, <2>2 DEF closeConnection
<1>5. CASE establishConnection
  <2>1. FeedSame
    BY <1>5 DEF FeedSame, establishConnection, ConnectOk, ConnectOkWithError,
       ConnectAgain, ConnectFails, ConnectGivesUp, Connect
  <2> QED
    BY <2>1, SameStutters
<1>6. ASSUME NEW g \in Clients, subscribeTo(g) PROVE [Feed!Next]_(Feed!vars)
  <2>1. CASE Send(g)
    BY <2>1, SendCollects
  <2>2. CASE ~ Send(g)
    <3>1. FeedSame
      BY <1>6, <2>2 DEF FeedSame, subscribeTo, SubscribeStart, SubscribeOk,
         SubscribeFails, Monitor, MonitorSkips, SubscribeOpens, Receive
    <3> QED
      BY <3>1, SameStutters
  <2> QED
    BY <2>1, <2>2
<1>7. ASSUME NEW n \in Node, Change(n) PROVE [Feed!Next]_(Feed!vars)
  <2>1. Feed!Change
    BY <1>7 DEF Change, Feed!Change
  <2> QED
    BY <2>1 DEF Feed!Next
<1>8. ASSUME NEW g \in Clients, Discard(g) \/ SessionLost(g) PROVE [Feed!Next]_(Feed!vars)
  <2>1. FeedSame
    BY <1>8 DEF FeedSame, Discard, SessionLost
  <2> QED
    BY <2>1, SameStutters
<1>9. CASE UNCHANGED vars
  <2>1. FeedSame
    BY <1>9 DEF FeedSame, vars
  <2> QED
    BY <2>1, SameStutters
<1> QED
  BY <1>1, <1>2, <1>3, <1>4, <1>5, <1>6, <1>7, <1>8, <1>9 DEF Next, Fetch, Server

(* For every configuration, any number of reconnects and whatever the server does:
   readers of the events see a feed of changes under the names of their nodes, in
   order, each collected once until a close is cut short. *)
THEOREM FeedImplemented == Spec => ImplementsFeed
<1>1. TypeOK /\ FeedInv /\ SoleInv /\ [Next]_vars => [Feed!Next]_(Feed!vars)
  BY FeedStep
<1>2. Init => Feed!Init
  BY DEF Init, Feed!Init
<1> QED
  BY <1>1, <1>2, SoleCorrect, PTL DEF Spec, ImplementsFeed, Feed!Spec

=============================================================================
