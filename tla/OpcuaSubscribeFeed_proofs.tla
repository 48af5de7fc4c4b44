---------------------- MODULE OpcuaSubscribeFeed_proofs ----------------------
(***************************************************************************)
(* Theorems about what OpcuaSubscribe collects, for every value of its     *)
(* constants: the order of one item's values and the node an event names.  *)
(***************************************************************************)
EXTENDS OpcuaSubscribe_proofs

-----------------------------------------------------------------------------
(* What a goroutine still has to send comes after what it sent, and every
   notification belongs to a node it already tried to monitor. *)
Known(g, n) ==
  /\ n.handle < nextNode[g]
  /\ n.change <= Len(changed)
  /\ n.change > 0 => changed[n.change] = nodesToCollect[n.handle]

Unsent(g) == held[g] \union pending[g]

ItemsInv ==
  \A g \in Clients : \A i \in items[g] :
    i.handle < nextNode[g] /\ i.node = nodesToCollect[i.handle]

UnsentInv ==
  \A g \in Clients :
    /\ \A n \in Unsent(g) : Known(g, n)
    /\ \A m, n \in Unsent(g) :
         m.handle = n.handle /\ m.change = n.change => m = n
    /\ \A m \in held[g], n \in pending[g] :
         m.handle = n.handle => m.change < n.change

SentInv ==
  \A i \in DOMAIN responses :
    LET r == responses[i] IN
    /\ Known(r.via, r.value)
    /\ r.node = nodesToCollect[r.value.handle]
    /\ \A n \in Unsent(r.via) :
         r.value.handle = n.handle => r.value.change < n.change

FeedInv == ItemsInv /\ UnsentInv /\ SentInv /\ InOrder

(* Before New runs nothing changed, is pending, held or sent. *)
LEMMA FeedInit == Init => FeedInv
BY DEF Init, FeedInv, ItemsInv, UnsentInv, SentInv, InOrder, Unsent

(* What the listening loop makes of a notification is a response. *)
LEMMA ResponseType ==
  ASSUME TypeOK, NEW i \in DOMAIN responses
  PROVE  responses[i].via \in Clients /\ responses[i].value \in Notification
<1>1. responses \in Seq(ResponseObject)
  BY DEF TypeOK
<1>2. responses[i] \in ResponseObject
  BY <1>1
<1>3. QED
  BY <1>2 DEF ResponseObject

(* A step after which less is pending and nothing else differs. *)
LEMMA FeedLess ==
  ASSUME FeedInv,
         UNCHANGED <<nextNode, held, responses, items, changed>>,
         \A g \in Clients : pending'[g] \subseteq pending[g],
         TypeOK
  PROVE  FeedInv'
<1>1. ItemsInv' /\ InOrder'
  BY DEF FeedInv, ItemsInv, InOrder
<1>2. \A g \in Clients : Unsent(g)' \subseteq Unsent(g)
  BY DEF Unsent
<1>3. \A g, n : Known(g, n) => Known(g, n)'
  BY DEF Known
<1>4. UnsentInv'
  BY <1>2, <1>3 DEF FeedInv, UnsentInv
<1>5. SentInv'
  <2>1. \A i \in DOMAIN responses : responses[i].via \in Clients
    BY ResponseType
  <2>2. QED
    BY <1>2, <1>3, <2>1 DEF FeedInv, SentInv
<1>6. QED
  BY <1>1, <1>4, <1>5 DEF FeedInv

(* What was known stays known while handles and changes only grow. *)
LEMMA KnownGrows ==
  ASSUME TypeOK, NEW g \in Clients, NEW n \in Notification, Known(g, n),
         nextNode'[g] \in Int, nextNode'[g] >= nextNode[g],
         changed' = changed \/ (\E m \in Node : changed' = Append(changed, m))
  PROVE  Known(g, n)'
<1>1. /\ nextNode[g] \in Int /\ n.handle \in Int /\ n.change \in Nat
      /\ changed \in Seq(Node)
  BY SubscribeAssumption DEF TypeOK, Notification, Handles
<1>2. n.change > 0 => changed'[n.change] = changed[n.change]
  BY <1>1 DEF Known
<1>3. Len(changed') >= Len(changed)
  BY <1>1
<1>4. QED
  BY <1>1, <1>2, <1>3 DEF Known

(* A goroutine skips a node. *)
LEMMA FeedMonitorSkips ==
  ASSUME TypeOK, FeedInv, NEW g \in Clients, MonitorSkips(g)
  PROVE  FeedInv'
<1>1. /\ nextNode' = [nextNode EXCEPT ![g] = @ + 1]
      /\ UNCHANGED <<held, responses, items, pending, changed>>
  BY DEF MonitorSkips, serverVars, flowVars
<1>2. \A h \in Clients : /\ nextNode[h] \in Int
                         /\ nextNode'[h] \in Int
                         /\ nextNode'[h] >= nextNode[h]
  BY <1>1, SubscribeAssumption DEF TypeOK
<1>3. \A h \in Clients, n \in Notification : Known(h, n) => Known(h, n)'
  BY <1>1, <1>2, KnownGrows
<1>4. \A h \in Clients : Unsent(h)' = Unsent(h) /\ Unsent(h) \subseteq Notification
  BY <1>1 DEF Unsent, TypeOK
<1>5. ItemsInv'
  <2>1. \A h \in Clients : \A i \in items[h] : i.handle \in Int
    BY SubscribeAssumption DEF TypeOK, Item, Handles
  <2>2. QED
    BY <1>1, <1>2, <2>1 DEF FeedInv, ItemsInv
<1>6. UnsentInv'
  BY <1>1, <1>3, <1>4 DEF FeedInv, UnsentInv
<1>7. SentInv'
  <2>1. \A i \in DOMAIN responses : /\ responses[i].via \in Clients
                                    /\ responses[i].value \in Notification
    BY ResponseType
  <2>2. QED
    BY <1>1, <1>3, <1>4, <2>1 DEF FeedInv, SentInv
<1>8. QED
  BY <1>1, <1>5, <1>6, <1>7 DEF FeedInv, InOrder

(* A goroutine adds a node: the handle is new to it, so the initial value has
   no older value to follow. *)
LEMMA FeedMonitor ==
  ASSUME TypeOK, FeedInv, NEW g \in Clients, Monitor(g)
  PROVE  FeedInv'
<1>0. PICK k \in Handles : k = nextNode[g]
  BY SubscribeAssumption DEF Monitor, TypeOK, Handles
<1>1. /\ items' = [items EXCEPT ![g] = @ \union {MonitoredItem(k)}]
      /\ nextNode' = [nextNode EXCEPT ![g] = @ + 1]
      /\ UNCHANGED <<held, responses, changed>>
  BY <1>0 DEF Monitor, flowVars
<1>2. PICK c \in Current(nodesToCollect[k]) :
        pending' = [pending EXCEPT ![g] = @ \union {InitialValue(k, c)}]
  BY <1>0 DEF Monitor
<1> DEFINE new == InitialValue(k, c)
<1>3. /\ new \in Notification /\ new.handle = k /\ new.change = c
      /\ c \in Nat /\ c <= Len(changed) /\ Len(changed) <= MaxChanges
      /\ c > 0 => changed[c] = nodesToCollect[k]
  BY <1>1, <1>2, SubscribeAssumption
  DEF InitialValue, Current, Notification, TypeOK
<1>4. \A h \in Clients : /\ nextNode[h] \in Int
                         /\ nextNode'[h] \in Int
                         /\ nextNode'[h] >= nextNode[h]
  BY <1>1, SubscribeAssumption DEF TypeOK
<1>5. \A h \in Clients, n \in Notification : Known(h, n) => Known(h, n)'
  BY <1>1, <1>4, KnownGrows
<1>6. \A h \in Clients : /\ Unsent(h) \subseteq Notification
                         /\ h # g => Unsent(h)' = Unsent(h)
                         /\ h # g => pending'[h] = pending[h]
  BY <1>1, <1>2 DEF Unsent, TypeOK
<1>7. Unsent(g)' = Unsent(g) \union {new} /\ pending'[g] = pending[g] \union {new}
  BY <1>1, <1>2 DEF Unsent, TypeOK
<1>8. \A n \in Notification : Known(g, n) => n.handle # new.handle
  BY <1>0, <1>3, SubscribeAssumption DEF Known, Notification, Handles
<1>9. Known(g, new)'
  <2>1. nextNode'[g] = k + 1 /\ k \in Int
    BY <1>0, <1>1, <1>4 DEF TypeOK
  <2>2. QED
    BY <1>1, <1>3, <2>1 DEF Known
<1>10. ItemsInv'
  <2>1. \A h \in Clients : \A i \in items[h] : i.handle \in Int
    BY SubscribeAssumption DEF TypeOK, Item, Handles
  <2>2. SUFFICES ASSUME NEW h \in Clients, NEW i \in items'[h]
                 PROVE  i.handle < nextNode'[h] /\ i.node = nodesToCollect[i.handle]
    BY DEF ItemsInv
  <2>3. CASE i \in items[h]
    BY <1>4, <2>1, <2>3 DEF FeedInv, ItemsInv
  <2>4. CASE i \notin items[h]
    <3>1. h = g /\ i = MonitoredItem(k)
      BY <1>1, <2>4 DEF TypeOK
    <3>2. QED
      BY <1>0, <1>1, <1>4, <3>1 DEF MonitoredItem, TypeOK
  <2>5. QED
    BY <2>3, <2>4
<1>11. UnsentInv'
  <2>1. ASSUME NEW h \in Clients, h # g PROVE
          /\ \A n \in Unsent(h)' : Known(h, n)'
          /\ \A m, n \in Unsent(h)' :
               m.handle = n.handle /\ m.change = n.change => m = n
          /\ \A m \in held'[h], n \in pending'[h] :
               m.handle = n.handle => m.change < n.change
    BY <1>1, <1>5, <1>6, <2>1 DEF FeedInv, UnsentInv
  <2>2. \A n \in Unsent(g)' : Known(g, n)'
    <3>1. \A n \in Unsent(g) : n \in Notification /\ Known(g, n)
      BY <1>6 DEF FeedInv, UnsentInv
    <3>2. QED
      BY <1>5, <1>7, <1>9, <3>1
  <2>3. \A n \in Unsent(g) : n.handle # new.handle
    BY <1>6, <1>8 DEF FeedInv, UnsentInv
  <2>4. \A m, n \in Unsent(g)' : m.handle = n.handle /\ m.change = n.change => m = n
    BY <1>7, <2>3 DEF FeedInv, UnsentInv
  <2>5. \A m \in held'[g], n \in pending'[g] :
          m.handle = n.handle => m.change < n.change
    BY <1>1, <1>7, <2>3 DEF FeedInv, UnsentInv, Unsent
  <2>6. QED
    BY <2>1, <2>2, <2>4, <2>5 DEF UnsentInv
<1>12. SentInv'
  <2> SUFFICES ASSUME NEW i \in DOMAIN responses, NEW h, NEW v,
                      h = responses[i].via, v = responses[i].value
               PROVE  /\ Known(h, v)'
                      /\ responses[i].node = nodesToCollect[v.handle]
                      /\ \A n \in Unsent(h)' :
                           v.handle = n.handle => v.change < n.change
    BY <1>1 DEF SentInv
  <2>1. h \in Clients /\ v \in Notification
    BY ResponseType
  <2>2. /\ Known(h, v)
        /\ responses[i].node = nodesToCollect[v.handle]
        /\ \A n \in Unsent(h) : v.handle = n.handle => v.change < n.change
    BY DEF FeedInv, SentInv
  <2>3. Known(h, v)'
    BY <1>5, <2>1, <2>2
  <2>4. \A n \in Unsent(h)' : v.handle = n.handle => v.change < n.change
    <3>1. CASE h # g
      BY <1>6, <2>1, <2>2, <3>1
    <3>2. CASE h = g
      BY <1>7, <1>8, <2>1, <2>2, <3>2
    <3>3. QED
      BY <3>1, <3>2
  <2>5. QED
    BY <2>2, <2>3, <2>4
<1>13. QED
  BY <1>1, <1>10, <1>11, <1>12 DEF FeedInv, InOrder

(* A notification is taken from the server: with every older value of a handle
   goes along, so what stays behind is newer. *)
LEMMA FeedReceive ==
  ASSUME TypeOK, FeedInv, NEW g \in Clients, Receive(g)
  PROVE  FeedInv'
<1>1. PICK batch \in SUBSET pending[g] :
        /\ \A n \in batch : \A o \in pending[g] : Older(o, n) => o \in batch
        /\ held' = [held EXCEPT ![g] = batch]
        /\ pending' = [pending EXCEPT ![g] = @ \ batch]
  BY DEF Receive
<1>2. /\ held[g] = {}
      /\ UNCHANGED <<nextNode, responses, items, changed>>
  BY DEF Receive, flowVars
<1>3. \A h \in Clients : Unsent(h)' = Unsent(h)
  BY <1>1, <1>2 DEF Unsent, TypeOK
<1>4. \A h, n : Known(h, n) => Known(h, n)'
  BY <1>2 DEF Known
<1>5. UnsentInv'
  <2>1. ASSUME NEW h \in Clients, NEW m \in held'[h], NEW n \in pending'[h],
               m.handle = n.handle
        PROVE  m.change < n.change
    <3>1. CASE h # g
      BY <1>1, <2>1, <3>1 DEF FeedInv, UnsentInv, TypeOK
    <3>2. CASE h = g
      <4>1. m \in batch /\ n \in pending[g] /\ n \notin batch /\ m \in pending[g]
        BY <1>1, <3>2 DEF TypeOK
      <4>2. ~ Older(n, m)
        BY <1>1, <4>1
      <4>3. m.change \in Int /\ n.change \in Int
        BY <4>1, SubscribeAssumption DEF TypeOK, Notification
      <4>4. m.change # n.change
        BY <2>1, <4>1 DEF FeedInv, UnsentInv, Unsent
      <4>5. QED
        BY <2>1, <4>2, <4>3, <4>4 DEF Older
    <3>3. QED
      BY <3>1, <3>2
  <2>2. QED
    BY <1>3, <1>4, <2>1 DEF FeedInv, UnsentInv
<1>6. SentInv'
  BY <1>2, <1>3, <1>4, ResponseType DEF FeedInv, SentInv
<1>7. QED
  BY <1>2, <1>5, <1>6 DEF FeedInv, ItemsInv, InOrder

(* A response is sent: of its handle it is the oldest still unsent, and newer
   than all that were sent. *)
LEMMA FeedSend ==
  ASSUME TypeOK, FeedInv, NEW g \in Clients, Send(g)
  PROVE  FeedInv'
<1>1. PICK n \in held[g] :
        /\ \A o \in held[g] : ~ Older(o, n)
        /\ responses' = Append(responses, Response(g, n))
        /\ held' = [held EXCEPT ![g] = @ \ {n}]
  BY DEF Send
<1>2. UNCHANGED <<nextNode, items, pending, changed>>
  BY DEF Send, serverVars
<1>3. /\ n \in Notification /\ n \in Unsent(g)
      /\ \A h \in Clients : Unsent(h)' \subseteq Unsent(h)
      /\ \A h \in Clients : Unsent(h) \subseteq Notification
  BY <1>1, <1>2 DEF Unsent, TypeOK
<1>4. \A h, m : Known(h, m) => Known(h, m)'
  BY <1>2 DEF Known
<1>5. \A m \in Unsent(g)' : n.handle = m.handle => n.change < m.change
  <2> SUFFICES ASSUME NEW m \in Unsent(g)', n.handle = m.handle
               PROVE  n.change < m.change
    OBVIOUS
  <2>1. m \in Unsent(g) /\ n.change \in Int /\ m.change \in Int
    BY <1>3, SubscribeAssumption DEF Notification
  <2>2. CASE m \in pending[g]
    BY <1>1, <2>2 DEF FeedInv, UnsentInv
  <2>3. CASE m \notin pending[g]
    <3>1. m \in held[g] /\ m # n
      BY <1>1, <1>2, <2>3 DEF Unsent, TypeOK
    <3>2. m.change # n.change
      BY <1>3, <2>1, <3>1 DEF FeedInv, UnsentInv
    <3>3. ~ Older(m, n)
      BY <1>1, <3>1
    <3>4. QED
      BY <2>1, <3>2, <3>3 DEF Older
  <2>4. QED
    BY <2>2, <2>3
<1>6. UnsentInv'
  <2>1. \A h \in Clients : held'[h] \subseteq held[h]
    BY <1>1 DEF TypeOK
  <2>2. QED
    BY <1>2, <1>3, <1>4, <2>1 DEF FeedInv, UnsentInv
<1>7. /\ Len(responses) \in Nat
      /\ DOMAIN responses' = 1..Len(responses)+1
      /\ DOMAIN responses = 1..Len(responses)
      /\ \A i \in DOMAIN responses : responses'[i] = responses[i]
      /\ responses'[Len(responses)+1] = Response(g, n)
  BY <1>1 DEF TypeOK
<1>8. SentInv'
  <2> SUFFICES ASSUME NEW i \in DOMAIN responses', NEW r, r = responses'[i]
               PROVE  /\ Known(r.via, r.value)'
                      /\ r.node = nodesToCollect[r.value.handle]
                      /\ \A m \in Unsent(r.via)' :
                           r.value.handle = m.handle => r.value.change < m.change
    BY DEF SentInv
  <2>1. CASE i \in DOMAIN responses
    <3>1. r = responses[i] /\ r.via \in Clients
      BY <1>7, <2>1, ResponseType
    <3>2. QED
      BY <1>3, <1>4, <2>1, <3>1 DEF FeedInv, SentInv
  <2>2. CASE i \notin DOMAIN responses
    <3>1. r.via = g /\ r.value = n /\ r.node = nodesToCollect[n.handle]
      BY <1>7, <2>2 DEF Response
    <3>2. Known(g, n)
      BY <1>3 DEF FeedInv, UnsentInv
    <3>3. QED
      BY <1>4, <1>5, <3>1, <3>2
  <2>3. QED
    BY <2>1, <2>2
<1>9. InOrder'
  <2> SUFFICES ASSUME NEW i \in DOMAIN responses', NEW j \in DOMAIN responses',
                      i < j, responses'[i].via = responses'[j].via,
                      responses'[i].value.handle = responses'[j].value.handle
               PROVE  responses'[i].value.change < responses'[j].value.change
    BY DEF InOrder
  <2>1. i \in DOMAIN responses /\ responses'[i] = responses[i]
    BY <1>7
  <2>2. CASE j \in DOMAIN responses
    BY <1>7, <2>1, <2>2 DEF FeedInv, InOrder
  <2>3. CASE j \notin DOMAIN responses
    <3>1. responses'[j].via = g /\ responses'[j].value = n
      BY <1>7, <2>3 DEF Response
    <3>2. QED
      BY <1>3, <2>1, <3>1 DEF FeedInv, SentInv
  <2>4. QED
    BY <2>2, <2>3
<1>10. QED
  BY <1>2, <1>6, <1>8, <1>9 DEF FeedInv, ItemsInv

(* The server notes a change: it is newer than all there was, and two items
   with one handle are one node. *)
LEMMA FeedChange ==
  ASSUME TypeOK, FeedInv, NEW n \in Node, Change(n)
  PROVE  FeedInv'
<1>0. PICK c \in Nat : c = Len(changed) + 1
  BY DEF TypeOK
<1>1. /\ changed' = Append(changed, n) /\ Len(changed') = c
      /\ c <= MaxChanges /\ changed'[c] = n
      /\ pending' = [g \in Clients |-> pending[g] \union ChangesOf(g, n, c)]
      /\ UNCHANGED <<nextNode, held, responses, items>>
  BY <1>0, SubscribeAssumption DEF Change, TypeOK, subVars, flowVars
<1>2. \A g \in Clients : nextNode[g] \in Int
  BY SubscribeAssumption DEF TypeOK
<1>3. \A g \in Clients : \A m \in Notification : Known(g, m) => Known(g, m)' /\ m.change < c
  <2>1. ASSUME NEW g \in Clients, NEW m \in Notification, Known(g, m) PROVE Known(g, m)'
    BY <1>1, <1>2, <2>1, KnownGrows
  <2>2. ASSUME NEW g \in Clients, NEW m \in Notification, Known(g, m) PROVE m.change < c
    BY <1>0, <2>2, SubscribeAssumption DEF Known, Notification, TypeOK
  <2>3. QED
    BY <2>1, <2>2
<1>4. \A g \in Clients : Unsent(g) \subseteq Notification
  BY DEF Unsent, TypeOK
<1>5. \A g \in Clients : /\ Unsent(g)' = Unsent(g) \union ChangesOf(g, n, c)
                         /\ pending'[g] = pending[g] \union ChangesOf(g, n, c)
  BY <1>1 DEF Unsent
<1>6. ASSUME NEW g \in Clients, NEW m \in ChangesOf(g, n, c)
      PROVE  /\ m.change = c /\ m.initial = FALSE
             /\ m = [change |-> c, handle |-> m.handle, initial |-> FALSE]
             /\ m.handle < nextNode[g] /\ n = nodesToCollect[m.handle]
  <2>1. PICK i \in items[g] :
          i.node = n /\ m = [change |-> c, handle |-> i.handle, initial |-> FALSE]
    BY DEF ChangesOf
  <2>2. i.handle < nextNode[g] /\ i.node = nodesToCollect[i.handle]
    BY DEF FeedInv, ItemsInv
  <2>3. QED
    BY <2>1, <2>2
<1>7. ASSUME NEW g \in Clients, NEW m \in ChangesOf(g, n, c) PROVE Known(g, m)'
  <2>1. /\ m.change = c /\ m.handle < nextNode[g] /\ n = nodesToCollect[m.handle]
    BY <1>6
  <2>2. /\ nextNode' = nextNode /\ Len(changed') = c /\ changed'[c] = n
    BY <1>1
  <2>3. QED
    BY <1>0, <2>1, <2>2 DEF Known
<1>8. \A g \in Clients : \A m \in Unsent(g) : Known(g, m)' /\ m.change < c
  BY <1>3, <1>4 DEF FeedInv, UnsentInv
<1>9. UnsentInv'
  <2> SUFFICES ASSUME NEW g \in Clients
        PROVE /\ \A m \in Unsent(g)' : Known(g, m)'
              /\ \A l, m \in Unsent(g)' :
                   l.handle = m.handle /\ l.change = m.change => l = m
              /\ \A l \in held'[g], m \in pending'[g] :
                   l.handle = m.handle => l.change < m.change
    BY DEF UnsentInv
  <2>1. \A m \in Unsent(g)' : Known(g, m)'
    BY <1>5, <1>7, <1>8
  <2>2. ASSUME NEW l \in Unsent(g)', NEW m \in Unsent(g)',
               l.handle = m.handle, l.change = m.change
        PROVE  l = m
    <3>1. CASE l \in Unsent(g) /\ m \in Unsent(g)
      BY <2>2, <3>1 DEF FeedInv, UnsentInv
    <3>2. CASE l \in ChangesOf(g, n, c) /\ m \in ChangesOf(g, n, c)
      BY <1>6, <2>2, <3>2
    <3>3. ASSUME NEW x \in Unsent(g), NEW y \in ChangesOf(g, n, c), x.change = y.change
          PROVE  FALSE
      <4>1. x.change < c /\ y.change = c
        BY <1>6, <1>8
      <4>2. QED
        BY <1>0, <3>3, <4>1
    <3>4. QED
      BY <1>5, <2>2, <3>1, <3>2, <3>3
  <2>3. ASSUME NEW l \in held'[g], NEW m \in pending'[g], l.handle = m.handle
        PROVE  l.change < m.change
    <3>1. l \in held[g] /\ l \in Unsent(g)
      BY <1>1 DEF Unsent
    <3>2. CASE m \in pending[g]
      BY <2>3, <3>1, <3>2 DEF FeedInv, UnsentInv
    <3>3. CASE m \in ChangesOf(g, n, c)
      BY <1>6, <1>8, <3>1, <3>3
    <3>4. QED
      BY <1>5, <3>2, <3>3
  <2>4. QED
    BY <2>1, <2>2, <2>3
<1>10. SentInv'
  <2> SUFFICES ASSUME NEW i \in DOMAIN responses, NEW h, NEW v,
                      h = responses[i].via, v = responses[i].value
               PROVE  /\ Known(h, v)'
                      /\ responses[i].node = nodesToCollect[v.handle]
                      /\ \A m \in Unsent(h)' :
                           v.handle = m.handle => v.change < m.change
    BY <1>1 DEF SentInv
  <2>1. /\ h \in Clients /\ v \in Notification
        /\ Known(h, v) /\ responses[i].node = nodesToCollect[v.handle]
        /\ \A m \in Unsent(h) : v.handle = m.handle => v.change < m.change
    BY ResponseType DEF FeedInv, SentInv
  <2>2. Known(h, v)' /\ v.change < c
    BY <1>3, <2>1
  <2>3. \A m \in Unsent(h)' : v.handle = m.handle => v.change < m.change
    BY <1>5, <1>6, <2>1, <2>2
  <2>4. QED
    BY <2>1, <2>2, <2>3
<1>11. QED
  BY <1>1, <1>9, <1>10 DEF FeedInv, ItemsInv, InOrder

(* Every step of the program or the server keeps the feed in order. *)
LEMMA FeedNext == TypeOK /\ FeedInv /\ [Next]_vars => FeedInv'
<1> SUFFICES ASSUME TypeOK, FeedInv, [Next]_vars PROVE FeedInv'
  OBVIOUS
<1>same. ASSUME UNCHANGED <<nextNode, held, responses, items, pending, changed>>
         PROVE  FeedInv'
  BY <1>same, FeedLess
<1> USE DEF clientVars, fetchVars, subVars, flowVars, serverVars, history
<1>1. CASE Setup
  BY <1>1, <1>same DEF Setup, New, NewFails, NewStarts, NewRejectsNode, Connect
<1>2. CASE FetchStart \/ Drain \/ Publish
  BY <1>2, <1>same DEF FetchStart, Drain, Publish, PublishNothing, PublishBatch,
     PublishPanics
<1>3. CASE CloseCancels
  <2>1. /\ UNCHANGED <<nextNode, held, responses, pending, changed>>
        /\ \A g \in Clients : items'[g] \subseteq items[g]
    BY <1>3 DEF CloseCancels, TypeOK
  <2>2. \A g, n : Known(g, n)' = Known(g, n) /\ Unsent(g)' = Unsent(g)
    BY <2>1 DEF Known, Unsent
  <2>3. ItemsInv' /\ InOrder'
    BY <2>1 DEF FeedInv, ItemsInv, InOrder
  <2>4. UnsentInv' /\ SentInv'
    BY <2>1, <2>2 DEF FeedInv, UnsentInv, SentInv
  <2>5. QED
    BY <2>3, <2>4 DEF FeedInv
<1>4. CASE CloseRecovers \/ CloseSession
  BY <1>4, <1>same DEF CloseRecovers, CloseSession
<1>5. CASE establishConnection
  BY <1>5, <1>same DEF establishConnection, ConnectOk, ConnectOkWithError,
     ConnectAgain, ConnectFails, ConnectGivesUp, Connect
<1>6. ASSUME NEW g \in Clients, subscribeTo(g) PROVE FeedInv'
  <2>1. CASE SubscribeStart(g) \/ SubscribeOk(g) \/ SubscribeFails(g) \/ SubscribeOpens(g)
    BY <2>1, <1>same DEF SubscribeStart, SubscribeOk, SubscribeFails, SubscribeOpens
  <2>2. QED
    BY <1>6, <2>1, FeedMonitor, FeedMonitorSkips, FeedReceive, FeedSend DEF subscribeTo
<1>7. ASSUME NEW g \in Clients, Discard(g) PROVE FeedInv'
  <2>1. /\ UNCHANGED <<nextNode, held, responses, items, changed>>
        /\ \A h \in Clients : pending'[h] \subseteq pending[h]
    BY <1>7 DEF Discard, TypeOK
  <2>2. QED
    BY <2>1, FeedLess
<1>8. ASSUME NEW g \in Clients, SessionLost(g) PROVE FeedInv'
  BY <1>8, <1>same DEF SessionLost
<1>9. CASE UNCHANGED vars
  BY <1>9, <1>same DEF vars
<1>10. QED
  BY <1>1, <1>2, <1>3, <1>4, <1>5, <1>6, <1>7, <1>8, <1>9, FeedChange
  DEF Next, Fetch, closeConnection, Server

(* For any number of nodes, reconnects and changes: the values of one monitored
   item reach the channel in the order in which the server saw them. *)
THEOREM FeedIsInOrder == Spec => []InOrder
<1>1. FeedInv => InOrder
  BY DEF FeedInv
<1>2. QED
  BY <1>1, FeedInit, FeedNext, TypeCorrect, PTL DEF Spec

(* For every list of nodes and whichever of them cannot be monitored: an event
   names the node whose value changed. *)
THEOREM HandlesNameNodes == Spec => []HandleNamesNode
<1>1. FeedInv => HandleNamesNode
  BY DEF FeedInv, SentInv, Known, HandleNamesNode
<1>2. QED
  BY <1>1, FeedInit, FeedNext, TypeCorrect, PTL DEF Spec

=============================================================================
