------------------------ MODULE MqttTopicOrder_proofs ------------------------
(***************************************************************************)
(* The way of a message through MqttTopic, proved for every value of its   *)
(* constants: what one instance reports of a host is in the order of       *)
(* arrival, nothing is reported twice, and all handlers, channels and      *)
(* Fetches together implement LossyQueue.                                  *)
(***************************************************************************)
EXTENDS MqttTopic_proofs

HostOf(m) == origin[m]

(* Message m was handled: what its client has in hand or in its inbox arrived
   after it. *)
Behind(m) ==
  /\ m \in DOMAIN origin
  /\ hand[HostOf(m)] # Nothing => m < hand[HostOf(m)]
  /\ \A k \in DOMAIN inbox[HostOf(m)] : m < inbox[HostOf(m)][k]

(* What a client has not handled yet is in the order of arrival. *)
InboxOrder ==
  \A i \in Instance :
    /\ \A k \in DOMAIN inbox[i] :
         /\ inbox[i][k] \in DOMAIN origin
         /\ HostOf(inbox[i][k]) = i
         /\ hand[i] # Nothing => hand[i] < inbox[i][k]
    /\ \A j, k \in DOMAIN inbox[i] : j < k => inbox[i][j] < inbox[i][k]
    /\ hand[i] # Nothing => hand[i] \in DOMAIN origin /\ HostOf(hand[i]) = i

(* Channels hold what was handled; those not made yet are empty. *)
BufferOrder ==
  \A c \in Channel :
    /\ c > made => buffer[c] = <<>>
    /\ \A k \in DOMAIN buffer[c] : Behind(buffer[c][k])

(* A handler that is late, and sends to a channel that was replaced, is the only
   one of its client: no later channel has a message of that host. *)
HandOrder ==
  \A i \in Instance, c \in Channel :
    hand[i] # Nothing /\ c > chan[i] =>
      \A k \in DOMAIN buffer[c] : HostOf(buffer[c][k]) # i

(* So the messages of one host are in the order of arrival over all channels, from
   the first made to the last. *)
ChannelOrder ==
  \A c, d \in Channel : \A j \in DOMAIN buffer[c], k \in DOMAIN buffer[d] :
    /\ c < d \/ (c = d /\ j < k)
    /\ HostOf(buffer[c][j]) = HostOf(buffer[d][k])
    => buffer[c][j] < buffer[d][k]

(* The first channel from which instance i can receive from now on. *)
Floor(i) == IF source[i] = NilChannel THEN made ELSE source[i]

(* Message m is ahead of all that instance i can receive. *)
Ahead(m, i) ==
  /\ Behind(m)
  /\ \A c \in Channel : \A k \in DOMAIN buffer[c] :
       c >= Floor(i) /\ HostOf(buffer[c][k]) = HostOf(m) => m < buffer[c][k]

FetchOrder ==
  /\ \A i \in Instance : taken[i] # Nothing => source[i] = NilChannel /\ Ahead(taken[i], i)
  /\ \A k \in DOMAIN reported :
       /\ Ahead(reported[k].message, reported[k].by)
       /\ LET i == reported[k].by IN
            taken[i] # Nothing /\ HostOf(taken[i]) = HostOf(reported[k].message)
              => reported[k].message < taken[i]

OrderInv ==
  InboxOrder /\ BufferOrder /\ HandOrder /\ ChannelOrder /\ FetchOrder /\ ReportedInOrder

(* Message m has left the channels. *)
Gone(m) ==
  /\ Behind(m)
  /\ \A c \in Channel : \A k \in DOMAIN buffer[c] : buffer[c][k] # m

(* What was taken is in the hands of one Fetch, and what was reported in none. *)
OnceInv ==
  /\ \A i \in Instance : taken[i] # Nothing => Gone(taken[i])
  /\ \A k \in DOMAIN reported : Gone(reported[k].message)
  /\ \A i, j \in Instance : i # j /\ taken[i] # Nothing => taken[i] # taken[j]
  /\ \A k \in DOMAIN reported, i \in Instance :
       taken[i] # Nothing => reported[k].message # taken[i]
  /\ ReportedOnce

-----------------------------------------------------------------------------
(* What the actions do to the messages, element by element. *)
Untouched ==
  UNCHANGED <<origin, inbox, hand, chan, made, events, buffer, source, taken, reported>>

LEMMA Untouching ==
  ASSUME NEW i \in Instance,
         \/ New(i) \/ NewPanics(i) \/ ConnectOk(i) \/ ConnectFails(i) \/ ConnectRetries(i)
         \/ Reconnect(i) \/ HandleLost(i) \/ HandleConnect(i)
         \/ Subscribe(i) \/ SubscribePanics(i) \/ SubscribeAcked(i)
  PROVE  Untouched
  BY DEF Untouched, New, NewPanics, ConnectOk, ConnectFails, ConnectRetries,
     Reconnect, HandleLost, HandleConnect, Subscribe, SubscribePanics, SubscribeAcked,
     sharedVars, channelVars, handlerVars, reportVars

LEMMA LinkLostEffect ==
  ASSUME TypeOK, NEW i \in Instance, LinkLost(i)
  PROVE  /\ inbox'[i] = <<>> /\ \A j \in Instance \ {i} : inbox'[j] = inbox[j]
         /\ UNCHANGED <<origin, hand, chan, made, events, buffer, source, taken, reported>>
  BY DEF LinkLost, TypeOK, sharedVars, channelVars, handlerVars, reportVars

LEMMA MakeEventsEffect ==
  ASSUME TypeOK, NEW i \in Instance, MakeEvents(i)
  PROVE  /\ made' = made + 1 /\ events' = made + 1
         /\ UNCHANGED <<origin, inbox, hand, chan, buffer, source, taken, reported>>
  BY DEF MakeEvents, handlerVars, reportVars

LEMMA ArriveEffect ==
  ASSUME TypeOK, NEW i \in Instance, Arrive(i)
  PROVE  /\ DOMAIN origin = 1..Len(origin) /\ DOMAIN origin' = 1..Len(origin)+1
         /\ Len(origin) \in Nat
         /\ \A m \in DOMAIN origin : origin'[m] = origin[m]
         /\ origin'[Len(origin) + 1] = i
         /\ \A j \in Instance \ {i} : inbox'[j] = inbox[j]
         /\ DOMAIN inbox[i] = 1..Len(inbox[i]) /\ DOMAIN inbox'[i] = 1..Len(inbox[i])+1
         /\ Len(inbox[i]) \in Nat
         /\ \A k \in DOMAIN inbox[i] : inbox'[i][k] = inbox[i][k]
         /\ inbox'[i][Len(inbox[i]) + 1] = Len(origin) + 1
         /\ UNCHANGED <<hand, chan, made, events, buffer, source, taken, reported>>
<1>1. /\ origin' = Append(origin, i)
      /\ inbox' = [inbox EXCEPT ![i] = Append(@, Len(origin'))]
      /\ UNCHANGED <<hand, chan, made, events, buffer, source, taken, reported>>
  BY DEF Arrive, sharedVars, channelVars, handlerVars
<1>2. /\ origin \in Seq(Instance)
      /\ inbox \in [Instance -> Seq(Message)]
  BY DEF TypeOK
<1>3. /\ DOMAIN origin = 1..Len(origin) /\ DOMAIN origin' = 1..Len(origin)+1
      /\ Len(origin) \in Nat /\ Len(origin') = Len(origin) + 1
      /\ \A m \in DOMAIN origin : origin'[m] = origin[m]
      /\ origin'[Len(origin) + 1] = i
  BY <1>1, <1>2
<1>4. /\ inbox[i] \in Seq(Message) /\ inbox'[i] = Append(inbox[i], Len(origin) + 1)
      /\ \A j \in Instance \ {i} : inbox'[j] = inbox[j]
  BY <1>1, <1>2, <1>3
<1>5. /\ DOMAIN inbox[i] = 1..Len(inbox[i]) /\ DOMAIN inbox'[i] = 1..Len(inbox[i])+1
      /\ Len(inbox[i]) \in Nat
      /\ \A k \in DOMAIN inbox[i] : inbox'[i][k] = inbox[i][k]
      /\ inbox'[i][Len(inbox[i]) + 1] = Len(origin) + 1
  BY <1>4
<1> QED
  BY <1>1, <1>3, <1>4, <1>5

LEMMA HandleEffect ==
  ASSUME TypeOK, NEW i \in Instance, Handle(i)
  PROVE  /\ hand[i] = Nothing /\ 1 \in DOMAIN inbox[i] /\ hand'[i] = inbox[i][1]
         /\ hand'[i] \in Message /\ chan'[i] = made
         /\ \A j \in Instance \ {i} :
              hand'[j] = hand[j] /\ chan'[j] = chan[j] /\ inbox'[j] = inbox[j]
         /\ \A k \in DOMAIN inbox'[i] :
              k \in Nat \ {0} /\ k + 1 \in DOMAIN inbox[i] /\ inbox'[i][k] = inbox[i][k + 1]
         /\ UNCHANGED <<origin, made, events, buffer, source, taken, reported>>
<1>1. /\ hand[i] = Nothing /\ inbox[i] # <<>>
      /\ hand' = [hand EXCEPT ![i] = Head(inbox[i])]
      /\ inbox' = [inbox EXCEPT ![i] = Tail(@)]
      /\ chan' = [chan EXCEPT ![i] = events]
      /\ UNCHANGED <<origin, made, events, buffer, source, taken, reported>>
  BY DEF Handle, sharedVars, channelVars, reportVars
<1>2. /\ inbox[i] \in Seq(Message) /\ inbox'[i] = Tail(inbox[i]) /\ hand'[i] = Head(inbox[i])
      /\ chan'[i] = made
      /\ \A j \in Instance \ {i} :
           hand'[j] = hand[j] /\ chan'[j] = chan[j] /\ inbox'[j] = inbox[j]
  BY <1>1 DEF TypeOK
<1>3. /\ 1 \in DOMAIN inbox[i] /\ Head(inbox[i]) = inbox[i][1] /\ inbox[i][1] \in Message
      /\ \A k \in DOMAIN Tail(inbox[i]) :
            k \in Nat \ {0} /\ k + 1 \in DOMAIN inbox[i] /\ Tail(inbox[i])[k] = inbox[i][k + 1]
  BY <1>1, <1>2
<1> QED
  BY <1>1, <1>2, <1>3

LEMMA SendEffect ==
  ASSUME TypeOK, NEW i \in Instance, Send(i)
  PROVE  /\ hand[i] \in Message /\ hand[i] # Nothing /\ hand'[i] = Nothing
         /\ \A j \in Instance \ {i} : hand'[j] = hand[j] /\ chan'[j] = chan[j]
         /\ chan[i] \in Channel /\ chan[i] <= made
         /\ buffer' = [buffer EXCEPT ![chan[i]] = Append(@, hand[i])]
         /\ \A c \in Channel : \A k \in DOMAIN buffer'[c] : k \in Nat /\
              \/ k \in DOMAIN buffer[c] /\ buffer'[c][k] = buffer[c][k]
              \/ /\ c = chan[i] /\ buffer'[c][k] = hand[i]
                 /\ \A l \in DOMAIN buffer'[c] : l <= k
         /\ UNCHANGED <<origin, inbox, made, events, source, taken, reported>>
<1>1. /\ hand[i] # Nothing /\ chan[i] # NilChannel
      /\ buffer' = [buffer EXCEPT ![chan[i]] = Append(@, hand[i])]
      /\ hand' = [hand EXCEPT ![i] = Nothing]
      /\ chan' = [chan EXCEPT ![i] = NilChannel]
      /\ UNCHANGED <<origin, inbox, made, events, source, taken, reported>>
  BY DEF Send, sharedVars, reportVars
<1>2. /\ hand[i] \in Message /\ hand'[i] = Nothing
      /\ \A j \in Instance \ {i} : hand'[j] = hand[j] /\ chan'[j] = chan[j]
  BY <1>1 DEF TypeOK
<1>3. chan[i] \in Channel /\ chan[i] <= made
  <2>1. chan[i] \in 0..made
    BY DEF TypeOK
  <2> QED
    BY <1>1, <2>1, Channels
<1>4. ASSUME NEW c \in Channel, NEW k \in DOMAIN buffer'[c]
      PROVE  k \in Nat /\
              \/ k \in DOMAIN buffer[c] /\ buffer'[c][k] = buffer[c][k]
              \/ /\ c = chan[i] /\ buffer'[c][k] = hand[i]
                 /\ \A l \in DOMAIN buffer'[c] : l <= k
  <2>1. buffer[c] \in Seq(Message)
    BY DEF TypeOK
  <2>2. CASE c # chan[i]
    <3>1. buffer'[c] = buffer[c]
      BY <1>1, <2>2 DEF TypeOK
    <3> QED
      BY <1>4, <2>1, <3>1
  <2>3. CASE c = chan[i]
    <3>1. buffer'[c] = Append(buffer[c], hand[i])
      BY <1>1, <1>3, <2>3 DEF TypeOK
    <3> QED
      BY <1>2, <1>4, <2>1, <2>3, <3>1
  <2> QED
    BY <2>2, <2>3
<1> QED
  BY <1>1, <1>2, <1>3, <1>4

LEMMA FetchLoadEffect ==
  ASSUME TypeOK, NEW i \in Instance, FetchLoad(i)
  PROVE  /\ taken[i] = Nothing /\ source[i] = NilChannel /\ made > 0
         /\ source' = [source EXCEPT ![i] = made] /\ source'[i] = made
         /\ \A j \in Instance \ {i} : source'[j] = source[j]
         /\ UNCHANGED <<origin, inbox, hand, chan, made, events, buffer, taken, reported>>
<1>1. /\ taken[i] = Nothing /\ source[i] = NilChannel /\ events # NilChannel
      /\ source' = [source EXCEPT ![i] = events]
      /\ UNCHANGED <<origin, inbox, hand, chan, made, events, buffer, taken, reported>>
  BY DEF FetchLoad, sharedVars, channelVars, handlerVars
<1>2. events = made /\ made \in Nat /\ source \in [Instance -> 0..made]
  BY MqttAssumption DEF TypeOK, MqttAssumption
<1> QED
  BY <1>1, <1>2 DEF NilChannel

LEMMA FetchReceiveEffect ==
  ASSUME TypeOK, NEW i \in Instance, FetchReceive(i)
  PROVE  /\ source[i] \in Channel /\ source[i] <= made
         /\ source' = [source EXCEPT ![i] = NilChannel] /\ source'[i] = NilChannel
         /\ \A j \in Instance \ {i} : source'[j] = source[j] /\ taken'[j] = taken[j]
         /\ buffer[source[i]] # <<>> /\ 1 \in DOMAIN buffer[source[i]]
         /\ taken'[i] = Head(buffer[source[i]]) /\ taken'[i] = buffer[source[i]][1]
         /\ taken'[i] \in Message
         /\ buffer' = [buffer EXCEPT ![source[i]] = Tail(@)]
         /\ \A c \in Channel : \A k \in DOMAIN buffer'[c] : k \in Nat \ {0} /\
              \/ c # source[i] /\ k \in DOMAIN buffer[c] /\ buffer'[c][k] = buffer[c][k]
              \/ c = source[i] /\ k + 1 \in DOMAIN buffer[c] /\ buffer'[c][k] = buffer[c][k + 1]
         /\ UNCHANGED <<origin, inbox, hand, chan, made, events, reported>>
<1>1. /\ source[i] # NilChannel /\ buffer[source[i]] # <<>>
      /\ taken' = [taken EXCEPT ![i] = Head(buffer[source[i]])]
      /\ source' = [source EXCEPT ![i] = NilChannel]
      /\ buffer' = [buffer EXCEPT ![source[i]] = Tail(@)]
      /\ UNCHANGED <<origin, inbox, hand, chan, made, events, reported>>
  BY DEF FetchReceive, FetchTakes, sharedVars, handlerVars
<1>2. source[i] \in Channel /\ source[i] <= made
  <2>1. source[i] \in 0..made
    BY DEF TypeOK
  <2> QED
    BY <1>1, <2>1, Channels
<1>3. /\ source'[i] = NilChannel /\ taken'[i] = Head(buffer[source[i]])
      /\ \A j \in Instance \ {i} : source'[j] = source[j] /\ taken'[j] = taken[j]
  BY <1>1 DEF TypeOK
<1>4. buffer[source[i]] \in Seq(Message)
  BY <1>2 DEF TypeOK
<1>5. /\ 1 \in DOMAIN buffer[source[i]] /\ Head(buffer[source[i]]) = buffer[source[i]][1]
      /\ Head(buffer[source[i]]) \in Message
  BY <1>1, <1>4
<1>6. ASSUME NEW c \in Channel, NEW k \in DOMAIN buffer'[c]
      PROVE  k \in Nat \ {0} /\
              \/ c # source[i] /\ k \in DOMAIN buffer[c] /\ buffer'[c][k] = buffer[c][k]
              \/ c = source[i] /\ k + 1 \in DOMAIN buffer[c] /\ buffer'[c][k] = buffer[c][k + 1]
  <2>1. buffer[c] \in Seq(Message)
    BY DEF TypeOK
  <2>2. CASE c # source[i]
    <3>1. buffer'[c] = buffer[c]
      BY <1>1, <2>2 DEF TypeOK
    <3> QED
      BY <1>6, <2>1, <2>2, <3>1
  <2>3. CASE c = source[i]
    <3>1. buffer'[c] = Tail(buffer[c]) /\ buffer[c] # <<>>
      BY <1>1, <1>2, <2>3 DEF TypeOK
    <3> QED
      BY <1>6, <2>1, <2>3, <3>1
  <2> QED
    BY <2>2, <2>3
<1> QED
  BY <1>1, <1>2, <1>3, <1>5, <1>6

LEMMA FetchReturnsEffect ==
  ASSUME TypeOK, NEW i \in Instance, FetchReturns(i)
  PROVE  /\ source[i] \in Channel /\ source[i] <= made /\ buffer[source[i]] = <<>>
         /\ source' = [source EXCEPT ![i] = NilChannel] /\ source'[i] = NilChannel
         /\ \A j \in Instance \ {i} : source'[j] = source[j]
         /\ UNCHANGED <<origin, inbox, hand, chan, made, events, buffer, taken, reported>>
<1>1. /\ source[i] # NilChannel /\ buffer[source[i]] = <<>>
      /\ source' = [source EXCEPT ![i] = NilChannel]
      /\ UNCHANGED <<origin, inbox, hand, chan, made, events, buffer, taken, reported>>
  BY DEF FetchReturns, sharedVars, channelVars, handlerVars
<1>2. source \in [Instance -> 0..made]
  BY DEF TypeOK
<1> QED
  BY <1>1, <1>2, Channels

LEMMA FetchReportEffect ==
  ASSUME TypeOK, NEW i \in Instance, FetchReport(i)
  PROVE  /\ taken[i] \in Message /\ taken[i] # Nothing /\ taken'[i] = Nothing
         /\ \A j \in Instance \ {i} : taken'[j] = taken[j]
         /\ reported' = Append(reported, [message |-> taken[i], by |-> i])
         /\ \A k \in DOMAIN reported' : k \in Nat /\
              \/ k \in DOMAIN reported /\ reported'[k] = reported[k]
              \/ /\ reported'[k].message = taken[i] /\ reported'[k].by = i
                 /\ \A l \in DOMAIN reported' : l <= k
         /\ UNCHANGED <<origin, inbox, hand, chan, made, events, buffer, source>>
<1>1. /\ taken[i] # Nothing /\ taken' = [taken EXCEPT ![i] = Nothing]
      /\ reported' = Append(reported, [message |-> taken[i], by |-> i])
      /\ UNCHANGED <<origin, inbox, hand, chan, made, events, buffer, source>>
  BY DEF FetchReport, sharedVars, channelVars, handlerVars
<1>2. /\ taken[i] \in Message /\ taken'[i] = Nothing
      /\ \A j \in Instance \ {i} : taken'[j] = taken[j]
  BY <1>1 DEF TypeOK
<1>3. \A k \in DOMAIN reported' : k \in Nat /\
        \/ k \in DOMAIN reported /\ reported'[k] = reported[k]
        \/ /\ reported'[k].message = taken[i] /\ reported'[k].by = i
           /\ \A l \in DOMAIN reported' : l <= k
  <2>1. reported \in Seq([message : Message, by : Instance])
    BY DEF TypeOK
  <2>2. \A k \in DOMAIN reported' : k \in Nat /\
          \/ k \in DOMAIN reported /\ reported'[k] = reported[k]
          \/ /\ reported'[k] = [message |-> taken[i], by |-> i]
             /\ \A l \in DOMAIN reported' : l <= k
    BY <1>1, <2>1
  <2> QED
    BY <2>2
<1> QED
  BY <1>1, <1>2, <1>3

-----------------------------------------------------------------------------
(* What is typed is numbered: elements of messages' sequences are numbers. *)
LEMMA Numbers ==
  ASSUME TypeOK
  PROVE  /\ Nothing \notin Message /\ Message \subseteq Nat
         /\ made \in Nat /\ Channel \subseteq Nat \ {0}
         /\ \A i \in Instance : /\ DOMAIN inbox[i] \subseteq Nat \ {0}
                               /\ \A k \in DOMAIN inbox[i] : inbox[i][k] \in Message
                               /\ hand[i] \in Nat /\ taken[i] \in Nat
                               /\ chan[i] \in Nat /\ source[i] \in Nat
                               /\ chan[i] <= made /\ source[i] <= made
         /\ \A c \in Channel : /\ DOMAIN buffer[c] \subseteq Nat \ {0}
                              /\ \A k \in DOMAIN buffer[c] : buffer[c][k] \in Message
         /\ DOMAIN reported \subseteq Nat
         /\ \A k \in DOMAIN reported :
              reported[k].message \in Message /\ reported[k].by \in Instance
         /\ \A m \in DOMAIN origin : m \in Nat /\ HostOf(m) \in Instance
<1>1. Nothing \notin Message /\ Message \subseteq Nat
  BY MqttAssumption DEF Message, Nothing, MqttAssumption
<1>2. made \in Nat /\ Channel \subseteq Nat \ {0}
  BY MqttAssumption DEF TypeOK, Channel, MqttAssumption
<1>3. ASSUME NEW i \in Instance
      PROVE  /\ DOMAIN inbox[i] \subseteq Nat \ {0}
             /\ \A k \in DOMAIN inbox[i] : inbox[i][k] \in Message
             /\ hand[i] \in Nat /\ taken[i] \in Nat
             /\ chan[i] \in Nat /\ source[i] \in Nat
             /\ chan[i] <= made /\ source[i] <= made
  <2>1. /\ inbox[i] \in Seq(Message)
        /\ hand[i] \in Message \union {Nothing} /\ taken[i] \in Message \union {Nothing}
        /\ chan[i] \in 0..made /\ source[i] \in 0..made
    BY DEF TypeOK
  <2>2. hand[i] \in Nat /\ taken[i] \in Nat
    <3>1. Message \union {Nothing} \subseteq Nat
      BY <1>1 DEF Nothing
    <3> QED
      BY <2>1, <3>1
  <2>3. /\ DOMAIN inbox[i] \subseteq Nat \ {0}
        /\ \A k \in DOMAIN inbox[i] : inbox[i][k] \in Message
    BY <2>1
  <2> QED
    BY <1>2, <2>1, <2>2, <2>3
<1>4. ASSUME NEW c \in Channel
      PROVE  /\ DOMAIN buffer[c] \subseteq Nat \ {0}
             /\ \A k \in DOMAIN buffer[c] : buffer[c][k] \in Message
  <2>1. buffer[c] \in Seq(Message)
    BY DEF TypeOK
  <2> QED
    BY <2>1
<1>5. /\ DOMAIN reported \subseteq Nat
      /\ \A k \in DOMAIN reported :
           reported[k].message \in Message /\ reported[k].by \in Instance
  <2>1. /\ DOMAIN reported \subseteq Nat
        /\ \A k \in DOMAIN reported : reported[k] \in [message : Message, by : Instance]
    <3> DEFINE R == [message : Message, by : Instance]
    <3>1. reported \in Seq(R)
      BY DEF TypeOK
    <3> HIDE DEF R
    <3>2. DOMAIN reported \subseteq Nat /\ \A k \in DOMAIN reported : reported[k] \in R
      BY <3>1
    <3> QED
      BY <3>2 DEF R
  <2> QED
    BY <2>1
<1>6. \A m \in DOMAIN origin : m \in Nat /\ HostOf(m) \in Instance
  <2>1. origin \in Seq(Instance)
    BY DEF TypeOK
  <2> QED
    BY <2>1 DEF HostOf
<1> QED
  BY <1>1, <1>2, <1>3, <1>4, <1>5, <1>6

(* Steps by their effect on messages. *)
LEMMA Steps ==
  ASSUME [Next]_vars
  PROVE  \/ Untouched
         \/ \E i \in Instance :
              \/ LinkLost(i) \/ MakeEvents(i) \/ Arrive(i) \/ Handle(i) \/ Send(i)
              \/ FetchLoad(i) \/ FetchReceive(i) \/ FetchReturns(i) \/ FetchReport(i)
<1>1. CASE UNCHANGED vars
  BY <1>1 DEF vars, Untouched, sharedVars, channelVars, handlerVars, reportVars
<1>2. ASSUME NEW i \in Instance, Callbacks(i) \/ Environment(i) \/ Fetch(i)
      PROVE  \/ Untouched
             \/ LinkLost(i) \/ MakeEvents(i) \/ Arrive(i) \/ Handle(i) \/ Send(i)
             \/ FetchLoad(i) \/ FetchReceive(i) \/ FetchReturns(i) \/ FetchReport(i)
  BY <1>2, Actions, Untouching
<1> QED
  BY <1>1, <1>2 DEF Next

(* Most steps leave the channels, or what Fetches hold, alone. *)
LEMMA BufferSteps ==
  ASSUME TypeOK, [Next]_vars
  PROVE  \/ buffer' = buffer
         \/ \E i \in Instance : Send(i) \/ FetchReceive(i)
  BY Steps, LinkLostEffect, MakeEventsEffect, ArriveEffect, HandleEffect,
     FetchLoadEffect, FetchReturnsEffect, FetchReportEffect DEF Untouched

LEMMA HandSteps ==
  ASSUME TypeOK, [Next]_vars
  PROVE  \/ UNCHANGED <<hand, chan>>
         \/ \E i \in Instance : Handle(i) \/ Send(i)
  BY Steps, LinkLostEffect, MakeEventsEffect, ArriveEffect, FetchLoadEffect,
     FetchReceiveEffect, FetchReturnsEffect, FetchReportEffect DEF Untouched

LEMMA FetchSteps ==
  ASSUME TypeOK, [Next]_vars
  PROVE  \/ UNCHANGED <<taken, reported>>
         \/ \E i \in Instance : FetchReceive(i) \/ FetchReport(i)
  BY Steps, LinkLostEffect, MakeEventsEffect, ArriveEffect, HandleEffect, SendEffect,
     FetchLoadEffect, FetchReturnsEffect DEF Untouched

(* A channel holds what it held before, and what is sent to it. *)
LEMMA Elements ==
  ASSUME TypeOK, [Next]_vars, NEW c \in Channel, NEW k \in DOMAIN buffer'[c]
  PROVE  \/ \E l \in DOMAIN buffer[c] : buffer'[c][k] = buffer[c][l]
         \/ \E i \in Instance : Send(i) /\ c = chan[i] /\ buffer'[c][k] = hand[i]
  BY BufferSteps, SendEffect, FetchReceiveEffect

(* The past of a message stays. *)
LEMMA OriginGrows ==
  ASSUME TypeOK, [Next]_vars, NEW m \in DOMAIN origin
  PROVE  m \in DOMAIN origin' /\ origin'[m] = origin[m]
<1>1. ASSUME NEW i \in Instance, Arrive(i)
      PROVE  m \in DOMAIN origin' /\ origin'[m] = origin[m]
  BY <1>1, ArriveEffect
<1> QED
  BY <1>1, Steps, LinkLostEffect, MakeEventsEffect, HandleEffect, SendEffect,
     FetchLoadEffect, FetchReceiveEffect, FetchReturnsEffect, FetchReportEffect
     DEF Untouched

(* A client takes its messages one after the other, so what it has handled stays
   behind what it has in hand and in its inbox. *)
LEMMA BehindStable ==
  ASSUME TypeOK, InboxOrder, [Next]_vars, NEW m, Behind(m)
  PROVE  Behind(m)'
<1> USE DEF Behind, HostOf
<1>1. PICK h \in Instance : h = origin[m]
  BY Numbers
<1>2. m \in DOMAIN origin' /\ origin'[m] = h /\ m \in Nat
  BY <1>1, OriginGrows, Numbers
<1>3. /\ hand[h] # Nothing => m < hand[h]
      /\ \A k \in DOMAIN inbox[h] : m < inbox[h][k]
  BY <1>1
<1> DEFINE Kept == /\ hand'[h] # Nothing => m < hand'[h]
                   /\ \A k \in DOMAIN inbox'[h] : m < inbox'[h][k]
<1> SUFFICES Kept
  BY <1>2
<1>4. ASSUME UNCHANGED <<hand, inbox>>
      PROVE  Kept
  BY <1>3, <1>4
<1>5. ASSUME NEW i \in Instance, LinkLost(i) \/ Arrive(i) \/ Handle(i) \/ Send(i)
      PROVE  Kept
  <2>1. CASE LinkLost(i)
    BY <1>3, <2>1, LinkLostEffect
  <2>2. CASE Arrive(i)
    <3>1. m < Len(origin) + 1
      BY <2>2, ArriveEffect
    <3>2. CASE h # i
      BY <1>3, <2>2, <3>2, ArriveEffect
    <3>3. CASE h = i
      BY <1>3, <2>2, <3>1, <3>3, ArriveEffect
    <3> QED
      BY <3>2, <3>3
  <2>3. CASE Handle(i)
    <3>1. CASE h # i
      BY <1>3, <2>3, <3>1, HandleEffect
    <3>2. CASE h = i
      BY <1>3, <2>3, <3>2, HandleEffect
    <3> QED
      BY <3>1, <3>2
  <2>4. CASE Send(i)
    <3>1. CASE h # i
      BY <1>3, <2>4, <3>1, SendEffect
    <3>2. CASE h = i
      BY <1>3, <2>4, <3>2, SendEffect
    <3> QED
      BY <3>1, <3>2
  <2> QED
    BY <1>5, <2>1, <2>2, <2>3, <2>4
<1> QED
  BY <1>4, <1>5, Steps, MakeEventsEffect, FetchLoadEffect, FetchReceiveEffect,
     FetchReturnsEffect, FetchReportEffect DEF Untouched

(* What is sent was handled. *)
LEMMA SentIsBehind ==
  ASSUME TypeOK, InboxOrder, NEW i \in Instance, Send(i), NEW m, m = hand[i]
  PROVE  /\ Behind(m)' /\ origin'[m] = i
         /\ \A n : Behind(n) => n # m /\ (origin'[n] = i => n < m)
<1>1. /\ m \in DOMAIN origin /\ origin[m] = i /\ m # Nothing
      /\ \A k \in DOMAIN inbox[i] : m < inbox[i][k]
  BY SendEffect DEF InboxOrder, HostOf
<1>2. hand'[i] = Nothing /\ inbox' = inbox /\ origin' = origin
  BY SendEffect
<1>3. ASSUME NEW n, Behind(n)
      PROVE  n # m /\ (origin'[n] = i => n < m)
  <2>1. origin'[n] = i => n < m
    BY <1>1, <1>2, <1>3 DEF Behind, HostOf
  <2>2. ~ (m < m)
    BY <1>1, Numbers
  <2> QED
    BY <1>1, <1>2, <2>1, <2>2
<1> QED
  BY <1>1, <1>2, <1>3 DEF Behind, HostOf

(* An instance never goes back to an earlier channel. *)
LEMMA FloorGrows ==
  ASSUME TypeOK, [Next]_vars, NEW i \in Instance
  PROVE  Floor(i) \in Nat /\ Floor(i)' \in Nat /\ Floor(i) <= Floor(i)'
<1>1. made \in Nat /\ source[i] \in Nat /\ source[i] <= made
  <2>1. made \in Nat /\ source[i] \in 0..made
    BY MqttAssumption DEF TypeOK, MqttAssumption
  <2> QED
    BY <2>1
<1>2. ASSUME UNCHANGED <<made, source>> PROVE Floor(i)' = Floor(i)
  BY <1>2 DEF Floor
<1>3. ASSUME NEW j \in Instance, MakeEvents(j)
      PROVE  Floor(i)' \in Nat /\ Floor(i) <= Floor(i)'
  BY <1>1, <1>3, MakeEventsEffect DEF Floor
<1>4. ASSUME NEW j \in Instance, FetchLoad(j) \/ FetchReceive(j) \/ FetchReturns(j)
      PROVE  Floor(i)' \in Nat /\ Floor(i) <= Floor(i)'
  <2>1. /\ made' = made
        /\ \/ source'[j] = NilChannel
           \/ source[j] = NilChannel /\ source'[j] = made
        /\ j # i => source'[i] = source[i]
    BY <1>4, FetchLoadEffect, FetchReceiveEffect, FetchReturnsEffect
  <2> QED
    BY <1>1, <2>1 DEF Floor
<1>5. Floor(i) \in Nat
  BY <1>1 DEF Floor
<1>6. \/ UNCHANGED <<made, source>>
      \/ \E j \in Instance : \/ MakeEvents(j) \/ FetchLoad(j)
                            \/ FetchReceive(j) \/ FetchReturns(j)
  BY Steps, LinkLostEffect, ArriveEffect, HandleEffect, SendEffect, FetchReportEffect
     DEF Untouched
<1> QED
  BY <1>2, <1>3, <1>4, <1>5, <1>6

(* So what is ahead of all that an instance can receive stays ahead of it: what a
   handler adds, its client got later. *)
LEMMA AheadStable ==
  ASSUME TypeOK, InboxOrder, BufferOrder, [Next]_vars,
         NEW i \in Instance, NEW m, Ahead(m, i)
  PROVE  Ahead(m, i)'
<1>1. Behind(m) /\ Behind(m)'
  BY BehindStable DEF Ahead
<1>2. m \in DOMAIN origin /\ origin'[m] = origin[m]
  BY <1>1, OriginGrows DEF Behind
<1>3. ASSUME NEW c \in Channel, NEW k \in DOMAIN buffer'[c], c >= Floor(i)',
             origin'[buffer'[c][k]] = origin'[m]
      PROVE  m < buffer'[c][k]
  <2>0. c >= Floor(i)
    BY <1>3, FloorGrows, Numbers
  <2>1. ASSUME NEW l \in DOMAIN buffer[c], buffer'[c][k] = buffer[c][l]
        PROVE  m < buffer'[c][k]
    <3>1. buffer[c][l] \in DOMAIN origin
      BY DEF BufferOrder, Behind
    <3>2. origin'[buffer[c][l]] = origin[buffer[c][l]]
      BY <3>1, OriginGrows
    <3> QED
      BY <1>2, <1>3, <2>0, <2>1, <3>2 DEF Ahead, HostOf
  <2>2. ASSUME NEW j \in Instance, Send(j), buffer'[c][k] = hand[j]
        PROVE  m < buffer'[c][k]
    BY <1>1, <1>3, <2>2, SentIsBehind
  <2> QED
    BY <2>1, <2>2, Elements
<1> QED
  BY <1>1, <1>3 DEF Ahead, HostOf

(* And what has left the channels does not come back. *)
LEMMA GoneStable ==
  ASSUME TypeOK, InboxOrder, [Next]_vars, NEW m, Gone(m)
  PROVE  Gone(m)'
<1>1. Behind(m) /\ Behind(m)'
  BY BehindStable DEF Gone
<1>2. ASSUME NEW c \in Channel, NEW k \in DOMAIN buffer'[c]
      PROVE  buffer'[c][k] # m
  <2>1. ASSUME NEW j \in Instance, Send(j), buffer'[c][k] = hand[j]
        PROVE  buffer'[c][k] # m
    BY <1>1, <2>1, SentIsBehind
  <2> QED
    BY <1>2, <2>1, Elements DEF Gone
<1> QED
  BY <1>1, <1>2 DEF Gone

-----------------------------------------------------------------------------
(* The order invariant, part by part. *)
LEMMA InboxNext ==
  ASSUME TypeOK, InboxOrder, [Next]_vars
  PROVE  InboxOrder'
<1> DEFINE InOrder(j) ==
      /\ \A k \in DOMAIN inbox'[j] :
           /\ inbox'[j][k] \in DOMAIN origin'
           /\ origin'[inbox'[j][k]] = j
           /\ hand'[j] # Nothing => hand'[j] < inbox'[j][k]
      /\ \A k, l \in DOMAIN inbox'[j] : k < l => inbox'[j][k] < inbox'[j][l]
      /\ hand'[j] # Nothing => hand'[j] \in DOMAIN origin' /\ origin'[hand'[j]] = j
<1> SUFFICES ASSUME NEW j \in Instance PROVE InOrder(j)
  BY DEF InboxOrder, HostOf
<1>1. /\ \A k \in DOMAIN inbox[j] :
           /\ inbox[j][k] \in DOMAIN origin'
           /\ origin'[inbox[j][k]] = j
           /\ hand[j] # Nothing => hand[j] < inbox[j][k]
      /\ \A k, l \in DOMAIN inbox[j] : k < l => inbox[j][k] < inbox[j][l]
      /\ hand[j] # Nothing => hand[j] \in DOMAIN origin' /\ origin'[hand[j]] = j
  BY OriginGrows DEF InboxOrder, HostOf
<1>2. ASSUME hand'[j] = hand[j], inbox'[j] = inbox[j]
      PROVE  InOrder(j)
  BY <1>1, <1>2
<1>3. ASSUME NEW i \in Instance, LinkLost(i) \/ Arrive(i) \/ Handle(i) \/ Send(i)
      PROVE  InOrder(j)
  <2>1. CASE i # j
    <3>1. j \in Instance \ {i}
      BY <2>1
    <3>2. hand'[j] = hand[j] /\ inbox'[j] = inbox[j]
      BY <1>3, <3>1, LinkLostEffect, ArriveEffect, HandleEffect, SendEffect
    <3> QED
      BY <1>2, <3>2
  <2>2. CASE i = j /\ LinkLost(i)
    <3>1. inbox'[j] = <<>> /\ hand'[j] = hand[j]
      BY <2>2, LinkLostEffect
    <3> QED
      BY <1>1, <3>1
  <2>3. CASE i = j /\ Arrive(i)
    <3> DEFINE n == Len(inbox[j])
    <3>1. /\ DOMAIN inbox'[j] = DOMAIN inbox[j] \union {n + 1} /\ n \in Nat
          /\ DOMAIN inbox[j] = 1..n
          /\ \A k \in DOMAIN inbox[j] : inbox'[j][k] = inbox[j][k]
          /\ inbox'[j][n + 1] = Len(origin) + 1 /\ hand'[j] = hand[j]
      BY <2>3, ArriveEffect
    <3>2. /\ Len(origin) + 1 \in DOMAIN origin' /\ origin'[Len(origin) + 1] = j
          /\ DOMAIN origin = 1..Len(origin) /\ Len(origin) \in Nat
      BY <2>3, ArriveEffect
    <3>3. /\ \A k \in DOMAIN inbox[j] : inbox[j][k] < Len(origin) + 1
          /\ hand[j] # Nothing => hand[j] < Len(origin) + 1
      BY <3>2 DEF InboxOrder
    <3> QED
      BY <1>1, <3>1, <3>2, <3>3
  <2>4. CASE i = j /\ Handle(i)
    <3>1. /\ 1 \in DOMAIN inbox[j] /\ hand'[j] = inbox[j][1]
          /\ \A k \in DOMAIN inbox'[j] :
               /\ k \in Nat \ {0} /\ k + 1 \in DOMAIN inbox[j]
               /\ inbox'[j][k] = inbox[j][k + 1]
      BY <2>4, HandleEffect
    <3>2. \A k \in DOMAIN inbox'[j] : 1 < k + 1
      BY <3>1
    <3> QED
      BY <1>1, <3>1, <3>2
  <2>5. CASE i = j /\ Send(i)
    <3>1. hand'[j] = Nothing /\ inbox'[j] = inbox[j]
      BY <2>5, SendEffect
    <3> QED
      BY <1>1, <3>1
  <2> QED
    BY <1>3, <2>1, <2>2, <2>3, <2>4, <2>5
<1> QED
  BY <1>2, <1>3, Steps, MakeEventsEffect, FetchLoadEffect, FetchReceiveEffect,
     FetchReturnsEffect, FetchReportEffect DEF Untouched

LEMMA BufferNext ==
  ASSUME TypeOK, TypeOK', InboxOrder, BufferOrder, [Next]_vars
  PROVE  BufferOrder'
<1> SUFFICES ASSUME NEW c \in Channel
             PROVE  /\ c > made' => buffer'[c] = <<>>
                    /\ \A k \in DOMAIN buffer'[c] : Behind(buffer[c][k])'
  BY DEF BufferOrder
<1>1. /\ c > made => buffer[c] = <<>>
      /\ \A k \in DOMAIN buffer[c] : Behind(buffer[c][k])
      /\ made \in Nat /\ c \in Nat
  BY Numbers DEF BufferOrder
<1>2. ASSUME c > made'
      PROVE  buffer'[c] = <<>>
  <2>1. made' \in Nat
    BY MqttAssumption DEF TypeOK, MqttAssumption
  <2>2. c > made /\ buffer[c] = <<>>
    <3>1. made' = made \/ made' = made + 1
      BY Steps, LinkLostEffect, MakeEventsEffect, ArriveEffect, HandleEffect,
         SendEffect, FetchLoadEffect, FetchReceiveEffect, FetchReturnsEffect,
         FetchReportEffect DEF Untouched
    <3> QED
      BY <1>1, <1>2, <2>1, <3>1
  <2>3. ASSUME NEW i \in Instance, Send(i)
        PROVE  buffer'[c] = buffer[c]
    <3>1. chan[i] # c /\ buffer' = [buffer EXCEPT ![chan[i]] = Append(@, hand[i])]
      BY <1>1, <2>2, <2>3, SendEffect DEF Channel
    <3> QED
      BY <3>1 DEF TypeOK
  <2>4. ASSUME NEW i \in Instance, FetchReceive(i)
        PROVE  buffer'[c] = buffer[c]
    <3>1. source[i] # c /\ buffer' = [buffer EXCEPT ![source[i]] = Tail(@)]
      BY <1>1, <2>2, <2>4, FetchReceiveEffect DEF Channel
    <3> QED
      BY <3>1 DEF TypeOK
  <2> QED
    BY <2>2, <2>3, <2>4, BufferSteps
<1>3. ASSUME NEW k \in DOMAIN buffer'[c], NEW m, m = buffer'[c][k]
      PROVE  Behind(m)'
  <2>1. ASSUME NEW l \in DOMAIN buffer[c], m = buffer[c][l]
        PROVE  Behind(m)'
    <3>1. Behind(m)
      BY <1>1, <2>1
    <3> QED
      BY <3>1, BehindStable
  <2> QED
    BY <1>3, <2>1, Elements, SentIsBehind
<1> QED
  BY <1>2, <1>3 DEF Behind, HostOf

(* A handler that is late stays the only one of its client. *)
LEMMA HandNext ==
  ASSUME TypeOK, InboxOrder, BufferOrder, HandOrder, [Next]_vars
  PROVE  HandOrder'
<1> SUFFICES ASSUME NEW i \in Instance, NEW c \in Channel, hand'[i] # Nothing, c > chan'[i],
                    NEW k \in DOMAIN buffer'[c]
             PROVE  origin'[buffer'[c][k]] # i
  BY DEF HandOrder, HostOf
<1>1. CASE Handle(i)
  <2>1. chan'[i] = made /\ buffer' = buffer
    BY <1>1, HandleEffect
  <2>2. buffer[c] = <<>>
    BY <2>1 DEF BufferOrder
  <2> QED
    BY <2>1, <2>2
<1>2. CASE ~ Handle(i)
  <2>1. hand'[i] = hand[i] /\ chan'[i] = chan[i]
    BY <1>2, HandSteps, HandleEffect, SendEffect
  <2>2. ASSUME NEW l \in DOMAIN buffer[c], buffer'[c][k] = buffer[c][l]
        PROVE  origin'[buffer'[c][k]] # i
    <3>1. buffer[c][l] \in DOMAIN origin
      BY DEF BufferOrder, Behind
    <3>2. origin'[buffer[c][l]] = origin[buffer[c][l]]
      BY <3>1, OriginGrows
    <3> QED
      BY <2>1, <2>2, <3>2 DEF HandOrder, HostOf
  <2>3. ASSUME NEW j \in Instance, Send(j), buffer'[c][k] = hand[j]
        PROVE  origin'[buffer'[c][k]] # i
    <3>1. origin'[hand[j]] = j /\ j # i
      BY <2>3, SentIsBehind, SendEffect
    <3> QED
      BY <2>3, <3>1
  <2> QED
    BY <2>2, <2>3, Elements
<1> QED
  BY <1>1, <1>2

(* What is sent arrived after all of its host that is in that channel or in an
   earlier one, and no later channel has any. *)
LEMMA ChannelNext ==
  ASSUME TypeOK, InboxOrder, BufferOrder, HandOrder, ChannelOrder, [Next]_vars
  PROVE  ChannelOrder'
<1> DEFINE Host(m) == origin'[m]
           Earlier(c, j, d, k) == c < d \/ (c = d /\ j < k)
<1>1. \A c \in Channel : \A k \in DOMAIN buffer[c] :
        Behind(buffer[c][k]) /\ Host(buffer[c][k]) = HostOf(buffer[c][k])
  BY OriginGrows DEF BufferOrder, Behind, HostOf
<1>2. ASSUME NEW c \in Channel, NEW d \in Channel,
             NEW j \in DOMAIN buffer'[c], NEW k \in DOMAIN buffer'[d],
             Earlier(c, j, d, k), Host(buffer'[c][j]) = Host(buffer'[d][k])
      PROVE  buffer'[c][j] < buffer'[d][k]
  <2>0. \A x \in DOMAIN buffer[c], y \in DOMAIN buffer[d] :
          /\ Earlier(c, x, d, y)
          /\ Host(buffer[c][x]) = Host(buffer[d][y])
          => buffer[c][x] < buffer[d][y]
    BY <1>1 DEF ChannelOrder
  <2>1. CASE buffer' = buffer
    BY <1>2, <2>0, <2>1
  <2>2. ASSUME NEW i \in Instance, Send(i)
        PROVE  buffer'[c][j] < buffer'[d][k]
    <3>0. /\ \A n : Behind(n) => (Host(n) = i => n < hand[i])
          /\ Host(hand[i]) = i /\ hand[i] # Nothing
      BY <2>2, SentIsBehind, SendEffect
    <3>1. CASE /\ j \in DOMAIN buffer[c] /\ buffer'[c][j] = buffer[c][j]
               /\ k \in DOMAIN buffer[d] /\ buffer'[d][k] = buffer[d][k]
      BY <1>2, <2>0, <3>1
    <3>2. CASE /\ j \in DOMAIN buffer[c] /\ buffer'[c][j] = buffer[c][j]
               /\ buffer'[d][k] = hand[i]
      BY <1>1, <1>2, <3>0, <3>2
    <3>3. CASE /\ c = chan[i] /\ buffer'[c][j] = hand[i]
               /\ \A l \in DOMAIN buffer'[c] : l <= j
      <4>1. j \in Nat /\ k \in Nat
        BY <2>2, SendEffect
      <4>2. d > c
        <5>1. ~ (c = d /\ j < k)
          BY <3>3, <4>1
        <5> QED
          BY <1>2, <5>1, Numbers
      <4>3. k \in DOMAIN buffer[d] /\ buffer'[d][k] = buffer[d][k]
        BY <2>2, <3>3, <4>2, SendEffect, Numbers
      <4>4. HostOf(buffer[d][k]) # i
        BY <3>0, <3>3, <4>2, <4>3 DEF HandOrder
      <4> QED
        BY <1>1, <1>2, <3>0, <3>3, <4>3, <4>4
    <3> QED
      BY <2>2, <3>1, <3>2, <3>3, SendEffect
  <2>3. ASSUME NEW i \in Instance, FetchReceive(i)
        PROVE  buffer'[c][j] < buffer'[d][k]
    <3>1. /\ j \in Nat /\ k \in Nat
          /\ \/ c # source[i] /\ j \in DOMAIN buffer[c] /\ buffer'[c][j] = buffer[c][j]
             \/ c = source[i] /\ j + 1 \in DOMAIN buffer[c] /\ buffer'[c][j] = buffer[c][j + 1]
          /\ \/ d # source[i] /\ k \in DOMAIN buffer[d] /\ buffer'[d][k] = buffer[d][k]
             \/ d = source[i] /\ k + 1 \in DOMAIN buffer[d] /\ buffer'[d][k] = buffer[d][k + 1]
      BY <2>3, FetchReceiveEffect
    <3>2. PICK x \in {j, j + 1}, y \in {k, k + 1} :
            /\ x \in DOMAIN buffer[c] /\ buffer'[c][j] = buffer[c][x]
            /\ y \in DOMAIN buffer[d] /\ buffer'[d][k] = buffer[d][y]
            /\ Earlier(c, x, d, y)
      <4>1. CASE c < d
        BY <3>1, <4>1
      <4>2. CASE c = d /\ j < k
        BY <3>1, <4>2
      <4> QED
        BY <1>2, <4>1, <4>2
    <3> QED
      BY <1>2, <2>0, <3>2
  <2> QED
    BY <2>1, <2>2, <2>3, BufferSteps
<1> QED
  BY <1>2 DEF ChannelOrder, HostOf

(* What a Fetch takes is the first of its channel: ahead of all that it can
   receive later, and behind all that it has taken before. *)
LEMMA TakenIsAhead ==
  ASSUME TypeOK, InboxOrder, BufferOrder, ChannelOrder, [Next]_vars,
         NEW i \in Instance, FetchReceive(i), NEW m, m = taken'[i]
  PROVE  /\ Ahead(m, i)' /\ m # Nothing
         /\ \A n : Ahead(n, i) /\ HostOf(n) = HostOf(m) => n < m
<1> DEFINE s == source[i]
<1>1. /\ m = buffer[s][1] /\ 1 \in DOMAIN buffer[s] /\ m \in Message /\ s \in Channel
      /\ s <= made /\ origin' = origin /\ made' = made /\ source'[i] = NilChannel
  BY FetchReceiveEffect
<1>2. Behind(m) /\ Behind(m)'
  BY <1>1, BehindStable DEF BufferOrder
<1>3. s # NilChannel /\ Floor(i) = s /\ Floor(i)' = made
  BY <1>1, Numbers DEF Floor, NilChannel
<1>4. ASSUME NEW c \in Channel, NEW k \in DOMAIN buffer'[c], c >= Floor(i)',
             origin[buffer'[c][k]] = origin[m]
      PROVE  m < buffer'[c][k]
  <2>1. c \in Nat /\ s \in Nat /\ made \in Nat /\ s <= c
    BY <1>1, <1>3, <1>4, Numbers
  <2>2. PICK l \in DOMAIN buffer[c] :
          buffer'[c][k] = buffer[c][l] /\ (s < c \/ (s = c /\ 1 < l))
    <3>1. /\ k \in Nat \ {0}
          /\ \/ c # s /\ k \in DOMAIN buffer[c] /\ buffer'[c][k] = buffer[c][k]
             \/ c = s /\ k + 1 \in DOMAIN buffer[c] /\ buffer'[c][k] = buffer[c][k + 1]
      BY <1>4, FetchReceiveEffect
    <3> QED
      BY <2>1, <3>1
  <2> QED
    BY <1>1, <1>4, <2>2 DEF ChannelOrder, HostOf
<1>5. ASSUME NEW n, Ahead(n, i), HostOf(n) = HostOf(m)
      PROVE  n < m
  <2>1. s >= Floor(i)
    BY <1>1, <1>3, Numbers
  <2> QED
    BY <1>1, <1>5, <2>1 DEF Ahead
<1>6. m # Nothing
  BY <1>1, Numbers
<1> QED
  BY <1>1, <1>2, <1>4, <1>5, <1>6 DEF Ahead, HostOf

LEMMA FetchNext ==
  ASSUME TypeOK, TypeOK', OrderInv, [Next]_vars
  PROVE  FetchOrder' /\ ReportedInOrder'
<1> USE DEF OrderInv
<1> DEFINE Host(m) == origin'[m]
<1>1. \A m : \A i \in Instance : Ahead(m, i) => Ahead(m, i)' /\ Host(m) = HostOf(m)
  BY AheadStable, OriginGrows DEF Ahead, Behind, HostOf
<1>2. /\ \A i \in Instance : taken[i] # Nothing => source[i] = NilChannel /\ Ahead(taken[i], i)
      /\ \A k \in DOMAIN reported :
           reported[k].by \in Instance /\ Ahead(reported[k].message, reported[k].by)
  BY Numbers DEF FetchOrder
<1> DEFINE Taking == \A m : \A i \in Instance :
                       taken'[i] = m /\ m # Nothing => source'[i] = NilChannel /\ Ahead(m, i)'
           Reporting == \A m : \A i \in Instance : \A k \in DOMAIN reported' :
                          reported'[k].message = m /\ reported'[k].by = i => Ahead(m, i)'
           After == \A k \in DOMAIN reported', i \in Instance :
                      /\ reported'[k].by = i /\ taken'[i] # Nothing
                      /\ Host(taken'[i]) = Host(reported'[k].message)
                      => reported'[k].message < taken'[i]
           Order == \A j, k \in DOMAIN reported' :
                      /\ j < k /\ reported'[j].by = reported'[k].by
                      /\ Host(reported'[j].message) = Host(reported'[k].message)
                      => reported'[j].message < reported'[k].message
<1>3. SUFFICES Taking /\ Reporting /\ After /\ Order
  <2>1. \A k \in DOMAIN reported' : reported'[k].by \in Instance
    <3> DEFINE R == [message : Message, by : Instance]
    <3>1. reported' \in Seq(R)
      BY DEF TypeOK
    <3> HIDE DEF R
    <3>2. \A k \in DOMAIN reported' : reported'[k] \in R
      BY <3>1
    <3> QED
      BY <3>2 DEF R
  <2>2. ASSUME Taking, Reporting, After
        PROVE  FetchOrder'
    <3>1. (\A i \in Instance :
             taken[i] # Nothing => source[i] = NilChannel /\ Ahead(taken[i], i))'
      BY <2>2 DEF Ahead, Behind, HostOf, Floor
    <3>2. (\A k \in DOMAIN reported : Ahead(reported[k].message, reported[k].by))'
      BY <2>1, <2>2 DEF Ahead, Behind, HostOf, Floor
    <3>3. \A k \in DOMAIN reported', i \in Instance :
            /\ i = reported'[k].by /\ taken'[i] # Nothing
            /\ HostOf(taken[i])' = HostOf(reported[k].message)'
            => reported'[k].message < taken'[i]
      BY <2>2 DEF HostOf
    <3> QED
      BY <2>1, <3>1, <3>2, <3>3 DEF FetchOrder
  <2>3. ASSUME Order
        PROVE  ReportedInOrder'
    BY <2>3 DEF ReportedInOrder
  <2> QED
    BY <2>2, <2>3
<1>4. CASE UNCHANGED <<taken, reported>>
  <2>1. \A i \in Instance : taken[i] # Nothing => source'[i] = NilChannel
    <3>1. ASSUME NEW j \in Instance, FetchLoad(j)
          PROVE  taken[j] = Nothing /\ \A i \in Instance \ {j} : source'[i] = source[i]
      BY <3>1, FetchLoadEffect
    <3>2. ASSUME NEW j \in Instance, FetchReceive(j) \/ FetchReturns(j)
          PROVE  /\ source'[j] = NilChannel
                 /\ \A i \in Instance \ {j} : source'[i] = source[i]
      BY <3>2, FetchReceiveEffect, FetchReturnsEffect
    <3>3. \/ source' = source
          \/ \E j \in Instance : FetchLoad(j) \/ FetchReceive(j) \/ FetchReturns(j)
      BY Steps, LinkLostEffect, MakeEventsEffect, ArriveEffect, HandleEffect, SendEffect,
         FetchReportEffect DEF Untouched
    <3> QED
      BY <1>2, <3>1, <3>2, <3>3
  <2>2. Taking /\ Reporting
    BY <1>1, <1>2, <1>4, <2>1
  <2>3. After
    BY <1>1, <1>2, <1>4 DEF FetchOrder
  <2>4. Order
    BY <1>1, <1>2, <1>4 DEF ReportedInOrder, HostOf
  <2> QED
    BY <2>2, <2>3, <2>4
<1>5. ASSUME NEW i \in Instance, FetchReceive(i)
      PROVE  Taking /\ Reporting /\ After /\ Order
  <2>1. /\ reported' = reported /\ origin' = origin /\ source'[i] = NilChannel
        /\ \A j \in Instance \ {i} : source'[j] = source[j] /\ taken'[j] = taken[j]
    BY <1>5, FetchReceiveEffect
  <2>2. /\ \A m : m = taken'[i] => Ahead(m, i)' /\ m # Nothing
        /\ \A n : Ahead(n, i) /\ HostOf(n) = Host(taken'[i]) => n < taken'[i]
    BY <1>5, <2>1, TakenIsAhead DEF HostOf
  <2>3. Taking /\ Reporting
    BY <1>1, <1>2, <2>1, <2>2
  <2>4. After
    BY <1>1, <1>2, <2>1, <2>2 DEF FetchOrder
  <2>5. Order
    BY <1>1, <1>2, <2>1 DEF ReportedInOrder, HostOf
  <2> QED
    BY <2>3, <2>4, <2>5
<1>6. ASSUME NEW i \in Instance, FetchReport(i)
      PROVE  Taking /\ Reporting /\ After /\ Order
  <2>1. /\ taken[i] # Nothing /\ taken'[i] = Nothing /\ origin' = origin /\ source' = source
        /\ \A j \in Instance \ {i} : taken'[j] = taken[j]
        /\ \A k \in DOMAIN reported' : k \in Nat /\
             \/ k \in DOMAIN reported /\ reported'[k] = reported[k]
             \/ /\ reported'[k].message = taken[i] /\ reported'[k].by = i
                /\ \A l \in DOMAIN reported' : l <= k
    BY <1>6, FetchReportEffect
  <2>2. Taking /\ Reporting
    BY <1>1, <1>2, <2>1
  <2>3. After
    <3>1. \A k \in DOMAIN reported', j \in Instance :
            reported'[k].by = j /\ taken'[j] # Nothing =>
              /\ k \in DOMAIN reported /\ reported'[k] = reported[k]
              /\ taken'[j] = taken[j]
      BY <2>1
    <3> QED
      BY <2>1, <3>1 DEF FetchOrder, HostOf
  <2>4. ASSUME NEW j \in DOMAIN reported', NEW k \in DOMAIN reported', j < k,
               reported'[j].by = reported'[k].by,
               Host(reported'[j].message) = Host(reported'[k].message)
        PROVE  reported'[j].message < reported'[k].message
    <3>1. j \in DOMAIN reported /\ reported'[j] = reported[j]
      BY <2>1, <2>4
    <3>2. CASE k \in DOMAIN reported /\ reported'[k] = reported[k]
      BY <2>1, <2>4, <3>1, <3>2 DEF ReportedInOrder
    <3>3. CASE reported'[k].message = taken[i] /\ reported'[k].by = i
      BY <2>1, <2>4, <3>1, <3>3 DEF FetchOrder, HostOf
    <3> QED
      BY <2>1, <3>2, <3>3
  <2> QED
    BY <2>2, <2>3, <2>4
<1> QED
  BY <1>4, <1>5, <1>6, FetchSteps

-----------------------------------------------------------------------------
LEMMA OrderInit == Init => OrderInv
<1> SUFFICES ASSUME Init PROVE OrderInv
  OBVIOUS
<1>1. /\ \A i \in Instance : inbox[i] = <<>> /\ hand[i] = Nothing /\ taken[i] = Nothing
      /\ \A c \in Channel : buffer[c] = <<>>
      /\ reported = <<>>
  BY DEF Init
<1> QED
  BY <1>1 DEF OrderInv, InboxOrder, BufferOrder, HandOrder, ChannelOrder, FetchOrder,
     ReportedInOrder

LEMMA OrderNext == TypeOK /\ TypeOK' /\ OrderInv /\ [Next]_vars => OrderInv'
  BY InboxNext, BufferNext, HandNext, ChannelNext, FetchNext DEF OrderInv

(* Messages of one host keep the order of arrival all the way. *)
LEMMA Ordered == Spec => []OrderInv
  BY TypeCorrect, OrderInit, OrderNext, PTL DEF Spec

(* What an instance reports of a host is in the order of arrival: over all
   reconnects, all channels that replaced one another, all handlers that were
   blocked on an old one and all Fetches that looked into one, for any number of
   instances that fetch. *)
THEOREM ReportsInOrder == Spec => []ReportedInOrder
<1>1. OrderInv => ReportedInOrder
  BY DEF OrderInv
<1> QED
  BY <1>1, Ordered, PTL

-----------------------------------------------------------------------------
(* What a Fetch takes is nowhere else in the channels. *)
LEMMA TakenIsGone ==
  ASSUME TypeOK, InboxOrder, BufferOrder, ChannelOrder, [Next]_vars,
         NEW i \in Instance, FetchReceive(i), NEW m, m = taken'[i]
  PROVE  Gone(m)' /\ \A n : Gone(n) => n # m
<1> DEFINE s == source[i]
<1>1. /\ m = buffer[s][1] /\ 1 \in DOMAIN buffer[s] /\ m \in Message /\ s \in Channel
  BY FetchReceiveEffect
<1>2. Behind(m)'
  BY <1>1, BehindStable DEF BufferOrder
<1>3. ASSUME NEW c \in Channel, NEW k \in DOMAIN buffer'[c]
      PROVE  buffer'[c][k] # m
  <2>1. PICK l \in DOMAIN buffer[c] :
          buffer'[c][k] = buffer[c][l] /\ (c < s \/ s < c \/ (s = c /\ 1 < l))
    <3>1. /\ k \in Nat \ {0}
          /\ \/ c # s /\ k \in DOMAIN buffer[c] /\ buffer'[c][k] = buffer[c][k]
             \/ c = s /\ k + 1 \in DOMAIN buffer[c] /\ buffer'[c][k] = buffer[c][k + 1]
      BY <1>3, FetchReceiveEffect
    <3>2. c \in Nat /\ s \in Nat
      BY <1>1, Numbers
    <3> QED
      BY <3>1, <3>2
  <2>2. buffer[c][l] = m => m < m
    BY <1>1, <2>1 DEF ChannelOrder
  <2>3. ~ (m < m)
    BY <1>1, Numbers
  <2> QED
    BY <2>1, <2>2, <2>3
<1> QED
  BY <1>1, <1>2, <1>3 DEF Gone

(* A Fetch takes what nobody has taken before, and reports what no other Fetch
   holds. *)
LEMMA OnceNext == TypeOK /\ TypeOK' /\ OrderInv /\ OnceInv /\ [Next]_vars => OnceInv'
<1> SUFFICES ASSUME TypeOK, TypeOK', OrderInv, OnceInv, [Next]_vars PROVE OnceInv'
  OBVIOUS
<1> USE DEF OrderInv
<1>1. \A m : Gone(m) => Gone(m)'
  BY GoneStable
<1>2. /\ \A i \in Instance : taken[i] # Nothing => Gone(taken[i])
      /\ \A k \in DOMAIN reported : Gone(reported[k].message)
  BY DEF OnceInv
<1> DEFINE Taking == \A m : \A i \in Instance : taken'[i] = m /\ m # Nothing => Gone(m)'
           Reporting == \A m : \A k \in DOMAIN reported' : reported'[k].message = m => Gone(m)'
           Apart == \A i, j \in Instance : i # j /\ taken'[i] # Nothing => taken'[i] # taken'[j]
           After == \A k \in DOMAIN reported', i \in Instance :
                      taken'[i] # Nothing => reported'[k].message # taken'[i]
<1>3. SUFFICES Taking /\ Reporting /\ Apart /\ After /\ ReportedOnce'
  BY DEF OnceInv, Gone, Behind, HostOf
<1>4. CASE UNCHANGED <<taken, reported>>
  BY <1>1, <1>2, <1>4 DEF OnceInv, ReportedOnce
<1>5. ASSUME NEW i \in Instance, FetchReceive(i)
      PROVE  Taking /\ Reporting /\ Apart /\ After /\ ReportedOnce'
  <2>1. reported' = reported /\ \A j \in Instance \ {i} : taken'[j] = taken[j]
    BY <1>5, FetchReceiveEffect
  <2>2. \A m : m = taken'[i] => Gone(m)' /\ \A n : Gone(n) => n # m
    BY <1>5, TakenIsGone
  <2>3. Taking /\ Reporting
    BY <1>1, <1>2, <2>1, <2>2
  <2>4. Apart /\ After
    BY <1>2, <2>1, <2>2 DEF OnceInv
  <2>5. ReportedOnce'
    BY <2>1 DEF OnceInv, ReportedOnce
  <2> QED
    BY <2>3, <2>4, <2>5
<1>6. ASSUME NEW i \in Instance, FetchReport(i)
      PROVE  Taking /\ Reporting /\ Apart /\ After /\ ReportedOnce'
  <2>1. /\ taken[i] # Nothing /\ taken'[i] = Nothing
        /\ \A j \in Instance \ {i} : taken'[j] = taken[j]
        /\ \A k \in DOMAIN reported' : k \in Nat /\
             \/ k \in DOMAIN reported /\ reported'[k] = reported[k]
             \/ /\ reported'[k].message = taken[i] /\ reported'[k].by = i
                /\ \A l \in DOMAIN reported' : l <= k
    BY <1>6, FetchReportEffect
  <2>2. Taking /\ Reporting
    BY <1>1, <1>2, <2>1
  <2>3. \A j \in Instance : taken'[j] # Nothing => taken[j] = taken'[j] /\ taken[j] # taken[i]
    BY <2>1 DEF OnceInv
  <2>4. Apart /\ After
    BY <2>1, <2>3 DEF OnceInv
  <2>5. ASSUME NEW j \in DOMAIN reported', NEW k \in DOMAIN reported', j < k
        PROVE  reported'[j].message # reported'[k].message
    <3>1. j \in DOMAIN reported /\ reported'[j] = reported[j]
      BY <2>1, <2>5
    <3> QED
      BY <2>1, <2>5, <3>1 DEF OnceInv, ReportedOnce
  <2>6. \A j, k \in DOMAIN reported' : j # k => j < k \/ k < j
    BY <2>1
  <2> QED
    BY <2>2, <2>4, <2>5, <2>6 DEF ReportedOnce
<1> QED
  BY <1>4, <1>5, <1>6, FetchSteps

LEMMA Unique == Spec => []OnceInv
<1>1. Init => OnceInv
  BY DEF Init, OnceInv, ReportedOnce
<1> QED
  BY <1>1, TypeCorrect, Ordered, OnceNext, PTL DEF Spec

(* Any number of instances may drain one channel, or look into several of those
   that replaced one another: no message is reported twice, not even by two
   instances. *)
THEOREM ReportsOnce == Spec => []ReportedOnce
<1>1. OnceInv => ReportedOnce
  BY DEF OnceInv
<1> QED
  BY <1>1, Unique, PTL

-----------------------------------------------------------------------------
(* The queues that handlers, channels and Fetches are together. *)
Queues == [c \in 1..made |-> buffer[c]]
Handled == {hand[i] : i \in Instance} \ {Nothing}
Fetched == {taken[i] : i \in Instance} \ {Nothing}
Reported == [k \in DOMAIN reported |-> reported[k].message]

(* What is queued is in a channel that was made. *)
LEMMA QueueElements ==
  ASSUME TypeOK
  PROVE  /\ Queues \in Seq(Seq(Message)) /\ Len(Queues) = made /\ DOMAIN Queues = 1..made
         /\ \A c \in 1..made : c \in Channel /\ Queues[c] = buffer[c]
<1>1. made \in Nat /\ made <= MaxConnects /\ buffer \in [Channel -> Seq(Message)]
  BY MqttAssumption DEF TypeOK, MqttAssumption
<1>2. \A c \in 1..made : c \in Channel
  BY <1>1, MqttAssumption DEF Channel, MqttAssumption
<1> QED
  BY <1>1, <1>2 DEF Queues

(* A message that arrives at a handler was not seen before. *)
LEMMA HandleStep ==
  ASSUME TypeOK, OrderInv, OnceInv, NEW i \in Instance, Handle(i)
  PROVE  Queue!Handle
<1> USE DEF OrderInv
<1>1. PICK m : m = hand'[i]
  OBVIOUS
<1>2. /\ hand[i] = Nothing /\ 1 \in DOMAIN inbox[i] /\ m = inbox[i][1] /\ m \in Message
      /\ \A j \in Instance \ {i} : hand'[j] = hand[j]
      /\ UNCHANGED <<made, buffer, source, taken, reported>>
  BY <1>1, HandleEffect
<1>3. m # Nothing /\ m \in Nat
  BY <1>2, Numbers
<1>4. HostOf(m) = i
  BY <1>2 DEF InboxOrder
<1>5. \A n : Behind(n) => n # m
  BY <1>2, <1>3, <1>4 DEF Behind
<1>6. m \notin Handled
  BY <1>2, <1>4 DEF Handled, InboxOrder
<1>7. m \notin UNION {Range(Queues[q]) : q \in DOMAIN Queues}
  BY <1>5, QueueElements DEF BufferOrder, Range
<1>8. m \notin Fetched /\ m \notin Range(Reported)
  BY <1>5 DEF Range, Fetched, Reported, OnceInv, Gone
<1>9. Handled' = Handled \union {m}
  <2>1. \A n : n \in Handled' <=> n # Nothing /\ \E j \in Instance : n = hand'[j]
    BY DEF Handled
  <2>2. \A n : n \in Handled <=> n # Nothing /\ \E j \in Instance : n = hand[j]
    BY DEF Handled
  <2>3. \A n : n \in Handled' <=> n \in Handled \/ n = m
    <3>1. \A j \in Instance : hand'[j] = IF j = i THEN m ELSE hand[j]
      BY <1>1, <1>2
    <3>2. \A n : n \in Handled => n \in Handled'
      BY <1>2, <2>1, <2>2, <3>1
    <3>3. m \in Handled'
      BY <1>3, <2>1, <3>1
    <3>4. \A n : n \in Handled' => n \in Handled \/ n = m
      BY <2>1, <2>2, <3>1
    <3> QED
      BY <3>2, <3>3, <3>4
  <2> QED
    BY <2>3
<1>10. UNCHANGED <<Queues, source, Fetched, Reported>>
  BY <1>2 DEF Queues, Fetched, Reported
<1> QED
  BY <1>2, <1>6, <1>7, <1>8, <1>9, <1>10
     DEF Queue!Handle, Queue!Known, Queue!Queued, Queue!Range, Range, Queues, Handled,
         Fetched, Reported

(* A send puts the message at the end of a channel that was made. *)
LEMMA SendStep ==
  ASSUME TypeOK, OrderInv, NEW i \in Instance, Send(i)
  PROVE  \E m \in Handled, q \in DOMAIN Queues : Queue!Put(m, q)
<1> USE DEF OrderInv
<1>1. PICK m, c : m = hand[i] /\ c = chan[i]
  OBVIOUS
<1>2. /\ m \in Message /\ m # Nothing /\ hand'[i] = Nothing
      /\ \A j \in Instance \ {i} : hand'[j] = hand[j]
      /\ c \in Channel /\ c <= made
      /\ buffer' = [buffer EXCEPT ![c] = Append(@, m)]
      /\ UNCHANGED <<made, source, taken, reported>>
  BY <1>1, SendEffect
<1>3. m \in Handled
  BY <1>1, <1>2 DEF Handled
<1>4. Handled' = Handled \ {m}
  <2>1. \A n : n \in Handled' <=> n # Nothing /\ \E j \in Instance : n = hand'[j]
    BY DEF Handled
  <2>2. \A n : n \in Handled <=> n # Nothing /\ \E j \in Instance : n = hand[j]
    BY DEF Handled
  <2>3. \A j \in Instance \ {i} : hand[j] # m
    BY <1>1, <1>2 DEF InboxOrder
  <2>4. \A n : n \in Handled' <=> n \in Handled /\ n # m
    BY <1>1, <1>2, <2>1, <2>2, <2>3
  <2> QED
    BY <2>4
<1>5. UNCHANGED <<source, Fetched, Reported>>
  BY <1>2 DEF Fetched, Reported
<1>6. c \in DOMAIN Queues /\ Len(Queues[c]) < EventsCap
  <2>1. c \in 1..made /\ Len(buffer[c]) < EventsCap
    BY <1>1, <1>2, Numbers DEF Send
  <2> QED
    BY <2>1, QueueElements
<1>7. Queues' = [Queues EXCEPT ![c] = Append(@, m)]
  <2>1. \A d \in 1..made : d \in Channel
    BY QueueElements
  <2>2. \A d \in 1..made : buffer'[d] = IF d = c THEN Append(buffer[c], m) ELSE buffer[d]
    BY <1>2, <2>1 DEF TypeOK
  <2>3. Queues' = [d \in 1..made |-> buffer'[d]]
    BY <1>2 DEF Queues
  <2> QED
    BY <2>2, <2>3 DEF Queues
<1>8. Queue!Put(m, c)
  BY <1>4, <1>5, <1>6, <1>7 DEF Queue!Put, Queues, Handled, Fetched, Reported
<1> QED
  BY <1>3, <1>6, <1>8

(* A new channel is empty, and those before it stay. *)
LEMMA MakeEventsStep ==
  ASSUME TypeOK, TypeOK', OrderInv, NEW i \in Instance, MakeEvents(i)
  PROVE  Queue!Replace
<1>1. /\ made' = made + 1
      /\ UNCHANGED <<hand, buffer, source, taken, reported>>
  BY MakeEventsEffect
<1>2. made \in Nat /\ made + 1 \in Channel
  <2>1. made' <= MaxConnects /\ made \in Nat
    BY MqttAssumption DEF TypeOK, MqttAssumption
  <2> QED
    BY <1>1, <2>1, MqttAssumption DEF Channel, MqttAssumption
<1>3. buffer[made + 1] = <<>>
  BY <1>2 DEF OrderInv, BufferOrder
<1>4. UNCHANGED <<Handled, source, Fetched, Reported>>
  BY <1>1 DEF Handled, Fetched, Reported
<1>5. Queues' = Append(Queues, <<>>)
  <2>1. Queues' = [c \in 1..made+1 |-> buffer[c]]
    BY <1>1 DEF Queues
  <2>2. Append(Queues, <<>>) = [c \in 1..made+1 |-> IF c = made + 1 THEN <<>> ELSE Queues[c]]
    <3>1. PICK n \in Nat : n = made
      BY <1>2
    <3>2. Queues = [c \in 1..n |-> buffer[c]] /\ Len(Queues) = n
      BY <3>1, QueueElements DEF Queues
    <3>3. Append(Queues, <<>>) = [c \in 1..n+1 |-> IF c = n + 1 THEN <<>> ELSE Queues[c]]
      BY <3>2
    <3> QED
      BY <3>1, <3>3
  <2>3. \A c \in 1..made+1 : buffer[c] = IF c = made + 1 THEN <<>> ELSE Queues[c]
    BY <1>2, <1>3, QueueElements
  <2> QED
    BY <2>1, <2>2, <2>3
<1> QED
  BY <1>4, <1>5 DEF Queue!Replace, Queues, Handled, Fetched, Reported

(* The load of events looks into the last queue. *)
LEMMA FetchLoadStep ==
  ASSUME TypeOK, NEW i \in Instance, FetchLoad(i)
  PROVE  Queue!Look(i)
<1>1. /\ source[i] = NilChannel /\ made > 0 /\ source' = [source EXCEPT ![i] = made]
      /\ UNCHANGED <<hand, made, buffer, taken, reported>>
  BY FetchLoadEffect
<1>2. UNCHANGED <<Queues, Handled, Fetched, Reported>>
  BY <1>1 DEF Queues, Handled, Fetched, Reported
<1>3. Len(Queues) = made /\ Queues # <<>>
  BY <1>1, QueueElements
<1> QED
  BY <1>1, <1>2, <1>3 DEF Queue!Look, NilChannel, Queues, Handled, Fetched, Reported

(* A Fetch receives from the front of the channel it looks into. *)
LEMMA FetchReceiveStep ==
  ASSUME TypeOK, OrderInv, NEW i \in Instance, FetchReceive(i)
  PROVE  Queue!Fetch(i)
<1>0. PICK m, c : m = taken'[i] /\ c = source[i]
  OBVIOUS
<1>1. /\ c \in Channel /\ c <= made /\ source' = [source EXCEPT ![i] = NilChannel]
      /\ \A j \in Instance \ {i} : taken'[j] = taken[j]
      /\ buffer[c] # <<>> /\ m = Head(buffer[c]) /\ m \in Message
      /\ buffer' = [buffer EXCEPT ![c] = Tail(@)]
      /\ UNCHANGED <<hand, made, reported>>
  BY <1>0, FetchReceiveEffect
<1>2. taken[i] = Nothing
  <2>1. source[i] # NilChannel
    BY <1>0, <1>1, Numbers DEF NilChannel
  <2> QED
    BY <2>1 DEF OrderInv, FetchOrder
<1>3. Fetched' = Fetched \union {m}
  <2>1. \A j \in Instance : taken'[j] = IF j = i THEN m ELSE taken[j]
    BY <1>0, <1>1
  <2>2. m # Nothing
    BY <1>1, Numbers
  <2>3. \A n : n \in Fetched' <=> n # Nothing /\ \E j \in Instance : n = taken'[j]
    BY DEF Fetched
  <2>4. \A n : n \in Fetched <=> n # Nothing /\ \E j \in Instance : n = taken[j]
    BY DEF Fetched
  <2>5. \A n : n \in Fetched => n \in Fetched'
    BY <1>2, <2>1, <2>3, <2>4
  <2>6. m \in Fetched'
    BY <2>1, <2>2, <2>3
  <2>7. \A n : n \in Fetched' => n \in Fetched \/ n = m
    BY <2>1, <2>3, <2>4
  <2> QED
    BY <2>5, <2>6, <2>7
<1>4. c # NilChannel /\ c \in 1..made /\ Queues[c] = buffer[c]
  <2>1. c \in Nat \ {0} /\ made \in Nat
    BY <1>1, Numbers
  <2>2. c \in 1..made
    BY <1>1, <2>1
  <2> QED
    BY <2>1, <2>2, QueueElements DEF NilChannel
<1>5. Queues' = [Queues EXCEPT ![c] = Tail(Queues[c])]
  <2>1. \A d \in 1..made : d \in Channel
    BY QueueElements
  <2>2. \A d \in 1..made : buffer'[d] = IF d = c THEN Tail(buffer[c]) ELSE buffer[d]
    BY <1>1, <2>1 DEF TypeOK
  <2>3. Queues' = [d \in 1..made |-> buffer'[d]]
    BY <1>1 DEF Queues
  <2> QED
    BY <1>4, <2>2, <2>3 DEF Queues
<1>6. UNCHANGED <<Handled, Reported>>
  BY <1>1 DEF Handled, Reported
<1> QED
  BY <1>0, <1>1, <1>3, <1>4, <1>5, <1>6
     DEF Queue!Fetch, NilChannel, Queues, Handled, Fetched, Reported

LEMMA FetchReturnsStep ==
  ASSUME TypeOK, NEW i \in Instance, FetchReturns(i)
  PROVE  Queue!LookAway(i)
<1>1. /\ source[i] \in Channel /\ source[i] <= made /\ buffer[source[i]] = <<>>
      /\ source' = [source EXCEPT ![i] = NilChannel]
      /\ UNCHANGED <<hand, made, buffer, taken, reported>>
  BY FetchReturnsEffect
<1>2. UNCHANGED <<Queues, Handled, Fetched, Reported>>
  BY <1>1 DEF Queues, Handled, Fetched, Reported
<1>3. source[i] # NilChannel /\ Queues[source[i]] = <<>>
  <2>1. source[i] \in Nat \ {0} /\ made \in Nat
    BY <1>1, Numbers
  <2>2. source[i] \in 1..made
    BY <1>1, <2>1
  <2> QED
    BY <1>1, <2>1, <2>2, QueueElements DEF NilChannel
<1> QED
  BY <1>1, <1>2, <1>3 DEF Queue!LookAway, NilChannel, Queues, Handled, Fetched, Reported

(* A report is of what this Fetch, and no other, has taken. *)
LEMMA FetchReportStep ==
  ASSUME TypeOK, OnceInv, NEW i \in Instance, FetchReport(i)
  PROVE  \E m \in Fetched : Queue!Report(m)
<1>1. PICK m : m = taken[i]
  OBVIOUS
<1>2. /\ m # Nothing /\ taken'[i] = Nothing
      /\ \A j \in Instance \ {i} : taken'[j] = taken[j]
      /\ reported' = Append(reported, [message |-> m, by |-> i])
      /\ UNCHANGED <<hand, made, buffer, source>>
  BY <1>1, FetchReportEffect
<1>3. m \in Fetched
  BY <1>1, <1>2 DEF Fetched
<1>4. Fetched' = Fetched \ {m}
  <2>1. \A n : n \in Fetched' <=> n # Nothing /\ \E j \in Instance : n = taken'[j]
    BY DEF Fetched
  <2>2. \A n : n \in Fetched <=> n # Nothing /\ \E j \in Instance : n = taken[j]
    BY DEF Fetched
  <2>3. \A j \in Instance \ {i} : taken[j] # m
    BY <1>1, <1>2 DEF OnceInv
  <2>4. \A n : n \in Fetched' <=> n \in Fetched /\ n # m
    BY <1>1, <1>2, <2>1, <2>2, <2>3
  <2> QED
    BY <2>4
<1>5. Reported' = Append(Reported, m)
  <2> DEFINE R == [message : Message, by : Instance]
             new == [message |-> m, by |-> i]
  <2>1. reported \in Seq(R) /\ reported' = Append(reported, new)
    BY <1>2 DEF TypeOK
  <2>2. new.message = m
    OBVIOUS
  <2> HIDE DEF R, new
  <2>3. PICK n \in Nat : n = Len(reported)
    BY <2>1
  <2>4. /\ DOMAIN reported = 1..n /\ DOMAIN reported' = 1..n+1
        /\ \A k \in 1..n : reported'[k] = reported[k]
        /\ reported'[n + 1] = new
    BY <2>1, <2>3
  <2>5. Reported = [k \in 1..n |-> reported[k].message]
    BY <2>4 DEF Reported
  <2>6. Reported' = [k \in 1..n+1 |-> reported'[k].message]
    BY <2>4 DEF Reported
  <2>7. Len(Reported) = n
    BY <2>5
  <2>8. Append(Reported, m) = [k \in 1..n+1 |-> IF k = n + 1 THEN m ELSE Reported[k]]
    BY <2>5, <2>7
  <2> QED
    BY <2>2, <2>4, <2>5, <2>6, <2>8
<1>6. UNCHANGED <<Queues, Handled, source>>
  BY <1>2 DEF Queues, Handled
<1> QED
  BY <1>3, <1>4, <1>5, <1>6 DEF Queue!Report, Queues, Handled, Fetched, Reported

(* Every step of MqttTopic is a step of the queue, or none. *)
LEMMA QueueStep ==
  ASSUME TypeOK, TypeOK', OrderInv, OnceInv, [Next]_vars
  PROVE  [Queue!Next]_(Queue!vars)
<1>1. CASE UNCHANGED <<hand, made, buffer, source, taken, reported>>
  <2>1. UNCHANGED <<Queues, Handled, source, Fetched, Reported>>
    BY <1>1 DEF Queues, Handled, Fetched, Reported
  <2> QED
    BY <2>1 DEF Queue!vars, Queues, Handled, Fetched, Reported
<1>2. ASSUME NEW i \in Instance, MakeEvents(i) \/ Handle(i)
      PROVE  Queue!Next
  BY <1>2, MakeEventsStep, HandleStep DEF Queue!Next
<1>3. ASSUME NEW i \in Instance, Send(i)
      PROVE  Queue!Next
  BY <1>3, SendStep DEF Queue!Next, Handled, Queues
<1>4. ASSUME NEW i \in Instance, FetchLoad(i) \/ FetchReceive(i) \/ FetchReturns(i)
      PROVE  Queue!Next
  BY <1>4, FetchLoadStep, FetchReceiveStep, FetchReturnsStep DEF Queue!Next
<1>5. ASSUME NEW i \in Instance, FetchReport(i)
      PROVE  Queue!Next
  BY <1>5, FetchReportStep DEF Queue!Next, Fetched
<1> QED
  BY <1>1, <1>2, <1>3, <1>4, <1>5, Steps, LinkLostEffect, ArriveEffect DEF Untouched

LEMMA QueueInit == Init => Queue!Init
<1> SUFFICES ASSUME Init PROVE Queue!Init
  OBVIOUS
<1>1. /\ made = 0 /\ reported = <<>> /\ source = [i \in Instance |-> 0]
      /\ \A i \in Instance : hand[i] = Nothing /\ taken[i] = Nothing
  BY DEF Init, NilChannel
<1>2. Handled = {} /\ Fetched = {}
  BY <1>1 DEF Handled, Fetched
<1>3. Reported = <<>> /\ Queues = <<>>
  BY <1>1 DEF Reported, Queues
<1> QED
  BY <1>1, <1>2, <1>3 DEF Queue!Init, Queues, Handled, Fetched, Reported

(* Whatever the number of instances and of channels that replace one another, and
   however late a handler sends or a Fetch receives after it has read events:
   handlers, channels and Fetches together are bounded queues that follow one
   another, of which nothing is copied, and nothing is lost but what stays in an
   earlier one. *)
THEOREM QueueImplemented == Spec => ImplementsQueue
<1>1. TypeOK /\ TypeOK' /\ OrderInv /\ OnceInv /\ [Next]_vars => [Queue!Next]_(Queue!vars)
  BY QueueStep
<1> QED
  BY <1>1, QueueInit, TypeCorrect, Ordered, Unique, PTL DEF Spec, ImplementsQueue, Queue!Spec

=============================================================================
