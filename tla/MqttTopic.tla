------------------------------ MODULE MqttTopic ------------------------------
(***************************************************************************)
(* The MQTT metricset: every instance Metricbeat creates, with the paho    *)
(* client of each and the package variables they all share -- connected,   *)
(* config and events, the channel of collected messages.                   *)
(*                                                                         *)
(* Besides the threads that call New and Fetch there are, for each client, *)
(* the goroutines in which paho runs the callbacks: subscribeOnConnect     *)
(* after every (re)connect, reConnectHandler after every loss, and         *)
(* onMessage, one message after the other.  Channels are numbered in the   *)
(* order in which they are made; 0 is the nil channel, on which a send     *)
(* waits for ever.  Paho and the brokers are external.                     *)
(***************************************************************************)
EXTENDS Integers, Sequences, FiniteSets, Functions

CONSTANTS
  Instances,    \* instances of the metricset: 1..Instances
  EventsCap,    \* capacity of events (500)
  MaxConnects,  \* bound: connections made
  MaxMessages   \* bound: messages that arrive

ASSUME MqttAssumption ==
  /\ Instances \in Nat \ {0}
  /\ EventsCap \in Nat \ {0}
  /\ MaxConnects \in Nat
  /\ MaxMessages \in Nat

Instance == 1..Instances
Channel == 1..MaxConnects
Message == 1..MaxMessages
NilChannel == 0
Nothing == 0      \* no message in hand

VARIABLES
  created, newPc,            \* the thread that calls New, instance by instance
  connected, config, events, \* package variables
  made, buffer,              \* channels made so far, and what each holds
  link, connects,            \* paho's connection of each client
  subPc, topics, acked,      \* subscribeOnConnect of each client
  lost, back,                \* runs of reConnectHandler, by what they do next
  inbox, hand, chan,         \* onMessage of each client
  origin,                    \* history: the instance message m came to
  source, taken,             \* Fetch of each instance: channel and event it holds
  reported,                  \* history: events reported, in order
  crashed                    \* a panic nobody recovers ended the process

newVars     == <<created, newPc>>
sharedVars  == <<connected, config, events>>
channelVars == <<made, buffer>>
linkVars    == <<link, connects>>
subVars     == <<subPc, topics, acked>>
lostVars    == <<lost, back>>
handlerVars == <<inbox, hand, chan>>
reportVars  == <<origin, source, taken, reported>>
vars == <<newVars, sharedVars, channelVars, linkVars, subVars, lostVars,
          handlerVars, reportVars, crashed>>

Init ==
  /\ created = 0
  /\ newPc = [i \in Instance |-> "none"]
  /\ connected = FALSE
  /\ config = 0
  /\ events = NilChannel
  /\ made = 0
  /\ buffer = [c \in Channel |-> <<>>]
  /\ link = [i \in Instance |-> "none"]
  /\ connects = 0
  /\ subPc = [i \in Instance |-> "none"]
  /\ topics = [i \in Instance |-> 0]
  /\ acked = [i \in Instance |-> 0]
  /\ lost = [i \in Instance |-> 0]
  /\ back = [i \in Instance |-> 0]
  /\ inbox = [i \in Instance |-> <<>>]
  /\ hand = [i \in Instance |-> Nothing]
  /\ chan = [i \in Instance |-> NilChannel]
  /\ origin = <<>>
  /\ source = [i \in Instance |-> NilChannel]
  /\ taken = [i \in Instance |-> Nothing]
  /\ reported = <<>>
  /\ crashed = FALSE

-----------------------------------------------------------------------------
(* The instances are created one after the other. *)
Turn(i) ==
  /\ i = created + 1
  /\ \A j \in 1..created : newPc[j] = "done"

(* Up to the test of connected in connect: an instance that finds the flag of
   another one set never connects its own client. *)
setupMqttClient(i) ==
  /\ config' = i
  /\ newPc' = [newPc EXCEPT ![i] = IF connected THEN "done" ELSE "connect"]

New(i) ==
  /\ Turn(i)
  /\ created' = i
  /\ setupMqttClient(i)
  /\ UNCHANGED <<connected, events, channelVars, linkVars, subVars, lostVars,
                 handlerVars, reportVars, crashed>>

(* NewTLSConfig cannot read the client's certificate: a panic in New, before the
   client of this instance exists and after config was set for all. *)
NewPanics(i) ==
  /\ Turn(i)
  /\ config' = i
  /\ crashed' = TRUE
  /\ UNCHANGED <<newVars, connected, events, channelVars, linkVars, subVars, lostVars,
                 handlerVars, reportVars>>

(* paho's connection is up: it starts subscribeOnConnect in a goroutine. *)
LinkUp(i) ==
  /\ connects < MaxConnects
  /\ connects' = connects + 1
  /\ link' = [link EXCEPT ![i] = "up"]
  /\ subPc' = [subPc EXCEPT ![i] = "start"]

ConnectOk(i) ==
  /\ newPc[i] = "connect"
  /\ LinkUp(i)
  /\ connected' = TRUE
  /\ newPc' = [newPc EXCEPT ![i] = "done"]
  /\ UNCHANGED <<created, config, events, channelVars, topics, acked, lostVars,
                 handlerVars, reportVars, crashed>>

(* connect fails and, after a pause, calls itself through reConnectHandler;
   another client may have set connected by then, and it gives up. *)
ConnectFails(i) ==
  /\ newPc[i] = "connect"
  /\ newPc' = [newPc EXCEPT ![i] = "retry"]
  /\ connected' = FALSE
  /\ UNCHANGED <<created, config, events, channelVars, linkVars, subVars, lostVars,
                 handlerVars, reportVars, crashed>>

ConnectRetries(i) ==
  /\ newPc[i] = "retry"
  /\ newPc' = [newPc EXCEPT ![i] = IF connected THEN "done" ELSE "connect"]
  /\ UNCHANGED <<created, sharedVars, channelVars, linkVars, subVars, lostVars,
                 handlerVars, reportVars, crashed>>

-----------------------------------------------------------------------------
(* The connection breaks.  What arrived and was not handled is gone, and so is
   the subscription; a Subscribe under way never returns, or returns an error,
   which is SubscribePanics before this step. *)
LinkLost(i) ==
  /\ link[i] = "up"
  /\ link' = [link EXCEPT ![i] = "lost"]
  /\ subPc' = [subPc EXCEPT ![i] = "none"]
  /\ inbox' = [inbox EXCEPT ![i] = <<>>]
  /\ lost' = [lost EXCEPT ![i] = @ + 1]
  /\ UNCHANGED <<newVars, sharedVars, channelVars, connects, topics, acked, back, hand,
                 chan, reportVars, crashed>>

(* AutoReconnect. *)
Reconnect(i) ==
  /\ link[i] = "lost"
  /\ LinkUp(i)
  /\ UNCHANGED <<newVars, sharedVars, channelVars, topics, acked, lostVars,
                 handlerVars, reportVars, crashed>>

(* reConnectHandler: connected := false, then connect, whose Connect returns at
   once, without an error, while paho reconnects by itself. *)
HandleLost(i) ==
  /\ lost[i] > 0
  /\ lost' = [lost EXCEPT ![i] = @ - 1]
  /\ back' = [back EXCEPT ![i] = @ + 1]
  /\ connected' = FALSE
  /\ UNCHANGED <<newVars, config, events, channelVars, linkVars, subVars,
                 handlerVars, reportVars, crashed>>

HandleConnect(i) ==
  /\ back[i] > 0
  /\ back' = [back EXCEPT ![i] = @ - 1]
  /\ connected' = TRUE
  /\ UNCHANGED <<newVars, lost, config, events, channelVars, linkVars, subVars,
                 handlerVars, reportVars, crashed>>

-----------------------------------------------------------------------------
(* subscribeOnConnect: the request reaches the broker, which may send messages
   before its acknowledgement is processed; only then is the channel made. *)
Subscribe(i) ==
  /\ subPc[i] = "start"
  /\ subPc' = [subPc EXCEPT ![i] = "sent"]
  /\ topics' = [topics EXCEPT ![i] = config]
  /\ UNCHANGED <<newVars, sharedVars, channelVars, linkVars, acked, lostVars,
                 handlerVars, reportVars, crashed>>

SubscribePanics(i) ==
  /\ subPc[i] \in {"start", "sent"}
  /\ crashed' = TRUE
  /\ UNCHANGED <<newVars, sharedVars, channelVars, linkVars, subVars, lostVars,
                 handlerVars, reportVars>>

SubscribeAcked(i) ==
  /\ subPc[i] = "sent"
  /\ subPc' = [subPc EXCEPT ![i] = "done"]
  /\ acked' = [acked EXCEPT ![i] = @ + 1]
  /\ UNCHANGED <<newVars, sharedVars, channelVars, linkVars, topics, lostVars,
                 handlerVars, reportVars, crashed>>

MakeEvents(i) ==
  /\ acked[i] > 0
  /\ acked' = [acked EXCEPT ![i] = @ - 1]
  /\ made' = made + 1
  /\ events' = made'
  /\ UNCHANGED <<newVars, connected, config, buffer, linkVars, subPc, topics,
                 lostVars, handlerVars, reportVars, crashed>>

-----------------------------------------------------------------------------
(* A message arrives from the broker. *)
Arrive(i) ==
  /\ link[i] = "up"
  /\ subPc[i] \in {"sent", "done"}
  /\ Len(origin) < MaxMessages
  /\ origin' = Append(origin, i)
  /\ inbox' = [inbox EXCEPT ![i] = Append(@, Len(origin'))]
  /\ UNCHANGED <<newVars, sharedVars, channelVars, linkVars, subVars, lostVars,
                 hand, chan, source, taken, reported, crashed>>

(* Mutant of Handle: paho without its option Order, any message first. *)
HandleUnordered(i) ==
  /\ hand[i] = Nothing
  /\ \E k \in DOMAIN inbox[i] :
       /\ hand' = [hand EXCEPT ![i] = inbox[i][k]]
       /\ inbox' = [inbox EXCEPT ![i] = SubSeq(@, 1, k-1) \o SubSeq(@, k+1, Len(@))]
  /\ chan' = [chan EXCEPT ![i] = events]
  /\ UNCHANGED <<newVars, sharedVars, channelVars, linkVars, subVars, lostVars,
                 reportVars, crashed>>

(* onMessage, up to the evaluation of events in the send. *)
Handle(i) ==
  /\ hand[i] = Nothing
  /\ inbox[i] # <<>>
  /\ hand' = [hand EXCEPT ![i] = Head(inbox[i])]
  /\ inbox' = [inbox EXCEPT ![i] = Tail(@)]
  /\ chan' = [chan EXCEPT ![i] = events]
  /\ UNCHANGED <<newVars, sharedVars, channelVars, linkVars, subVars, lostVars,
                 reportVars, crashed>>

(* Mutant of Send: the channel has no limit. *)
SendUnbounded(i) ==
  /\ hand[i] # Nothing
  /\ chan[i] # NilChannel
  /\ buffer' = [buffer EXCEPT ![chan[i]] = Append(@, hand[i])]
  /\ hand' = [hand EXCEPT ![i] = Nothing]
  /\ chan' = [chan EXCEPT ![i] = NilChannel]
  /\ UNCHANGED <<newVars, sharedVars, made, linkVars, subVars, lostVars, inbox,
                 reportVars, crashed>>

(* Mutant of Send: a full channel drops the message instead of waiting. *)
SendOrDrop(i) ==
  /\ hand[i] # Nothing
  /\ chan[i] # NilChannel
  /\ buffer' = [buffer EXCEPT ![chan[i]] =
                  IF Len(@) < EventsCap THEN Append(@, hand[i]) ELSE @]
  /\ hand' = [hand EXCEPT ![i] = Nothing]
  /\ chan' = [chan EXCEPT ![i] = NilChannel]
  /\ UNCHANGED <<newVars, sharedVars, made, linkVars, subVars, lostVars, inbox,
                 reportVars, crashed>>

(* The send: it waits while the channel is full, and for ever if it is nil. *)
Send(i) ==
  /\ hand[i] # Nothing
  /\ chan[i] # NilChannel
  /\ Len(buffer[chan[i]]) < EventsCap
  /\ buffer' = [buffer EXCEPT ![chan[i]] = Append(@, hand[i])]
  /\ hand' = [hand EXCEPT ![i] = Nothing]
  /\ chan' = [chan EXCEPT ![i] = NilChannel]
  /\ UNCHANGED <<newVars, sharedVars, made, linkVars, subVars, lostVars, inbox,
                 reportVars, crashed>>

(* One round of Fetch's loop, by any instance that was created: select evaluates
   events, and then looks into that channel, which may have been replaced by
   then.  A nil channel ends the loop at once. *)
FetchLoad(i) ==
  /\ newPc[i] = "done"
  /\ taken[i] = Nothing
  /\ source[i] = NilChannel
  /\ events # NilChannel
  /\ source' = [source EXCEPT ![i] = events]
  /\ UNCHANGED <<newVars, sharedVars, channelVars, linkVars, subVars, lostVars,
                 handlerVars, origin, taken, reported, crashed>>

FetchTakes(i) ==
  /\ taken' = [taken EXCEPT ![i] = Head(buffer[source[i]])]
  /\ source' = [source EXCEPT ![i] = NilChannel]
  /\ UNCHANGED <<newVars, sharedVars, made, linkVars, subVars, lostVars, handlerVars,
                 origin, reported, crashed>>

(* Mutant of FetchReceive: an event stays behind in the channel. *)
FetchReceiveAllButOne(i) ==
  /\ source[i] # NilChannel
  /\ Len(buffer[source[i]]) > 1
  /\ FetchTakes(i)
  /\ buffer' = [buffer EXCEPT ![source[i]] = Tail(@)]

(* Mutant of FetchReceive: the event is looked at and stays in the channel. *)
FetchReceivePeeks(i) ==
  /\ source[i] # NilChannel
  /\ buffer[source[i]] # <<>>
  /\ FetchTakes(i)
  /\ UNCHANGED buffer

FetchReceive(i) ==
  /\ source[i] # NilChannel
  /\ buffer[source[i]] # <<>>
  /\ FetchTakes(i)
  /\ buffer' = [buffer EXCEPT ![source[i]] = Tail(@)]

(* The default branch of the select: Fetch returns, to be called again. *)
FetchReturns(i) ==
  /\ source[i] # NilChannel
  /\ buffer[source[i]] = <<>>
  /\ source' = [source EXCEPT ![i] = NilChannel]
  /\ UNCHANGED <<newVars, sharedVars, channelVars, linkVars, subVars, lostVars,
                 handlerVars, origin, taken, reported, crashed>>

(* The event gets the broker URL of the instance that fetches. *)
FetchReport(i) ==
  /\ taken[i] # Nothing
  /\ taken' = [taken EXCEPT ![i] = Nothing]
  /\ reported' = Append(reported, [message |-> taken[i], by |-> i])
  /\ UNCHANGED <<newVars, sharedVars, channelVars, linkVars, subVars, lostVars,
                 handlerVars, origin, source, crashed>>

Fetch(i) == FetchLoad(i) \/ FetchReceive(i) \/ FetchReturns(i) \/ FetchReport(i)

-----------------------------------------------------------------------------
Callbacks(i) ==
  \/ HandleLost(i) \/ HandleConnect(i)
  \/ Subscribe(i) \/ SubscribeAcked(i) \/ MakeEvents(i)
  \/ Handle(i) \/ Send(i)

Environment(i) ==
  \/ New(i) \/ NewPanics(i)
  \/ ConnectOk(i) \/ ConnectFails(i) \/ ConnectRetries(i)
  \/ LinkLost(i) \/ Reconnect(i) \/ SubscribePanics(i) \/ Arrive(i)

Next ==
  /\ ~ crashed
  /\ \E i \in Instance : Callbacks(i) \/ Environment(i) \/ Fetch(i)

Spec == Init /\ [][Next]_vars

(* The Go scheduler runs every goroutine that can run, and Metricbeat keeps
   calling Fetch of every instance.  Nothing is assumed of the brokers, but that
   a subscription is answered. *)
FairSpec ==
  /\ Spec
  /\ \A i \in Instance :
       /\ WF_vars(~ crashed /\ (HandleLost(i) \/ HandleConnect(i)))
       /\ WF_vars(~ crashed /\ (Subscribe(i) \/ SubscribeAcked(i)))
       /\ WF_vars(~ crashed /\ MakeEvents(i))
       /\ WF_vars(~ crashed /\ (Handle(i) \/ Send(i)))
       /\ WF_vars(~ crashed /\ Fetch(i))

-----------------------------------------------------------------------------
(* Every variable stays in its type. *)
TypeOK ==
  /\ created \in 0..Instances
  /\ newPc \in [Instance -> {"none", "connect", "retry", "done"}]
  /\ connected \in BOOLEAN
  /\ config \in 0..Instances
  /\ made \in 0..connects
  /\ events = made
  /\ buffer \in [Channel -> Seq(Message)]
  /\ \A c \in Channel : Len(buffer[c]) <= EventsCap
  /\ link \in [Instance -> {"none", "up", "lost"}]
  /\ connects \in 0..MaxConnects
  /\ subPc \in [Instance -> {"none", "start", "sent", "done"}]
  /\ topics \in [Instance -> 0..Instances]
  /\ acked \in [Instance -> 0..MaxConnects]
  /\ lost \in [Instance -> 0..MaxConnects]
  /\ back \in [Instance -> 0..MaxConnects]
  /\ inbox \in [Instance -> Seq(Message)]
  /\ hand \in [Instance -> Message \union {Nothing}]
  /\ chan \in [Instance -> 0..made]
  /\ origin \in Seq(Instance)
  /\ Len(origin) <= MaxMessages
  /\ source \in [Instance -> 0..made]
  /\ taken \in [Instance -> Message \union {Nothing}]
  /\ reported \in Seq([message : Message, by : Instance])
  /\ crashed \in BOOLEAN

Queue == INSTANCE LossyQueue WITH
  Fetcher  <- Instance,
  Capacity <- EventsCap,
  queues   <- [c \in 1..made |-> buffer[c]],
  handled  <- {hand[i] : i \in Instance} \ {Nothing},
  looking  <- source,
  fetched  <- {taken[i] : i \in Instance} \ {Nothing},
  reported <- [k \in DOMAIN reported |-> reported[k].message]

(* Handlers, channels and Fetches of all instances together are queues that follow
   one another: no message is copied, and none is lost but in a channel that
   subscribeOnConnect has replaced and no Fetch is looking into any more. *)
ImplementsQueue == Queue!Spec

(* What an instance reports of a host is in the order of arrival, over all
   reconnects and channels.  (Two instances that drain the channel together may
   report in either order.) *)
ReportedInOrder ==
  \A j, k \in DOMAIN reported :
    /\ j < k
    /\ reported[j].by = reported[k].by
    /\ origin[reported[j].message] = origin[reported[k].message]
    => reported[j].message < reported[k].message

(* Whichever instances drain the channel beside one another, in whatever order
   they report, and however often the channel is replaced: no message is reported
   by two of them, or twice by one. *)
ReportedOnce ==
  \A j, k \in DOMAIN reported :
    j # k => reported[j].message # reported[k].message

InChannel(m, c) == m \in Range(buffer[c])

(* A message that is in the current channel is reported, unless a reconnect
   replaces that channel while the message is in it, or the process ends. *)
CurrentChannelIsDrained ==
  \A m \in Message :
    (\E c \in Channel : c = events /\ InChannel(m, c)) ~>
      \/ \E k \in DOMAIN reported : reported[k].message = m
      \/ \E c \in Channel : c # events /\ InChannel(m, c)
      \/ crashed

-----------------------------------------------------------------------------
(* New is called "to instantiate an instance of the MetricSet for each host": a
   host whose instance exists has been connected to. *)
EachHostConnects ==
  \A i \in Instance : newPc[i] = "done" => link[i] # "none"

(* "Finally sending the message to elasticsearch": a message handler gets rid
   of its message. *)
HandlersReturn ==
  \A i \in Instance : hand[i] # Nothing ~> hand[i] = Nothing \/ crashed

=============================================================================
