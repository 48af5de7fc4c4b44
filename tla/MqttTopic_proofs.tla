--------------------------- MODULE MqttTopic_proofs ---------------------------
(***************************************************************************)
(* Types of MqttTopic, proved for every value of its constants.  What      *)
(* bounds the channels, the subscriptions and the runs of reConnectHandler *)
(* is that each is for a connection of its own: Claims counts those that   *)
(* are under way.                                                          *)
(***************************************************************************)
EXTENDS MqttTopic, FiniteSetTheorems, SequenceTheorems, TLAPS

(* The claims instances have on a bounded number: instance i holds a[i] of
   them, and one more, numbered 0, if it is in F. *)
Claims(a, F) ==
  {c \in Instance \X (0..MaxConnects) :
     c[2] \in 1..a[c[1]] \/ (c[2] = 0 /\ c[1] \in F)}

(* Every channel made, and every one still to be made, is for a connection. *)
Subscribing == {i \in Instance : subPc[i] \in {"start", "sent"}}

ChannelsClaimed == made + Cardinality(Claims(acked, Subscribing)) <= connects

(* Every run of reConnectHandler is for a connection that broke. *)
Up == {i \in Instance : link[i] = "up"}

Handlers == [i \in Instance |-> lost[i] + back[i]]

HandlersClaimed ==
  /\ Handlers \in [Instance -> 0..MaxConnects]
  /\ Cardinality(Claims(Handlers, Up)) <= connects

IInv == TypeOK /\ ChannelsClaimed /\ HandlersClaimed

-----------------------------------------------------------------------------
(* One element more. *)
LEMMA AddOne ==
  ASSUME NEW S, IsFiniteSet(S), NEW x
  PROVE  /\ IsFiniteSet(S \union {x})
         /\ Cardinality(S \union {x}) <= Cardinality(S) + 1
<1>1. IsFiniteSet(S \union {x}) /\ Cardinality(S) \in Nat
  BY FS_AddElement, FS_CardinalityType
<1>2. \/ Cardinality(S \union {x}) = Cardinality(S)
      \/ Cardinality(S \union {x}) = Cardinality(S) + 1
  BY FS_AddElement
<1> QED
  BY <1>1, <1>2

(* There are finitely many claims. *)
LEMMA ClaimsFinite ==
  ASSUME NEW a, NEW F
  PROVE  IsFiniteSet(Claims(a, F)) /\ Cardinality(Claims(a, F)) \in Nat
<1>1. IsFiniteSet(Instance) /\ IsFiniteSet(0..MaxConnects)
  BY MqttAssumption, FS_Interval DEF MqttAssumption, Instance
<1>2. IsFiniteSet(Instance \X (0..MaxConnects))
  BY <1>1, FS_Product
<1> QED
  BY <1>2, FS_Subset, FS_CardinalityType DEF Claims

(* Putting one instance into F adds at most one claim; taking instances out of
   it adds none. *)
LEMMA ClaimsOpen ==
  ASSUME NEW a, NEW F, NEW G, NEW i \in Instance, G \subseteq F \union {i}
  PROVE  Cardinality(Claims(a, G)) <= Cardinality(Claims(a, F)) + 1
<1>1. Claims(a, G) \subseteq Claims(a, F) \union {<<i, 0>>}
  BY DEF Claims
<1>2. /\ IsFiniteSet(Claims(a, F) \union {<<i, 0>>})
      /\ Cardinality(Claims(a, F) \union {<<i, 0>>}) <= Cardinality(Claims(a, F)) + 1
  BY ClaimsFinite, AddOne
<1>3. Cardinality(Claims(a, G)) <= Cardinality(Claims(a, F) \union {<<i, 0>>})
  BY <1>1, <1>2, FS_Subset
<1> QED
  BY <1>2, <1>3, ClaimsFinite, FS_CardinalityType

LEMMA ClaimsClose ==
  ASSUME NEW a, NEW F, NEW G, G \subseteq F
  PROVE  Cardinality(Claims(a, G)) <= Cardinality(Claims(a, F))
<1>1. Claims(a, G) \subseteq Claims(a, F)
  BY DEF Claims
<1> QED
  BY <1>1, ClaimsFinite, FS_Subset

(* An instance has no more claims than there are. *)
LEMMA ClaimsBound ==
  ASSUME NEW a \in [Instance -> 0..MaxConnects], NEW F, NEW i \in Instance
  PROVE  /\ a[i] <= Cardinality(Claims(a, F))
         /\ i \in F => a[i] + 1 <= Cardinality(Claims(a, F))
<1> DEFINE f(low) == [k \in low..a[i] |-> <<i, k>>]
<1>0. a[i] \in Nat /\ a[i] <= MaxConnects
  BY MqttAssumption DEF MqttAssumption
<1>1. ASSUME NEW low \in 0..1, low = 0 => i \in F
      PROVE  a[i] + 1 - low <= Cardinality(Claims(a, F))
  <2>1. f(low) \in Injection(low..a[i], Claims(a, F))
    <3>1. \A k \in low..a[i] : <<i, k>> \in Claims(a, F)
      BY <1>0, <1>1, MqttAssumption DEF Claims, MqttAssumption
    <3> QED
      BY <3>1 DEF Injection, IsInjective
  <2>2. Cardinality(low..a[i]) <= Cardinality(Claims(a, F))
    BY <2>1, ClaimsFinite, FS_Injection
  <2>3. Cardinality(low..a[i]) = a[i] + 1 - low
    <3>1. low \in Int /\ a[i] \in Int /\ ~ (low > a[i] + 1)
      BY <1>0
    <3> HIDE DEF f
    <3>2. Cardinality(low..a[i]) = IF low > a[i] THEN 0 ELSE a[i] - low + 1
      BY <3>1, FS_Interval
    <3> QED
      BY <3>1, <3>2
  <2> QED
    BY <2>2, <2>3
<1> QED
  BY <1>0, <1>1, ClaimsFinite

(* Claim 0 of an instance becomes one of its numbered claims. *)
LEMMA ClaimsSettle ==
  ASSUME NEW a \in [Instance -> 0..MaxConnects], NEW F, NEW i \in F, i \in Instance,
         a[i] < MaxConnects
  PROVE  Cardinality(Claims([a EXCEPT ![i] = @ + 1], F \ {i})) <= Cardinality(Claims(a, F))
<1> DEFINE b == [a EXCEPT ![i] = @ + 1]
           rest == Claims(a, F) \ {<<i, 0>>}
<1>1. Claims(b, F \ {i}) \subseteq rest \union {<<i, a[i] + 1>>}
  BY MqttAssumption DEF Claims, MqttAssumption
<1>2. /\ IsFiniteSet(rest)
      /\ Cardinality(rest) = Cardinality(Claims(a, F)) - 1
  <2>1. <<i, 0>> \in Claims(a, F)
    BY MqttAssumption DEF Claims, MqttAssumption
  <2> QED
    BY <2>1, ClaimsFinite, FS_RemoveElement
<1>3. /\ IsFiniteSet(rest \union {<<i, a[i] + 1>>})
      /\ Cardinality(rest \union {<<i, a[i] + 1>>}) <= Cardinality(Claims(a, F))
  <2> HIDE DEF rest
  <2>1. /\ IsFiniteSet(rest \union {<<i, a[i] + 1>>})
        /\ Cardinality(rest \union {<<i, a[i] + 1>>}) <= Cardinality(rest) + 1
    BY <1>2, AddOne
  <2>2. /\ Cardinality(rest) \in Nat
        /\ Cardinality(rest \union {<<i, a[i] + 1>>}) \in Nat
    BY <1>2, <2>1, FS_CardinalityType
  <2> QED
    BY <1>2, <2>1, <2>2, ClaimsFinite
<1>4. Cardinality(Claims(b, F \ {i})) <= Cardinality(rest \union {<<i, a[i] + 1>>})
  <2> HIDE DEF rest, b
  <2> QED
    BY <1>1, <1>3, FS_Subset
<1> QED
  BY <1>3, <1>4, ClaimsFinite, FS_CardinalityType

(* An instance uses one of its claims. *)
LEMMA ClaimsUse ==
  ASSUME NEW a \in [Instance -> 0..MaxConnects], NEW F, NEW i \in Instance, a[i] > 0
  PROVE  Cardinality(Claims([a EXCEPT ![i] = @ - 1], F)) + 1 <= Cardinality(Claims(a, F))
<1> DEFINE b == [a EXCEPT ![i] = @ - 1]
<1>1. Claims(b, F) \subseteq Claims(a, F) \ {<<i, a[i]>>}
  BY MqttAssumption DEF Claims, MqttAssumption
<1>2. <<i, a[i]>> \in Claims(a, F)
  BY MqttAssumption DEF Claims, MqttAssumption
<1>3. /\ IsFiniteSet(Claims(a, F) \ {<<i, a[i]>>})
      /\ Cardinality(Claims(a, F) \ {<<i, a[i]>>}) = Cardinality(Claims(a, F)) - 1
  BY <1>2, ClaimsFinite, FS_RemoveElement
<1>4. Cardinality(Claims(b, F)) <= Cardinality(Claims(a, F)) - 1
  <2> HIDE DEF b
  <2> QED
    BY <1>1, <1>3, FS_Subset
<1> QED
  BY <1>4, ClaimsFinite

-----------------------------------------------------------------------------
(* One case for each action. *)
LEMMA Actions ==
  ASSUME NEW i \in Instance, Callbacks(i) \/ Environment(i) \/ Fetch(i)
  PROVE  \/ New(i) \/ NewPanics(i)
         \/ ConnectOk(i) \/ ConnectFails(i) \/ ConnectRetries(i)
         \/ LinkLost(i) \/ Reconnect(i) \/ HandleLost(i) \/ HandleConnect(i)
         \/ Subscribe(i) \/ SubscribePanics(i) \/ SubscribeAcked(i) \/ MakeEvents(i)
         \/ Arrive(i) \/ Handle(i) \/ Send(i)
         \/ FetchLoad(i) \/ FetchReceive(i) \/ FetchReturns(i) \/ FetchReport(i)
  BY DEF Callbacks, Environment, Fetch

(* What the claims say of one instance. *)
LEMMA Bounds ==
  ASSUME IInv, NEW i \in Instance
  PROVE  /\ lost[i] \in Nat /\ back[i] \in Nat /\ lost[i] + back[i] <= MaxConnects
         /\ link[i] = "up" => lost[i] + back[i] < MaxConnects
         /\ acked[i] \in 0..MaxConnects
         /\ subPc[i] \in {"start", "sent"} => acked[i] < MaxConnects
         /\ acked[i] > 0 => made < connects
<1> USE DEF IInv
<1>1. /\ connects \in 0..MaxConnects /\ made \in Nat
      /\ lost[i] \in Nat /\ back[i] \in Nat
      /\ acked \in [Instance -> 0..MaxConnects]
      /\ Handlers \in [Instance -> 0..MaxConnects] /\ Handlers[i] = lost[i] + back[i]
  <2>1. connects \in 0..MaxConnects /\ made \in 0..connects
    BY DEF TypeOK
  <2>2. lost[i] \in 0..MaxConnects /\ back[i] \in 0..MaxConnects
    BY DEF TypeOK
  <2>3. acked \in [Instance -> 0..MaxConnects]
    BY DEF TypeOK
  <2>4. Handlers \in [Instance -> 0..MaxConnects]
    BY DEF HandlersClaimed
  <2>5. Handlers[i] = lost[i] + back[i]
    BY DEF Handlers
  <2> QED
    BY <2>1, <2>2, <2>3, <2>4, <2>5, MqttAssumption DEF MqttAssumption
<1>2. i \in Up => lost[i] + back[i] + 1 <= connects
  BY <1>1, ClaimsBound, ClaimsFinite DEF HandlersClaimed
<1>3. /\ made + acked[i] <= connects
      /\ i \in Subscribing => made + acked[i] + 1 <= connects
  BY <1>1, ClaimsBound, ClaimsFinite DEF ChannelsClaimed
<1> QED
  BY <1>1, <1>2, <1>3, MqttAssumption DEF Up, Subscribing, MqttAssumption

(* A channel that somebody sends to or receives from was made. *)
LEMMA Channels ==
  ASSUME TypeOK
  PROVE  /\ events # NilChannel => events \in Channel
         /\ \A i \in Instance : chan[i] # NilChannel => chan[i] \in Channel
         /\ \A i \in Instance : source[i] # NilChannel => source[i] \in Channel
<1>1. made \in Nat /\ made <= MaxConnects /\ events = made
  BY MqttAssumption DEF TypeOK, MqttAssumption
<1>2. \A i \in Instance : chan[i] \in 0..made /\ source[i] \in 0..made
  BY DEF TypeOK
<1> QED
  BY <1>1, <1>2, MqttAssumption DEF Channel, NilChannel, MqttAssumption

(* Every step keeps the types.  The bounds on what counts connections rest on the
   claims. *)
LEMMA TypeNext == IInv /\ [Next]_vars => TypeOK'
<1> SUFFICES ASSUME IInv, [Next]_vars PROVE TypeOK'
  OBVIOUS
<1> USE DEF newVars, sharedVars, channelVars, linkVars, subVars, lostVars, handlerVars,
            reportVars
<1>0. TypeOK
  BY DEF IInv
<1>1. CASE UNCHANGED vars
  BY <1>0, <1>1 DEF TypeOK, vars
<1>2. ASSUME NEW i \in Instance, Callbacks(i) \/ Environment(i) \/ Fetch(i)
      PROVE  TypeOK'
  <2>0. /\ lost[i] \in Nat /\ back[i] \in Nat /\ lost[i] + back[i] <= MaxConnects
        /\ link[i] = "up" => lost[i] + back[i] < MaxConnects
        /\ acked[i] \in 0..MaxConnects
        /\ subPc[i] \in {"start", "sent"} => acked[i] < MaxConnects
        /\ acked[i] > 0 => made < connects
    BY <1>2, Bounds
  <2>1. CASE New(i)
    <3>1. created' \in 0..Instances
      BY <1>0, <1>2, <2>1, MqttAssumption DEF MqttAssumption, Instance, New, Turn, setupMqttClient, TypeOK
    <3>2. config' \in 0..Instances
      BY <1>0, <1>2, <2>1, MqttAssumption DEF MqttAssumption, Instance, New, Turn, setupMqttClient, TypeOK
    <3>3. newPc' \in [Instance -> {"none", "connect", "retry", "done"}]
      BY <1>0, <1>2, <2>1, MqttAssumption DEF MqttAssumption, Instance, New, Turn, setupMqttClient, TypeOK
    <3>4. UNCHANGED <<connected, events, channelVars, linkVars, subVars, lostVars, handlerVars,
                    reportVars, crashed>>
      BY <2>1 DEF New
    <3> QED
      BY <1>0, <3>1, <3>2, <3>3, <3>4 DEF TypeOK
  <2>2. CASE NewPanics(i)
    <3>1. config' \in 0..Instances
      BY <1>0, <1>2, <2>2, MqttAssumption DEF MqttAssumption, Instance, NewPanics, Turn, TypeOK
    <3>2. crashed' \in BOOLEAN
      BY <1>0, <1>2, <2>2, MqttAssumption DEF MqttAssumption, Instance, NewPanics, Turn, TypeOK
    <3>3. UNCHANGED <<newVars, connected, events, channelVars, linkVars, subVars, lostVars,
                    handlerVars, reportVars>>
      BY <2>2 DEF NewPanics
    <3> QED
      BY <1>0, <3>1, <3>2, <3>3 DEF TypeOK
  <2>3. CASE ConnectOk(i)
    <3>1. newPc' \in [Instance -> {"none", "connect", "retry", "done"}]
      BY <1>0, <1>2, <2>3, MqttAssumption DEF MqttAssumption, Instance, ConnectOk, LinkUp, TypeOK
    <3>2. connected' \in BOOLEAN
      BY <1>0, <1>2, <2>3, MqttAssumption DEF MqttAssumption, Instance, ConnectOk, LinkUp, TypeOK
    <3>3. link' \in [Instance -> {"none", "up", "lost"}]
      BY <1>0, <1>2, <2>3, MqttAssumption DEF MqttAssumption, Instance, ConnectOk, LinkUp, TypeOK
    <3>4. connects' \in 0..MaxConnects /\ made \in 0..connects'
      BY <1>0, <1>2, <2>3, MqttAssumption DEF MqttAssumption, Instance, ConnectOk, LinkUp, TypeOK
    <3>5. subPc' \in [Instance -> {"none", "start", "sent", "done"}]
      BY <1>0, <1>2, <2>3, MqttAssumption DEF MqttAssumption, Instance, ConnectOk, LinkUp, TypeOK
    <3>6. UNCHANGED <<created, config, events, channelVars, topics, acked, lostVars, handlerVars,
                    reportVars, crashed>>
      BY <2>3 DEF ConnectOk
    <3> QED
      BY <1>0, <3>1, <3>2, <3>3, <3>4, <3>5, <3>6 DEF TypeOK
  <2>4. CASE ConnectFails(i)
    <3>1. newPc' \in [Instance -> {"none", "connect", "retry", "done"}]
      BY <1>0, <1>2, <2>4 DEF ConnectFails, TypeOK
    <3>2. connected' \in BOOLEAN
      BY <1>0, <1>2, <2>4 DEF ConnectFails, TypeOK
    <3>3. UNCHANGED <<created, config, events, channelVars, linkVars, subVars, lostVars,
                    handlerVars, reportVars, crashed>>
      BY <2>4 DEF ConnectFails
    <3> QED
      BY <1>0, <3>1, <3>2, <3>3 DEF TypeOK
  <2>5. CASE ConnectRetries(i)
    <3>1. newPc' \in [Instance -> {"none", "connect", "retry", "done"}]
      BY <1>0, <1>2, <2>5 DEF ConnectRetries, TypeOK
    <3>2. UNCHANGED <<created, sharedVars, channelVars, linkVars, subVars, lostVars, handlerVars,
                    reportVars, crashed>>
      BY <2>5 DEF ConnectRetries
    <3> QED
      BY <1>0, <3>1, <3>2 DEF TypeOK
  <2>6. CASE LinkLost(i)
    <3>1. link' \in [Instance -> {"none", "up", "lost"}]
      BY <1>0, <1>2, <2>6 DEF LinkLost, TypeOK
    <3>2. subPc' \in [Instance -> {"none", "start", "sent", "done"}]
      BY <1>0, <1>2, <2>6 DEF LinkLost, TypeOK
    <3>3. inbox' \in [Instance -> Seq(Message)]
      BY <1>0, <1>2, <2>6 DEF LinkLost, TypeOK
    <3>4. lost' \in [Instance -> 0..MaxConnects]
      <4>1. lost' = [lost EXCEPT ![i] = lost[i] + 1]
        BY <2>6 DEF LinkLost
      <4>2. lost \in [Instance -> 0..MaxConnects] /\ lost[i] + 1 \in 0..MaxConnects
        <5>1. lost \in [Instance -> 0..MaxConnects]
          BY <1>0 DEF TypeOK
        <5>2. link[i] = "up"
          BY <2>6 DEF LinkLost
        <5> QED
          BY <2>0, <5>1, <5>2, MqttAssumption DEF MqttAssumption
      <4> QED
        BY <4>1, <4>2
    <3>5. UNCHANGED <<newVars, sharedVars, channelVars, connects, topics, acked, back, hand, chan,
                    reportVars, crashed>>
      BY <2>6 DEF LinkLost
    <3> QED
      BY <1>0, <3>1, <3>2, <3>3, <3>4, <3>5 DEF TypeOK
  <2>7. CASE Reconnect(i)
    <3>1. link' \in [Instance -> {"none", "up", "lost"}]
      BY <1>0, <1>2, <2>7, MqttAssumption DEF MqttAssumption, Instance, Reconnect, LinkUp, TypeOK
    <3>2. connects' \in 0..MaxConnects /\ made \in 0..connects'
      BY <1>0, <1>2, <2>7, MqttAssumption DEF MqttAssumption, Instance, Reconnect, LinkUp, TypeOK
    <3>3. subPc' \in [Instance -> {"none", "start", "sent", "done"}]
      BY <1>0, <1>2, <2>7, MqttAssumption DEF MqttAssumption, Instance, Reconnect, LinkUp, TypeOK
    <3>4. UNCHANGED <<newVars, sharedVars, channelVars, topics, acked, lostVars, handlerVars,
                    reportVars, crashed>>
      BY <2>7 DEF Reconnect
    <3> QED
      BY <1>0, <3>1, <3>2, <3>3, <3>4 DEF TypeOK
  <2>8. CASE HandleLost(i)
    <3>a. lost \in [Instance -> 0..MaxConnects] /\ back \in [Instance -> 0..MaxConnects]
      BY <1>0 DEF TypeOK
    <3>b. lost[i] - 1 \in 0..MaxConnects /\ back[i] + 1 \in 0..MaxConnects
      <4>1. lost[i] > 0
        BY <2>8 DEF HandleLost
      <4> QED
        BY <2>0, <4>1, MqttAssumption DEF MqttAssumption
    <3>1. lost' \in [Instance -> 0..MaxConnects]
      <4>1. lost' = [lost EXCEPT ![i] = lost[i] - 1]
        BY <2>8 DEF HandleLost
      <4> QED
        BY <3>a, <3>b, <4>1
    <3>2. back' \in [Instance -> 0..MaxConnects]
      <4>1. back' = [back EXCEPT ![i] = back[i] + 1]
        BY <2>8 DEF HandleLost
      <4> QED
        BY <3>a, <3>b, <4>1
    <3>3. connected' \in BOOLEAN
      BY <1>0, <1>2, <2>8, <2>0, MqttAssumption DEF MqttAssumption, HandleLost, TypeOK
    <3>4. UNCHANGED <<newVars, config, events, channelVars, linkVars, subVars, handlerVars,
                    reportVars, crashed>>
      BY <2>8 DEF HandleLost
    <3> QED
      BY <1>0, <3>1, <3>2, <3>3, <3>4 DEF TypeOK
  <2>9. CASE HandleConnect(i)
    <3>1. back' \in [Instance -> 0..MaxConnects]
      <4>1. back' = [back EXCEPT ![i] = back[i] - 1]
        BY <2>9 DEF HandleConnect
      <4>2. back \in [Instance -> 0..MaxConnects] /\ back[i] - 1 \in 0..MaxConnects
        <5>1. back \in [Instance -> 0..MaxConnects] /\ back[i] \in 0..MaxConnects
          BY <1>0, <1>2 DEF TypeOK
        <5>2. back[i] > 0
          BY <2>9 DEF HandleConnect
        <5> QED
          BY <5>1, <5>2, MqttAssumption DEF MqttAssumption
      <4> QED
        BY <4>1, <4>2
    <3>2. connected' \in BOOLEAN
      BY <1>0, <1>2, <2>9, <2>0, MqttAssumption DEF MqttAssumption, HandleConnect, TypeOK
    <3>3. UNCHANGED <<newVars, lost, config, events, channelVars, linkVars, subVars, handlerVars,
                    reportVars, crashed>>
      BY <2>9 DEF HandleConnect
    <3> QED
      BY <1>0, <3>1, <3>2, <3>3 DEF TypeOK
  <2>10. CASE Subscribe(i)
    <3>1. subPc' \in [Instance -> {"none", "start", "sent", "done"}]
      BY <1>0, <1>2, <2>10 DEF Subscribe, TypeOK
    <3>2. topics' \in [Instance -> 0..Instances]
      BY <1>0, <1>2, <2>10 DEF Subscribe, TypeOK
    <3>3. UNCHANGED <<newVars, sharedVars, channelVars, linkVars, acked, lostVars, handlerVars,
                    reportVars, crashed>>
      BY <2>10 DEF Subscribe
    <3> QED
      BY <1>0, <3>1, <3>2, <3>3 DEF TypeOK
  <2>11. CASE SubscribePanics(i)
    <3>1. crashed' \in BOOLEAN
      BY <1>0, <1>2, <2>11 DEF SubscribePanics, TypeOK
    <3>2. UNCHANGED <<newVars, sharedVars, channelVars, linkVars, subVars, lostVars, handlerVars,
                    reportVars>>
      BY <2>11 DEF SubscribePanics
    <3> QED
      BY <1>0, <3>1, <3>2 DEF TypeOK
  <2>12. CASE SubscribeAcked(i)
    <3>1. subPc' \in [Instance -> {"none", "start", "sent", "done"}]
      BY <1>0, <1>2, <2>12 DEF SubscribeAcked, TypeOK
    <3>2. acked' \in [Instance -> 0..MaxConnects]
      <4>1. acked[i] + 1 \in 0..MaxConnects
        BY <2>0, <2>12, MqttAssumption DEF MqttAssumption, SubscribeAcked
      <4> QED
        BY <1>0, <1>2, <2>12, <4>1 DEF SubscribeAcked, TypeOK
    <3>3. UNCHANGED <<newVars, sharedVars, channelVars, linkVars, topics, lostVars, handlerVars,
                    reportVars, crashed>>
      BY <2>12 DEF SubscribeAcked
    <3> QED
      BY <1>0, <3>1, <3>2, <3>3 DEF TypeOK
  <2>13. CASE MakeEvents(i)
    <3>1. acked' \in [Instance -> 0..MaxConnects]
      <4>1. acked[i] - 1 \in 0..MaxConnects
        BY <2>0, <2>13, MqttAssumption DEF MqttAssumption, MakeEvents
      <4> QED
        BY <1>0, <1>2, <2>13, <4>1 DEF MakeEvents, TypeOK
    <3>2. made' \in 0..connects /\ events' = made' /\ made <= made'
      BY <1>0, <1>2, <2>13, <2>0, MqttAssumption DEF MqttAssumption, MakeEvents, TypeOK
    <3>3. UNCHANGED <<newVars, connected, config, buffer, linkVars, subPc, topics, lostVars,
                    handlerVars, reportVars, crashed>>
      BY <2>13 DEF MakeEvents
    <3>4. chan' \in [Instance -> 0..made'] /\ source' \in [Instance -> 0..made']
      <4>1. 0..made \subseteq 0..made'
        BY <1>0, <3>2 DEF TypeOK
      <4> QED
        BY <1>0, <2>13, <4>1 DEF MakeEvents, TypeOK
    <3> QED
      BY <1>0, <3>1, <3>2, <3>3, <3>4 DEF TypeOK
  <2>14. CASE Arrive(i)
    <3>1. origin' \in Seq(Instance) /\ Len(origin') <= MaxMessages
      <4>1. origin \in Seq(Instance) /\ Len(origin) < MaxMessages /\ origin' = Append(origin, i)
        BY <1>0, <2>14 DEF Arrive, TypeOK
      <4>2. origin' \in Seq(Instance) /\ Len(origin') = Len(origin) + 1
        BY <1>2, <4>1, AppendProperties
      <4> QED
        BY <4>1, <4>2, MqttAssumption, LenProperties DEF MqttAssumption
    <3>2. inbox' \in [Instance -> Seq(Message)]
      <4>1. Len(origin') \in Message
        <5>1. Len(origin) \in Nat /\ Len(origin') = Len(origin) + 1
          BY <1>0, <2>14 DEF Arrive, TypeOK
        <5> QED
          BY <3>1, <5>1, MqttAssumption DEF Message, MqttAssumption
      <4>2. Append(inbox[i], Len(origin')) \in Seq(Message)
        BY <1>0, <1>2, <4>1 DEF TypeOK
      <4> QED
        BY <1>0, <1>2, <2>14, <4>2 DEF Arrive, TypeOK
    <3>3. UNCHANGED <<newVars, sharedVars, channelVars, linkVars, subVars, lostVars, hand, chan,
                    source, taken, reported, crashed>>
      BY <2>14 DEF Arrive
    <3> QED
      BY <1>0, <3>1, <3>2, <3>3 DEF TypeOK
  <2>15. CASE Handle(i)
    <3>1. hand' \in [Instance -> Message \union {Nothing}]
      BY <1>0, <1>2, <2>15 DEF Handle, TypeOK
    <3>2. inbox' \in [Instance -> Seq(Message)]
      BY <1>0, <1>2, <2>15 DEF Handle, TypeOK
    <3>3. chan' \in [Instance -> 0..made]
      BY <1>0, <1>2, <2>15 DEF Handle, TypeOK
    <3>4. UNCHANGED <<newVars, sharedVars, channelVars, linkVars, subVars, lostVars, reportVars,
                    crashed>>
      BY <2>15 DEF Handle
    <3> QED
      BY <1>0, <3>1, <3>2, <3>3, <3>4 DEF TypeOK
  <2>16. CASE Send(i)
    <3>0. chan[i] \in Channel /\ hand[i] \in Message /\ buffer[chan[i]] \in Seq(Message)
      BY <1>0, <1>2, <2>16, Channels DEF Send, TypeOK
    <3>1. buffer' \in [Channel -> Seq(Message)]
      BY <1>0, <2>16, <3>0 DEF Send, TypeOK
    <3>2. \A c \in Channel : Len(buffer'[c]) <= EventsCap
      <4>1. Len(Append(buffer[chan[i]], hand[i])) <= EventsCap
        BY <2>16, <3>0, MqttAssumption, AppendProperties, LenProperties
           DEF Send, MqttAssumption
      <4> QED
        BY <1>0, <2>16, <3>0, <4>1 DEF Send, TypeOK
    <3>3. hand' \in [Instance -> Message \union {Nothing}]
      BY <1>0, <1>2, <2>16 DEF Send, TypeOK
    <3>4. chan' \in [Instance -> 0..made]
      <4>1. NilChannel \in 0..made
        BY <1>0 DEF TypeOK, NilChannel
      <4> QED
        BY <1>0, <1>2, <2>16, <4>1 DEF Send, TypeOK
    <3>5. UNCHANGED <<newVars, sharedVars, made, linkVars, subVars, lostVars, inbox, reportVars,
                    crashed>>
      BY <2>16 DEF Send
    <3> QED
      BY <1>0, <3>1, <3>2, <3>3, <3>4, <3>5 DEF TypeOK
  <2>17. CASE FetchLoad(i)
    <3>1. source' \in [Instance -> 0..made]
      BY <1>0, <1>2, <2>17 DEF FetchLoad, TypeOK
    <3>2. UNCHANGED <<newVars, sharedVars, channelVars, linkVars, subVars, lostVars, handlerVars,
                    origin, taken, reported, crashed>>
      BY <2>17 DEF FetchLoad
    <3> QED
      BY <1>0, <3>1, <3>2 DEF TypeOK
  <2>18. CASE FetchReceive(i)
    <3> DEFINE c == source[i]
    <3>0. /\ c \in Channel /\ buffer[c] \in Seq(Message) /\ buffer[c] # <<>>
          /\ Len(buffer[c]) <= EventsCap
      BY <1>0, <1>2, <2>18, Channels DEF FetchReceive, TypeOK
    <3>1. /\ Head(buffer[c]) \in Message
          /\ Tail(buffer[c]) \in Seq(Message)
          /\ Len(Tail(buffer[c])) <= EventsCap
      BY <3>0, HeadTailProperties, LenProperties, MqttAssumption DEF MqttAssumption
    <3>2. taken' \in [Instance -> Message \union {Nothing}]
      BY <1>0, <1>2, <2>18, <3>1 DEF FetchReceive, FetchTakes, TypeOK
    <3>3. buffer' \in [Channel -> Seq(Message)] /\ \A d \in Channel : Len(buffer'[d]) <= EventsCap
      BY <1>0, <2>18, <3>0, <3>1 DEF FetchReceive, TypeOK
    <3>4. source' \in [Instance -> 0..made]
      <4>1. NilChannel \in 0..made
        BY <1>0 DEF TypeOK, NilChannel
      <4> QED
        BY <1>0, <1>2, <2>18, <4>1 DEF FetchReceive, FetchTakes, TypeOK
    <3>5. UNCHANGED <<newVars, sharedVars, made, linkVars, subVars, lostVars, handlerVars, origin,
                    reported, crashed>>
      BY <2>18 DEF FetchReceive, FetchTakes
    <3> QED
      BY <1>0, <3>2, <3>3, <3>4, <3>5 DEF TypeOK
  <2>19. CASE FetchReturns(i)
    <3>1. source' \in [Instance -> 0..made]
      <4>1. NilChannel \in 0..made
        BY <1>0 DEF TypeOK, NilChannel
      <4> QED
        BY <1>0, <1>2, <2>19, <4>1 DEF FetchReturns, TypeOK
    <3>2. UNCHANGED <<newVars, sharedVars, channelVars, linkVars, subVars, lostVars, handlerVars,
                    origin, taken, reported, crashed>>
      BY <2>19 DEF FetchReturns
    <3> QED
      BY <1>0, <3>1, <3>2 DEF TypeOK
  <2>20. CASE FetchReport(i)
    <3>1. /\ reported' \in Seq([message : Message, by : Instance])
          /\ taken' \in [Instance -> Message \union {Nothing}]
      BY <1>0, <1>2, <2>20 DEF FetchReport, TypeOK
    <3>2. UNCHANGED <<newVars, sharedVars, channelVars, linkVars, subVars, lostVars, handlerVars,
                    origin, source, crashed>>
      BY <2>20 DEF FetchReport
    <3> QED
      BY <1>0, <3>1, <3>2 DEF TypeOK
  <2> QED
    BY <1>2, Actions,
       <2>1, <2>2, <2>3, <2>4, <2>5, <2>6, <2>7, <2>8, <2>9,
       <2>10, <2>11, <2>12, <2>13, <2>14, <2>15, <2>16, <2>17, <2>18, <2>19, <2>20
<1> QED
  BY <1>1, <1>2 DEF Next

(* Every channel is made for a connection of its own: LinkUp opens a claim for
   it, SubscribeAcked makes it one of the client's, MakeEvents uses it. *)
LEMMA ChannelsNext == IInv /\ [Next]_vars => ChannelsClaimed'
<1> SUFFICES ASSUME IInv, [Next]_vars PROVE ChannelsClaimed'
  OBVIOUS
<1> USE DEF newVars, sharedVars, channelVars, linkVars, subVars, lostVars, handlerVars,
            reportVars, ChannelsClaimed
<1>0. /\ TypeOK /\ ChannelsClaimed
      /\ made \in Nat /\ connects \in Nat /\ acked \in [Instance -> 0..MaxConnects]
  BY MqttAssumption DEF IInv, TypeOK, MqttAssumption
<1>1. ASSUME UNCHANGED <<made, connects, acked>>, Subscribing' \subseteq Subscribing
      PROVE  ChannelsClaimed'
  <2>1. Cardinality(Claims(acked, Subscribing')) <= Cardinality(Claims(acked, Subscribing))
    BY <1>1, ClaimsClose
  <2>2. Cardinality(Claims(acked', Subscribing')) = Cardinality(Claims(acked, Subscribing'))
    BY <1>1
  <2>3. Cardinality(Claims(acked, Subscribing')) \in Nat
    BY ClaimsFinite
  <2>4. Claims(acked, Subscribing)' = Claims(acked', Subscribing')
    BY DEF Claims
  <2> QED
    BY <1>0, <1>1, <2>1, <2>2, <2>3, <2>4, ClaimsFinite
<1>2. CASE UNCHANGED vars
  BY <1>1, <1>2 DEF vars, Subscribing
<1>3. ASSUME NEW i \in Instance, Callbacks(i) \/ Environment(i) \/ Fetch(i)
      PROVE  ChannelsClaimed'
  <2>0. Claims(acked, Subscribing)' = Claims(acked', Subscribing')
    BY DEF Claims
  <2>1. CASE ConnectOk(i) \/ Reconnect(i)
    <3>1. /\ UNCHANGED <<made, acked>> /\ connects' = connects + 1
          /\ subPc' = [subPc EXCEPT ![i] = "start"]
      BY <2>1 DEF ConnectOk, Reconnect, LinkUp
    <3>2. Subscribing' \subseteq Subscribing \union {i}
      BY <1>0, <3>1 DEF Subscribing, TypeOK
    <3>3. Cardinality(Claims(acked, Subscribing')) <= Cardinality(Claims(acked, Subscribing)) + 1
      BY <1>3, <3>2, ClaimsOpen
    <3>4. Cardinality(Claims(acked, Subscribing')) \in Nat
      BY ClaimsFinite
    <3> QED
      BY <1>0, <2>0, <3>1, <3>3, <3>4, ClaimsFinite
  <2>2. CASE SubscribeAcked(i)
    <3>1. /\ UNCHANGED <<made, connects>> /\ acked' = [acked EXCEPT ![i] = @ + 1]
          /\ subPc' = [subPc EXCEPT ![i] = "done"] /\ i \in Subscribing
      BY <1>3, <2>2 DEF SubscribeAcked, Subscribing
    <3>2. Subscribing' = Subscribing \ {i}
      BY <1>0, <3>1 DEF Subscribing, TypeOK
    <3>3. acked[i] < MaxConnects
      BY <1>3, <2>2, Bounds DEF SubscribeAcked
    <3>4. Cardinality(Claims(acked', Subscribing')) <= Cardinality(Claims(acked, Subscribing))
      BY <1>0, <1>3, <3>1, <3>2, <3>3, ClaimsSettle
    <3>5. Cardinality(Claims(acked', Subscribing')) \in Nat
      BY ClaimsFinite
    <3> QED
      BY <1>0, <2>0, <3>1, <3>4, <3>5, ClaimsFinite
  <2>3. CASE MakeEvents(i)
    <3>1. /\ UNCHANGED <<connects, subPc>> /\ made' = made + 1
          /\ acked' = [acked EXCEPT ![i] = @ - 1] /\ acked[i] > 0
      BY <2>3 DEF MakeEvents
    <3>2. Subscribing' = Subscribing
      BY <3>1 DEF Subscribing
    <3>3. Cardinality(Claims(acked', Subscribing)) + 1 <= Cardinality(Claims(acked, Subscribing))
      BY <1>0, <1>3, <3>1, ClaimsUse
    <3>4. Cardinality(Claims(acked', Subscribing)) \in Nat
      BY ClaimsFinite
    <3>5. Claims(acked, Subscribing)' = Claims(acked', Subscribing)
      BY <2>0, <3>2
    <3> QED
      BY <1>0, <3>1, <3>3, <3>4, <3>5, ClaimsFinite
  <2>4. CASE LinkLost(i) \/ Subscribe(i)
    <3>1. /\ UNCHANGED <<made, connects, acked>>
          /\ \/ subPc' = [subPc EXCEPT ![i] = "none"]
             \/ subPc[i] = "start" /\ subPc' = [subPc EXCEPT ![i] = "sent"]
      BY <2>4 DEF LinkLost, Subscribe
    <3>2. Subscribing' \subseteq Subscribing
      BY <1>0, <3>1 DEF Subscribing, TypeOK
    <3> QED
      BY <1>1, <3>1, <3>2
  <2>5. CASE \/ New(i) \/ NewPanics(i) \/ ConnectFails(i) \/ ConnectRetries(i)
              \/ HandleLost(i) \/ HandleConnect(i) \/ SubscribePanics(i)
              \/ Arrive(i) \/ Handle(i) \/ Send(i)
              \/ FetchLoad(i) \/ FetchReceive(i) \/ FetchReturns(i) \/ FetchReport(i)
    <3>1. UNCHANGED <<made, connects, acked, subPc>>
      BY <2>5 DEF New, NewPanics, ConnectFails, ConnectRetries, HandleLost, HandleConnect,
         SubscribePanics, Arrive, Handle, Send,
         FetchLoad, FetchReceive, FetchTakes, FetchReturns, FetchReport
    <3> QED
      BY <1>1, <3>1 DEF Subscribing
  <2> QED
    BY <1>3, Actions, <2>1, <2>2, <2>3, <2>4, <2>5
<1> QED
  BY <1>2, <1>3 DEF Next

(* Every run of reConnectHandler is for a connection that broke: LinkUp opens a
   claim for the connection, LinkLost starts the run. *)
LEMMA HandlersNext == IInv /\ [Next]_vars => HandlersClaimed'
<1> SUFFICES ASSUME IInv, [Next]_vars PROVE HandlersClaimed'
  OBVIOUS
<1> USE DEF newVars, sharedVars, channelVars, linkVars, subVars, lostVars, handlerVars,
            reportVars, HandlersClaimed
<1>0. /\ TypeOK /\ HandlersClaimed /\ connects \in Nat
      /\ \A i \in Instance : Handlers[i] = lost[i] + back[i]
  BY MqttAssumption DEF IInv, TypeOK, Handlers, MqttAssumption
<1>1. Claims(Handlers, Up)' = Claims(Handlers', Up')
  BY DEF Claims
<1>2. Cardinality(Claims(Handlers', Up')) \in Nat /\ Cardinality(Claims(Handlers, Up')) \in Nat
  BY ClaimsFinite
<1>3. ASSUME UNCHANGED <<lost, back, link, connects>>
      PROVE  HandlersClaimed'
  BY <1>0, <1>3 DEF Handlers, Up, Claims
<1>4. CASE UNCHANGED vars
  BY <1>3, <1>4 DEF vars
<1>5. ASSUME NEW i \in Instance, Callbacks(i) \/ Environment(i) \/ Fetch(i)
      PROVE  HandlersClaimed'
  <2>0. /\ lost[i] \in Nat /\ back[i] \in Nat /\ lost[i] + back[i] <= MaxConnects
        /\ link[i] = "up" => lost[i] + back[i] < MaxConnects
    BY <1>5, Bounds
  <2>1. CASE ConnectOk(i) \/ Reconnect(i)
    <3>1. /\ UNCHANGED <<lost, back>> /\ connects' = connects + 1
          /\ link' = [link EXCEPT ![i] = "up"]
      BY <2>1 DEF ConnectOk, Reconnect, LinkUp
    <3>2. Up' \subseteq Up \union {i} /\ Handlers' = Handlers
      BY <1>0, <3>1 DEF Up, Handlers, TypeOK
    <3>3. Cardinality(Claims(Handlers, Up')) <= Cardinality(Claims(Handlers, Up)) + 1
      BY <1>5, <3>2, ClaimsOpen
    <3> QED
      BY <1>0, <1>1, <1>2, <3>1, <3>2, <3>3, ClaimsFinite
  <2>2. CASE LinkLost(i)
    <3>1. /\ UNCHANGED <<back, connects>> /\ lost' = [lost EXCEPT ![i] = @ + 1]
          /\ link[i] = "up" /\ link' = [link EXCEPT ![i] = "lost"]
      BY <2>2 DEF LinkLost
    <3>2. Up' = Up \ {i} /\ i \in Up
      BY <1>0, <1>5, <3>1 DEF Up, TypeOK
    <3>3. Handlers' = [Handlers EXCEPT ![i] = @ + 1]
      <4>1. \A j \in Instance : lost'[j] + back'[j] =
                                 IF j = i THEN Handlers[i] + 1 ELSE Handlers[j]
        BY <1>0, <1>5, <2>0, <3>1 DEF TypeOK
      <4>2. Handlers' = [j \in Instance |-> IF j = i THEN Handlers[i] + 1 ELSE Handlers[j]]
        BY <4>1 DEF Handlers
      <4> QED
        BY <1>0, <4>2
    <3>4. Handlers[i] < MaxConnects /\ Handlers' \in [Instance -> 0..MaxConnects]
      <4>1. Handlers[i] + 1 \in 0..MaxConnects
        BY <1>0, <1>5, <2>0, <3>1, MqttAssumption DEF MqttAssumption
      <4> QED
        BY <1>0, <1>5, <2>0, <3>1, <3>3, <4>1
    <3>5. Cardinality(Claims(Handlers', Up')) <= Cardinality(Claims(Handlers, Up))
      BY <1>0, <3>2, <3>3, <3>4, <1>5, ClaimsSettle
    <3> QED
      BY <1>0, <1>1, <1>2, <3>1, <3>4, <3>5, ClaimsFinite
  <2>3. CASE HandleLost(i)
    <3>1. /\ UNCHANGED <<link, connects>> /\ lost[i] > 0
          /\ lost' = [lost EXCEPT ![i] = @ - 1] /\ back' = [back EXCEPT ![i] = @ + 1]
      BY <2>3 DEF HandleLost
    <3>2. \A j \in Instance : lost'[j] + back'[j] = lost[j] + back[j]
      BY <1>0, <1>5, <2>0, <3>1 DEF TypeOK
    <3>3. Handlers' = Handlers /\ Up' = Up
      BY <3>1, <3>2 DEF Handlers, Up
    <3> QED
      BY <1>0, <1>1, <3>1, <3>3
  <2>4. CASE HandleConnect(i)
    <3>1. /\ UNCHANGED <<link, lost, connects>> /\ back[i] > 0
          /\ back' = [back EXCEPT ![i] = @ - 1]
      BY <2>4 DEF HandleConnect
    <3>2. Handlers' = [Handlers EXCEPT ![i] = @ - 1] /\ Up' = Up
      <4>1. \A j \in Instance : lost'[j] + back'[j] =
                                 IF j = i THEN Handlers[i] - 1 ELSE Handlers[j]
        BY <1>0, <1>5, <2>0, <3>1 DEF TypeOK
      <4>2. Handlers' = [j \in Instance |-> IF j = i THEN Handlers[i] - 1 ELSE Handlers[j]]
        BY <4>1 DEF Handlers
      <4>3. Up' = Up
        BY <3>1 DEF Up
      <4> QED
        BY <1>0, <4>2, <4>3
    <3>3. Handlers[i] > 0 /\ Handlers[i] - 1 \in 0..MaxConnects
      BY <1>0, <1>5, <2>0, <3>1, MqttAssumption DEF MqttAssumption
    <3>4. Cardinality(Claims(Handlers', Up)) + 1 <= Cardinality(Claims(Handlers, Up))
      BY <1>0, <1>5, <3>2, <3>3, ClaimsUse
    <3>5. Handlers' \in [Instance -> 0..MaxConnects]
      BY <1>0, <3>2, <3>3
    <3>6. Claims(Handlers, Up)' = Claims(Handlers', Up)
      BY <1>1, <3>2
    <3>7. Cardinality(Claims(Handlers', Up)) \in Nat
      BY ClaimsFinite
    <3> QED
      BY <1>0, <3>1, <3>4, <3>5, <3>6, <3>7, ClaimsFinite
  <2>5. CASE \/ New(i) \/ NewPanics(i) \/ ConnectFails(i) \/ ConnectRetries(i)
              \/ Subscribe(i) \/ SubscribePanics(i) \/ SubscribeAcked(i) \/ MakeEvents(i)
              \/ Arrive(i) \/ Handle(i) \/ Send(i)
              \/ FetchLoad(i) \/ FetchReceive(i) \/ FetchReturns(i) \/ FetchReport(i)
    <3>1. UNCHANGED <<lost, back, link, connects>>
      BY <2>5 DEF New, NewPanics, ConnectFails, ConnectRetries, Subscribe, SubscribePanics,
         SubscribeAcked, MakeEvents, Arrive, Handle, Send,
         FetchLoad, FetchReceive, FetchTakes, FetchReturns, FetchReport
    <3> QED
      BY <1>3, <3>1
  <2> QED
    BY <1>5, Actions, <2>1, <2>2, <2>3, <2>4, <2>5
<1> QED
  BY <1>4, <1>5 DEF Next

LEMMA IInvInit == Init => IInv
<1> SUFFICES ASSUME Init PROVE IInv
  OBVIOUS
<1>1. TypeOK
  <2> USE MqttAssumption DEF MqttAssumption, Nothing, NilChannel
  <2>1. /\ created \in 0..Instances /\ config \in 0..Instances
        /\ made \in 0..connects /\ events = made /\ connects \in 0..MaxConnects
    <3>1. created = 0 /\ config = 0 /\ made = 0 /\ events = 0 /\ connects = 0
      BY DEF Init
    <3> QED
      BY <3>1
  <2>2. /\ newPc \in [Instance -> {"none", "connect", "retry", "done"}]
        /\ link \in [Instance -> {"none", "up", "lost"}]
        /\ subPc \in [Instance -> {"none", "start", "sent", "done"}]
    BY DEF Init
  <2>3. /\ topics \in [Instance -> 0..Instances]
        /\ acked \in [Instance -> 0..MaxConnects]
        /\ lost \in [Instance -> 0..MaxConnects] /\ back \in [Instance -> 0..MaxConnects]
        /\ chan \in [Instance -> 0..made] /\ source \in [Instance -> 0..made]
    BY DEF Init
  <2>4. /\ hand \in [Instance -> Message \union {Nothing}]
        /\ taken \in [Instance -> Message \union {Nothing}]
        /\ inbox \in [Instance -> Seq(Message)]
        /\ buffer \in [Channel -> Seq(Message)] /\ \A c \in Channel : Len(buffer[c]) <= EventsCap
    BY DEF Init
  <2>5. /\ origin \in Seq(Instance) /\ Len(origin) <= MaxMessages
        /\ reported \in Seq([message : Message, by : Instance])
    BY DEF Init
  <2>6. connected \in BOOLEAN /\ crashed \in BOOLEAN
    BY DEF Init
  <2> QED
    BY <2>1, <2>2, <2>3, <2>4, <2>5, <2>6 DEF TypeOK
<1>2. Claims(acked, Subscribing) = {} /\ Claims(Handlers, Up) = {}
  BY DEF Init, Claims, Subscribing, Handlers, Up
<1>3. ChannelsClaimed /\ HandlersClaimed
  <2>1. Handlers \in [Instance -> 0..MaxConnects]
    BY MqttAssumption DEF Init, Handlers, MqttAssumption
  <2>2. Cardinality({}) = 0 /\ made = 0 /\ connects = 0
    BY FS_EmptySet DEF Init
  <2> QED
    BY <1>2, <2>1, <2>2 DEF ChannelsClaimed, HandlersClaimed
<1> QED
  BY <1>1, <1>3 DEF IInv

LEMMA IInvNext == IInv /\ [Next]_vars => IInv'
  BY TypeNext, ChannelsNext, HandlersNext DEF IInv

LEMMA Accounted == Spec => []IInv
  BY IInvInit, IInvNext, PTL DEF Spec

(* Every variable stays in its type.  For the package variable events and for the
   counts of threads this is more than typing: there is never a channel, a
   subscription or a run of reConnectHandler without a connection it is for. *)
THEOREM TypeCorrect == Spec => []TypeOK
<1>1. IInv => TypeOK
  BY DEF IInv
<1> QED
  BY <1>1, Accounted, PTL

=============================================================================
