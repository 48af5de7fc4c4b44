--------------------------- MODULE OpcuaPoll_proofs ---------------------------
(***************************************************************************)
(* Theorems about OpcuaPoll for every value of its constants.              *)
(***************************************************************************)
EXTENDS OpcuaPoll, FiniteSetTheorems, TLAPS

(* The semaphore exists when New found nodes; collectors only run when it
   does, and each of them has one of its permits. *)
PermitInv ==
  /\ fetchPc = "new" => ~ found
  /\ ~ found => permits = 0 /\ Busy = {}
  /\ PermitsAccounted

(* A collector publishes what some read returned. *)
PublishesARead ==
  \A t \in Collectors : pc[t] = "publish" => sample[t] > 0 /\ sample[t] <= samples

IInv == TypeOK /\ PermitInv /\ PublishesARead

(* The busy collectors are finitely many. *)
LEMMA BusyIsFinite == IsFiniteSet(Busy) /\ Cardinality(Busy) \in Nat
<1>1. IsFiniteSet(Collectors)
  BY PollAssumption, FS_Interval DEF Collectors, PollAssumption
<1>2. IsFiniteSet(Busy)
  BY <1>1, FS_Subset DEF Busy
<1> QED
  BY <1>2, FS_CardinalityType

(* How a collector's step changes the number of busy ones: by launching one, by
   ending one, or not at all. *)
LEMMA BusyChanges ==
  ASSUME pc \in [Collectors -> CollectorPcs],
         NEW t \in Collectors, NEW v \in CollectorPcs,
         pc' = [pc EXCEPT ![t] = v]
  PROVE  /\ pc[t] # "none" /\ v # "none" =>
              Cardinality(Busy') = Cardinality(Busy)
         /\ pc[t] = "none" /\ v # "none" =>
              Cardinality(Busy') = Cardinality(Busy) + 1
         /\ pc[t] # "none" /\ v = "none" =>
              Cardinality(Busy') = Cardinality(Busy) - 1
<1>1. CASE pc[t] # "none" /\ v # "none"
  <2>1. Busy' = Busy
    BY <1>1 DEF Busy, Free
  <2> QED
    BY <1>1, <2>1
<1>2. CASE pc[t] = "none" /\ v # "none"
  <2>1. Busy' = Busy \union {t} /\ t \notin Busy
    BY <1>2 DEF Busy, Free
  <2> QED
    BY <1>2, <2>1, BusyIsFinite, FS_AddElement
<1>3. CASE pc[t] # "none" /\ v = "none"
  <2>1. Busy' = Busy \ {t} /\ t \in Busy
    BY <1>3 DEF Busy, Free
  <2> QED
    BY <1>3, <2>1, BusyIsFinite, FS_RemoveElement
<1> QED
  BY <1>1, <1>2, <1>3

(* A collector that is busy has a permit: the semaphore is not full. *)
LEMMA BusyHasPermit ==
  ASSUME IInv, NEW t \in Collectors, pc[t] # "none"
  PROVE  found /\ permits < MaxThreads
<1>1. t \in Busy
  BY DEF Busy, Free
<1>2. Cardinality(Busy) > 0
  BY <1>1, BusyIsFinite, FS_EmptySet
<1>3. permits \in Int /\ MaxThreads \in Nat
  BY PollAssumption DEF IInv, TypeOK, PollAssumption
<1> QED
  BY <1>1, <1>2, <1>3, BusyIsFinite DEF IInv, PermitInv, PermitsAccounted

(* Before New runs there is no semaphore and no collector. *)
LEMMA PermitInit == Init => IInv
<1> SUFFICES ASSUME Init PROVE IInv
  OBVIOUS
<1> USE PollAssumption DEF PollAssumption
<1>1. Busy = {}
  BY DEF Init, Busy, Free
<1>2. TypeOK
  <2>1. sessions \subseteq 1..created /\ published \in Seq(Event)
    BY DEF Init
  <2>2. /\ pc \in [Collectors -> CollectorPcs]
        /\ reads \in [Collectors -> 0..MaxClients]
        /\ sample \in [Collectors -> 0..MaxSamples]
        /\ nextNode \in [Collectors -> 1..NodeCount]
    BY DEF Init, CollectorPcs, NoClient
  <2>3. /\ connected \in BOOLEAN /\ found \in BOOLEAN /\ fetchPc \in FetchPcs
    BY DEF Init, FetchPcs
  <2>4. /\ opcua \in 0..created /\ permits \in 0..MaxThreads
        /\ tries \in 0..RetryOnErrorCount /\ created \in 0..MaxClients
        /\ samples \in 0..MaxSamples /\ failures \in 0..MaxClients
    BY DEF Init, NoClient
  <2> QED
    BY <2>1, <2>2, <2>3, <2>4 DEF TypeOK
<1> QED
  BY <1>1, <1>2 DEF Init, IInv, PermitInv, PermitsAccounted, PublishesARead

(* Every step keeps the types; Release needs that the permit it gives back was
   taken. *)
LEMMA PollTypeNext == IInv /\ [Next]_vars => TypeOK'
<1> SUFFICES ASSUME IInv, [Next]_vars PROVE TypeOK'
  OBVIOUS
<1> USE PollAssumption DEF PollAssumption, TypeOK
<1>0. TypeOK
  BY DEF IInv
<1>1. CASE New
  <2>1. /\ created' = created + 1 /\ created' <= MaxClients
        /\ opcua' = created' /\ sessions' = sessions \union {created'}
        /\ connected' = TRUE /\ samples' = samples
    BY <1>0, <1>1 DEF New, Connect
  <2>2. fetchPc' \in FetchPcs /\ found' \in BOOLEAN
    BY <1>0, <1>1 DEF New, FetchPcs
  <2>4. permits' \in 0..MaxThreads
    BY <1>0, <1>1 DEF New
  <2>3. UNCHANGED <<tries, collVars, published, failures>>
    BY <1>1 DEF New
  <2> QED
    BY <1>0, <2>1, <2>2, <2>3, <2>4 DEF collVars
<1>2. CASE NewFails
  BY <1>0, <1>2 DEF NewFails, FetchPcs, clientVars, collVars, serverVars
<1>3. CASE FetchStart
  BY <1>0, <1>3 DEF FetchStart, FetchPcs, clientVars, collVars, serverVars
<1>4. CASE Acquire
  BY <1>0, <1>4 DEF Acquire, Free, FetchPcs, CollectorPcs, clientVars, serverVars
<1>5. CASE AcquirePanics
  BY <1>0, <1>5 DEF AcquirePanics, FetchPcs, clientVars, collVars, serverVars
<1>6. CASE ConnectOk
  BY <1>0, <1>6 DEF ConnectOk, Connect, FetchPcs, collVars
<1>7. CASE ConnectOkWithError
  BY <1>0, <1>7 DEF ConnectOkWithError, Connect, FetchPcs, collVars
<1>8. CASE ConnectAgain
  BY <1>0, <1>8 DEF ConnectAgain, FetchPcs, clientVars, collVars, serverVars
<1>9. CASE ConnectFails
  BY <1>0, <1>9 DEF ConnectFails, FetchPcs, NoClient, collVars, serverVars
<1>10. CASE ConnectGivesUp
  BY <1>0, <1>10 DEF ConnectGivesUp, FetchPcs, clientVars, collVars, serverVars
<1>11. ASSUME NEW t \in Collectors, collect(t) PROVE TypeOK'
  <2>1. CASE CollectStart(t)
    BY <1>0, <2>1 DEF CollectStart, CollectorPcs, clientVars, fetchVars, serverVars
  <2>2. CASE ReadOk(t)
    <3>1. /\ pc' \in [Collectors -> CollectorPcs]
          /\ reads' \in [Collectors -> 0..MaxClients]
          /\ sample' \in [Collectors -> 0..MaxSamples]
          /\ nextNode' \in [Collectors -> 1..NodeCount]
          /\ samples' \in 0..MaxSamples
      BY <1>0, <2>2 DEF ReadOk, CollectorPcs, NoClient
    <3> QED
      BY <1>0, <2>2, <3>1 DEF ReadOk, clientVars, fetchVars
  <2>3. CASE ReadFails(t)
    <3>1. pc' \in [Collectors -> CollectorPcs]
      BY <1>0, <2>3 DEF ReadFails, CollectorPcs
    <3>2. connected' = FALSE /\ failures' \in 0..MaxClients
      BY <1>0, <2>3 DEF ReadFails, closeConnection
    <3> QED
      BY <1>0, <2>3, <3>1, <3>2 DEF ReadFails, closeConnection, fetchVars, serverVars
  <2>4. CASE PublishPanics(t)
    <3>1. pc' \in [Collectors -> CollectorPcs]
      BY <1>0, <2>4 DEF PublishPanics, CollectorPcs
    <3>2. connected' = FALSE /\ failures' \in 0..MaxClients
      BY <1>0, <2>4 DEF PublishPanics, closeConnection
    <3> QED
      BY <1>0, <2>4, <3>1, <3>2 DEF PublishPanics, closeConnection, fetchVars, serverVars
  <2>5. CASE Publish(t)
    <3>1. [sample |-> sample[t], node |-> nextNode[t]] \in Event
      <4>1. sample[t] \in 1..MaxSamples
        BY <1>0, <2>5 DEF Publish, IInv, PublishesARead
      <4> QED
        BY <1>0, <4>1 DEF Event
    <3>2. published' \in Seq(Event)
      BY <1>0, <2>5, <3>1 DEF Publish
    <3>3. /\ pc' \in [Collectors -> CollectorPcs]
          /\ nextNode' \in [Collectors -> 1..NodeCount]
      <4>1. CASE nextNode[t] = NodeCount
        BY <1>0, <2>5, <4>1 DEF Publish, CollectorPcs
      <4>2. CASE nextNode[t] # NodeCount
        <5>1. nextNode[t] + 1 \in 1..NodeCount
          BY <1>0, <4>2
        <5> QED
          BY <1>0, <2>5, <4>2, <5>1 DEF Publish
      <4> QED
        BY <4>1, <4>2
    <3> QED
      BY <1>0, <2>5, <3>2, <3>3 DEF Publish, clientVars, fetchVars, serverVars
  <2>6. CASE Release(t)
    <3>1. permits < MaxThreads
      BY <2>6, BusyHasPermit DEF Release
    <3> QED
      BY <1>0, <2>6, <3>1 DEF Release, CollectorPcs, NoClient, clientVars, fetchVars, serverVars
  <2> QED
    BY <1>11, <2>1, <2>2, <2>3, <2>4, <2>5, <2>6 DEF collect
<1>12. ASSUME NEW c \in 1..MaxClients, SessionLost(c) PROVE TypeOK'
  BY <1>0, <1>12 DEF SessionLost, clientVars, fetchVars, collVars
<1>13. CASE UNCHANGED vars
  BY <1>0, <1>13 DEF vars, clientVars, fetchVars, collVars, serverVars
<1> QED
  BY <1>1, <1>2, <1>3, <1>4, <1>5, <1>6, <1>7, <1>8, <1>9, <1>10, <1>11, <1>12,
     <1>13 DEF Next, Fetch

(* Every step keeps collectors and permits in balance: Acquire takes a permit
   and launches a collector, Release gives it back and ends one. *)
LEMMA PermitNext == IInv /\ [Next]_vars => PermitInv'
<1> SUFFICES ASSUME IInv, [Next]_vars PROVE PermitInv'
  OBVIOUS
<1> USE PollAssumption DEF PollAssumption
<1>0. /\ pc \in [Collectors -> CollectorPcs]
      /\ permits \in Int /\ found \in BOOLEAN
      /\ Cardinality(Busy) \in Nat
  BY BusyIsFinite DEF IInv, TypeOK
<1>inv. PermitInv
  BY DEF IInv
<1>same. ASSUME pc' = pc, permits' = permits, found' = found,
                fetchPc' = "new" => fetchPc = "new"
         PROVE  PermitInv'
  <2>1. Busy' = Busy
    BY <1>same DEF Busy, Free
  <2> QED
    BY <1>inv, <1>same, <2>1 DEF PermitInv, PermitsAccounted
<1>1. CASE New
  <2>1. Busy' = Busy /\ Busy = {}
    BY <1>1, <1>inv DEF New, collVars, Busy, Free, PermitInv
  <2>2. Cardinality(Busy') = 0
    BY <2>1, FS_EmptySet
  <2>3. permits = 0 /\ ~ found
    BY <1>1, <1>inv DEF New, PermitInv
  <2>4. fetchPc' # "new"
    BY <1>1 DEF New
  <2>5. found' => permits' = MaxThreads
    BY <1>1, <2>3 DEF New
  <2>6. ~ found' => permits' = 0
    BY <1>1, <2>3 DEF New
  <2> QED
    BY <2>1, <2>2, <2>4, <2>5, <2>6 DEF PermitInv, PermitsAccounted
<1>2. CASE Acquire
  <2>1. PICK t \in Collectors : pc[t] = "none" /\ pc' = [pc EXCEPT ![t] = "start"]
    BY <1>2 DEF Acquire, Free
  <2>2. Cardinality(Busy') = Cardinality(Busy) + 1
    BY <1>0, <2>1, BusyChanges DEF CollectorPcs
  <2>3. found /\ found' = found /\ permits' = permits - 1 /\ fetchPc' = "idle"
    BY <1>2 DEF Acquire, clientVars
  <2> QED
    BY <1>0, <1>inv, <2>2, <2>3 DEF PermitInv, PermitsAccounted
<1>3. ASSUME NEW t \in Collectors, collect(t) PROVE PermitInv'
  <2>0. pc[t] # "none" /\ found' = found /\ fetchPc' = fetchPc
    BY <1>3 DEF collect, CollectStart, ReadOk, ReadFails, Publish, PublishPanics,
       Release, closeConnection, clientVars, fetchVars
  <2>1. found
    BY <2>0, BusyHasPermit
  <2>2. CASE Release(t)
    <3>1. Cardinality(Busy') = Cardinality(Busy) - 1 /\ permits' = permits + 1
      BY <1>0, <2>0, <2>2, BusyChanges DEF Release, CollectorPcs
    <3> QED
      BY <1>0, <1>inv, <2>0, <2>1, <3>1 DEF PermitInv, PermitsAccounted
  <2>3. CASE ~ Release(t)
    <3>1. permits' = permits
      BY <1>3, <2>3 DEF collect, CollectStart, ReadOk, ReadFails, Publish, PublishPanics
    <3>2. pc' = pc \/ \E v \in CollectorPcs \ {"none"} : pc' = [pc EXCEPT ![t] = v]
      BY <1>3, <2>3 DEF collect, CollectStart, ReadOk, ReadFails, Publish,
         PublishPanics, CollectorPcs
    <3>3. Cardinality(Busy') = Cardinality(Busy)
      <4>1. CASE pc' = pc
        BY <4>1 DEF Busy, Free
      <4>2. CASE \E v \in CollectorPcs \ {"none"} : pc' = [pc EXCEPT ![t] = v]
        BY <1>0, <2>0, <4>2, BusyChanges
      <4> QED
        BY <3>2, <4>1, <4>2
    <3> QED
      BY <1>0, <1>inv, <2>0, <2>1, <3>1, <3>3 DEF PermitInv, PermitsAccounted
  <2> QED
    BY <2>2, <2>3
<1>4. CASE \/ NewFails \/ FetchStart \/ AcquirePanics \/ ConnectOk \/ ConnectOkWithError
           \/ ConnectAgain \/ ConnectFails \/ ConnectGivesUp
           \/ (\E c \in 1..MaxClients : SessionLost(c)) \/ UNCHANGED vars
  BY <1>4, <1>same DEF NewFails, FetchStart, AcquirePanics, ConnectOk, ConnectOkWithError,
     ConnectAgain, ConnectFails, ConnectGivesUp, SessionLost, Connect, vars, clientVars,
     fetchVars, collVars
<1> QED
  BY <1>1, <1>2, <1>3, <1>4 DEF Next, Fetch

(* Every step keeps the number of the read with the collector that publishes. *)
LEMMA PublishesNext == IInv /\ [Next]_vars => PublishesARead'
<1> SUFFICES ASSUME IInv, [Next]_vars, NEW u \in Collectors, pc'[u] = "publish"
             PROVE  sample'[u] > 0 /\ sample'[u] <= samples'
  BY DEF PublishesARead
<1>0. /\ pc \in [Collectors -> CollectorPcs] /\ sample \in [Collectors -> 0..MaxSamples]
      /\ samples \in Nat /\ PublishesARead
  BY DEF IInv, TypeOK
<1>1. ASSUME NEW t \in Collectors, collect(t)
      PROVE  sample'[u] > 0 /\ sample'[u] <= samples'
  BY <1>0, <1>1 DEF collect, CollectStart, ReadOk, ReadFails, Publish, PublishPanics,
     Release, PublishesARead, serverVars
<1>2. CASE Acquire
  BY <1>0, <1>2 DEF Acquire, Free, PublishesARead, serverVars
<1>3. CASE \/ New \/ NewFails \/ FetchStart \/ AcquirePanics \/ ConnectOk
           \/ ConnectOkWithError \/ ConnectAgain \/ ConnectFails \/ ConnectGivesUp
           \/ (\E c \in 1..MaxClients : SessionLost(c)) \/ UNCHANGED vars
  BY <1>0, <1>3 DEF New, NewFails, FetchStart, AcquirePanics, ConnectOk,
     ConnectOkWithError, ConnectAgain, ConnectFails, ConnectGivesUp, SessionLost, vars,
     Connect, collVars, serverVars, PublishesARead
<1> QED
  BY <1>1, <1>2, <1>3 DEF Next, Fetch

(* The three invariants together hold in every reachable state. *)
LEMMA PollCorrect == Spec => []IInv
<1>1. IInv /\ [Next]_vars => IInv'
  BY PollTypeNext, PermitNext, PublishesNext DEF IInv
<1> QED
  BY PermitInit, <1>1, PTL DEF Spec

(* Type correctness of the poll mode: the semaphore never holds more permits
   than MaxThreads, so Release never panics. *)
THEOREM PollTypeCorrect == Spec => []TypeOK
BY PollCorrect, PTL DEF IInv

(* Every way out of collect gives its permit back, once. *)
THEOREM PermitsAreAccounted == Spec => []PermitsAccounted
BY PollCorrect, PTL DEF IInv, PermitInv

-----------------------------------------------------------------------------
(* New is the first to connect. *)
ReconnectInv ==
  /\ ReconnectsJustified
  /\ fetchPc = "new" => ~ connected

(* connect opens a session only while connected is FALSE, and nothing but
   closeConnection, which counts a failure, makes it FALSE. *)
LEMMA ReconnectNext == TypeOK /\ ReconnectInv /\ [Next]_vars => ReconnectInv'
<1> SUFFICES ASSUME TypeOK, ReconnectInv, [Next]_vars PROVE ReconnectInv'
  OBVIOUS
<1> USE PollAssumption DEF PollAssumption
<1>0. /\ connected \in BOOLEAN /\ created \in 0..MaxClients /\ failures \in 0..MaxClients
  BY DEF TypeOK
<1>same. ASSUME connected' = connected, created' = created, failures' = failures,
                fetchPc' = "new" => fetchPc = "new"
         PROVE  ReconnectInv'
  BY <1>same DEF ReconnectInv, ReconnectsJustified
<1>1. CASE New \/ ConnectOk \/ ConnectOkWithError
  BY <1>0, <1>1 DEF New, ConnectOk, ConnectOkWithError, Connect, ReconnectInv,
     ReconnectsJustified
<1>2. ASSUME NEW t \in Collectors, ReadFails(t) \/ PublishPanics(t) PROVE ReconnectInv'
  BY <1>0, <1>2 DEF ReadFails, PublishPanics, closeConnection, ReconnectInv, ReconnectsJustified,
     fetchVars,
     serverVars
<1>3. ASSUME NEW t \in Collectors,
             CollectStart(t) \/ ReadOk(t) \/ Publish(t) \/ Release(t)
      PROVE  ReconnectInv'
  BY <1>3, <1>same DEF CollectStart, ReadOk, Publish, Release, clientVars, fetchVars,
     serverVars
<1>4. CASE \/ NewFails \/ FetchStart \/ Acquire \/ AcquirePanics \/ ConnectAgain
           \/ ConnectFails \/ ConnectGivesUp
           \/ (\E c \in 1..MaxClients : SessionLost(c)) \/ UNCHANGED vars
  BY <1>4, <1>same DEF NewFails, FetchStart, Acquire, AcquirePanics, ConnectAgain,
     ConnectFails, ConnectGivesUp, SessionLost, vars, clientVars, fetchVars, serverVars
<1> QED
  BY <1>1, <1>2, <1>3, <1>4 DEF Next, Fetch, collect

(* For any number of collectors failing while Fetch reconnects: at most one
   session is opened for a failure. *)
THEOREM ReconnectsAreJustified == Spec => []ReconnectsJustified
<1>1. Init => ReconnectInv
  BY DEF Init, ReconnectInv, ReconnectsJustified
<1>2. ReconnectInv => ReconnectsJustified
  BY DEF ReconnectInv
<1> QED
  BY <1>1, <1>2, PollTypeCorrect, ReconnectNext, PTL DEF Spec

-----------------------------------------------------------------------------
(* The order of the events.  Beside the reads already overtaken, consider those
   that will be: their collectors publish, or soon do, behind a later read.  All
   of them had a permit at the moment the later read was published, and so had
   the collector of that read: they are fewer than the threads. *)
Slow(k) == {t \in Publishing : \E i \in 1..k : published[i].sample > sample[t]}
Late(k) == Overtaken(k) \union {sample[t] : t \in Slow(k)}

OrderInv ==
  /\ \A k \in DOMAIN published : published[k].sample <= samples
  /\ \A k \in DOMAIN published : \A t \in Publishing :
       published[k].sample = sample[t] => published[k].node < nextNode[t]
  /\ \A t, u \in Publishing : sample[t] = sample[u] => t = u
  /\ \A k \in DOMAIN published :
       IsFiniteSet(Late(k)) /\ Cardinality(Late(k)) < MaxThreads
  /\ \A i, j \in DOMAIN published :
       i < j /\ published[i].sample = published[j].sample =>
         published[i].node < published[j].node

(* Reads and nodes of the events are numbers. *)
LEMMA EventType ==
  ASSUME published \in Seq(Event)
  PROVE  \A k \in DOMAIN published :
           published[k].sample \in Nat /\ published[k].node \in Nat
<1>1. \A k \in DOMAIN published : published[k] \in Event
  OBVIOUS
<1>2. \A ev \in Event : ev.sample \in Nat /\ ev.node \in Nat
  BY PollAssumption DEF Event, PollAssumption
<1> QED
  BY <1>1, <1>2

(* A smaller set of late reads is within the bound as well. *)
LEMMA FewerLate ==
  ASSUME NEW S, NEW T, IsFiniteSet(S), Cardinality(S) < MaxThreads, T \subseteq S
  PROVE  IsFiniteSet(T) /\ Cardinality(T) < MaxThreads
<1>1. /\ IsFiniteSet(T) /\ Cardinality(T) <= Cardinality(S)
      /\ Cardinality(S) \in Nat
  BY FS_Subset, FS_CardinalityType
<1>2. Cardinality(T) \in Nat
  BY <1>1, FS_CardinalityType
<1> QED
  BY <1>1, <1>2, PollAssumption DEF PollAssumption

(* A step that publishes nothing, and after which no collector publishes that
   did not before, makes no read late. *)
LEMMA OrderKeeps ==
  ASSUME OrderInv, published' = published, samples' = samples,
         \A t \in Collectors : pc'[t] = "publish" =>
            pc[t] = "publish" /\ sample'[t] = sample[t] /\ nextNode'[t] = nextNode[t]
  PROVE  OrderInv'
<1>1. Publishing' \subseteq Publishing
  BY DEF Publishing
<1>2. \A t \in Publishing' : sample'[t] = sample[t] /\ nextNode'[t] = nextNode[t]
  BY DEF Publishing
<1>3. ASSUME NEW k \in DOMAIN published'
      PROVE  IsFiniteSet(Late(k)') /\ Cardinality(Late(k)') < MaxThreads
  <2>1. Late(k)' \subseteq Late(k)
    BY <1>1, <1>2 DEF Late, Slow, Overtaken
  <2> QED
    BY <1>3, <2>1, FewerLate DEF OrderInv
<1> QED
  BY <1>1, <1>2, <1>3 DEF OrderInv

(* A new read is later than all that were published: it is overtaken by none. *)
LEMMA OrderReadOk ==
  ASSUME IInv, OrderInv, NEW t \in Collectors, ReadOk(t)
  PROVE  OrderInv'
<1>0. /\ pc \in [Collectors -> CollectorPcs] /\ sample \in [Collectors -> 0..MaxSamples]
      /\ nextNode \in [Collectors -> 1..NodeCount] /\ published \in Seq(Event)
      /\ samples \in Nat
  BY DEF IInv, TypeOK
<1>1. /\ published' = published /\ samples' = samples + 1 /\ sample'[t] = samples + 1
      /\ t \notin Publishing /\ Publishing' = Publishing \union {t}
  BY <1>0 DEF ReadOk, Publishing
<1>2. \A u \in Publishing : sample'[u] = sample[u] /\ nextNode'[u] = nextNode[u]
  BY <1>0, <1>1 DEF ReadOk, Publishing
<1>3. \A u \in Publishing : sample[u] <= samples /\ sample[u] \in Nat
  BY <1>0 DEF IInv, PublishesARead, Publishing
<1>4. \A k \in DOMAIN published : published[k].sample \in Nat /\ published[k].sample <= samples
  BY <1>0, EventType DEF OrderInv
<1>5. ASSUME NEW k \in DOMAIN published'
      PROVE  IsFiniteSet(Late(k)') /\ Cardinality(Late(k)') < MaxThreads
  <2>1. Slow(k)' \subseteq Slow(k)
    <3> SUFFICES ASSUME NEW u \in Slow(k)' PROVE u \in Slow(k)
      OBVIOUS
    <3>1. PICK i \in 1..k : published[i].sample > sample'[u]
      BY <1>1 DEF Slow
    <3>2. i \in DOMAIN published
      BY <1>0, <1>1, <1>5
    <3>3. u # t
      BY <1>0, <1>1, <1>4, <3>1, <3>2
    <3>4. u \in Publishing
      BY <1>1, <3>3 DEF Slow
    <3> QED
      BY <1>2, <3>1, <3>4 DEF Slow
  <2>2. Late(k)' \subseteq Late(k)
    BY <1>1, <1>2, <2>1 DEF Late, Slow, Overtaken
  <2> QED
    BY <1>1, <1>5, <2>2, FewerLate DEF OrderInv
<1> QED
  <2>1. \A k \in DOMAIN published' : published'[k].sample <= samples'
    BY <1>0, <1>1, <1>4
  <2>2. \A k \in DOMAIN published' : \A u \in Publishing' :
          published'[k].sample = sample'[u] => published'[k].node < nextNode'[u]
    <3> SUFFICES ASSUME NEW k \in DOMAIN published, NEW u \in Publishing',
                        published[k].sample = sample'[u]
                 PROVE  published[k].node < nextNode'[u]
      BY <1>1
    <3>1. u # t
      BY <1>0, <1>1, <1>4
    <3>2. u \in Publishing
      BY <1>1, <3>1
    <3> QED
      BY <1>2, <3>2 DEF OrderInv
  <2>3. \A u, v \in Publishing' : sample'[u] = sample'[v] => u = v
    BY <1>0, <1>1, <1>2, <1>3 DEF OrderInv
  <2> QED
    BY <1>1, <1>5, <2>1, <2>2, <2>3 DEF OrderInv

(* An event of collector t: the reads it leaves behind belong to collectors that
   were busy beside t, and what was late before is late no more than it was. *)
LEMMA OrderPublish ==
  ASSUME IInv, OrderInv, NEW t \in Collectors, Publish(t)
  PROVE  OrderInv'
<1> DEFINE e == [sample |-> sample[t], node |-> nextNode[t]]
<1>0. /\ pc \in [Collectors -> CollectorPcs] /\ sample \in [Collectors -> 0..MaxSamples]
      /\ nextNode \in [Collectors -> 1..NodeCount] /\ published \in Seq(Event)
      /\ samples \in Nat
  BY DEF IInv, TypeOK
<1>n. PICK n \in Nat : n = Len(published)
  BY <1>0
<1>1. /\ published' = Append(published, e) /\ samples' = samples /\ sample' = sample
      /\ t \in Publishing /\ Publishing' \subseteq Publishing
  BY <1>0 DEF Publish, Publishing, serverVars
<1>2. /\ n \in Nat /\ DOMAIN published = 1..n /\ DOMAIN published' = 1..n+1
      /\ \A k \in 1..n : published'[k] = published[k]
      /\ published'[n+1] = e /\ e.sample = sample[t] /\ e.node = nextNode[t]
      /\ \A k \in 1..n : published[k].sample \in Nat /\ published[k].node \in Nat
      /\ \A u \in Collectors : sample[u] \in Nat /\ nextNode[u] \in Nat
  <2>1. \A u \in Collectors : sample[u] \in Nat /\ nextNode[u] \in Nat
    BY <1>0, PollAssumption DEF PollAssumption
  <2>2. \A k \in 1..n : published[k].sample \in Nat /\ published[k].node \in Nat
    <3>1. DOMAIN published = 1..n
      BY <1>0, <1>n
    <3> QED
      BY <1>0, <3>1, EventType
  <2>3. e \in [sample : Nat, node : Nat]
    BY <2>1
  <2>4. /\ DOMAIN published = 1..n /\ DOMAIN published' = 1..n+1
        /\ \A k \in 1..n : published'[k] = published[k]
        /\ published'[n+1] = e
    BY <1>0, <1>n, <1>1
  <2> QED
    BY <2>1, <2>2, <2>4
<1>3. \A u \in Publishing' : nextNode'[u] = IF u = t THEN nextNode[t] + 1 ELSE nextNode[u]
  BY <1>0 DEF Publish, Publishing
<1>4. ASSUME NEW k \in 1..n
      PROVE  IsFiniteSet(Late(k)') /\ Cardinality(Late(k)') < MaxThreads
  <2>1. Slow(k)' \subseteq Slow(k)
    BY <1>1, <1>2, <1>4 DEF Slow
  <2>2. Overtaken(k)' \subseteq Late(k)
    <3> SUFFICES ASSUME NEW j \in 1..n+1, j > k,
                        NEW i \in 1..k, published'[i].sample > published'[j].sample
                 PROVE  published'[j].sample \in Late(k)
      BY <1>2 DEF Overtaken
    <3>1. published'[i] = published[i] /\ published[i].sample \in Nat
      BY <1>2, <1>4
    <3>2. CASE j \in 1..n
      BY <1>2, <3>1, <3>2 DEF Late, Overtaken
    <3>3. CASE j = n+1
      BY <1>1, <1>2, <3>1, <3>3 DEF Late, Slow
    <3> QED
      BY <1>2, <3>2, <3>3
  <2>3. Late(k)' \subseteq Late(k)
    BY <1>1, <2>1, <2>2 DEF Late
  <2> QED
    BY <1>2, <2>3, FewerLate DEF OrderInv
<1>5. IsFiniteSet(Late(n+1)') /\ Cardinality(Late(n+1)') < MaxThreads
  <2>1. Overtaken(n+1)' = {}
    BY <1>2 DEF Overtaken
  <2>2. CASE \E i \in 1..n : published[i].sample >= sample[t]
    <3>1. PICK i \in 1..n : published[i].sample >= sample[t]
      BY <2>2
    <3>2. Slow(n+1)' \subseteq Slow(n)
      <4> SUFFICES ASSUME NEW u \in Publishing', NEW j \in 1..n+1,
                          published'[j].sample > sample[u]
                   PROVE  u \in Slow(n)
        BY <1>1 DEF Slow
      <4>1. u \in Publishing /\ sample[u] \in Nat
        BY <1>1, <1>2 DEF Publishing
      <4>2. CASE j \in 1..n
        BY <1>2, <4>1, <4>2 DEF Slow
      <4>3. CASE j = n+1
        BY <1>2, <3>1, <4>1, <4>3 DEF Slow
      <4> QED
        BY <1>2, <4>2, <4>3
    <3>3. Late(n+1)' \subseteq Late(n)
      BY <1>1, <2>1, <3>2 DEF Late
    <3>4. IsFiniteSet(Late(n)) /\ Cardinality(Late(n)) < MaxThreads
      BY <1>2, <3>1 DEF OrderInv
    <3> QED
      BY <3>3, <3>4, FewerLate
  <2>3. CASE \A i \in 1..n : published[i].sample < sample[t]
    <3> DEFINE W == {u \in Publishing : sample[u] < sample[t]}
               T == {sample[u] : u \in W}
               f == [u \in W |-> sample[u]]
    <3>1. W \subseteq Busy \ {t} /\ t \in Busy
      BY <1>1, <1>2 DEF Publishing, Busy, Free
    <3>2. IsFiniteSet(Busy \ {t}) /\ Cardinality(Busy \ {t}) = Cardinality(Busy) - 1
      BY <3>1, BusyIsFinite, FS_RemoveElement
    <3>3. IsFiniteSet(W) /\ Cardinality(W) <= Cardinality(Busy) - 1
      BY <3>1, <3>2, FS_Subset
    <3>4. f \in Surjection(W, T)
      BY DEF Surjection
    <3>5. IsFiniteSet(T) /\ Cardinality(T) <= Cardinality(W)
      BY <3>3, <3>4, FS_Surjection
    <3>6. Cardinality(T) \in Nat /\ Cardinality(W) \in Nat
      BY <3>3, <3>5, FS_CardinalityType
    <3>7. found /\ permits \in Nat
      BY <1>1, BusyHasPermit DEF Publishing, IInv, TypeOK
    <3>8. Cardinality(T) < MaxThreads
      BY <3>3, <3>5, <3>6, <3>7, BusyIsFinite, PollAssumption
         DEF IInv, PermitInv, PermitsAccounted, PollAssumption
    <3>9. Late(n+1)' \subseteq T
      <4> SUFFICES ASSUME NEW u \in Publishing', NEW j \in 1..n+1,
                          published'[j].sample > sample[u]
                   PROVE  sample[u] \in T
        BY <1>1, <2>1 DEF Late, Slow
      <4>1. u \in Publishing /\ sample[u] \in Nat
        BY <1>1, <1>2 DEF Publishing
      <4>2. published'[j].sample <= sample[t] /\ published'[j].sample \in Nat
        BY <1>2, <2>3
      <4> QED
        BY <1>2, <4>1, <4>2
    <3> QED
      BY <3>5, <3>8, <3>9, FewerLate
  <2> QED
    BY <1>2, <2>2, <2>3
<1>6. \A k \in 1..n+1 : published'[k].sample <= samples
  <2>1. e.sample <= samples
    BY <1>1, <1>2 DEF IInv, PublishesARead, Publishing
  <2>2. \A k \in 1..n : published'[k].sample <= samples
    BY <1>2 DEF OrderInv
  <2> QED
    BY <1>2, <2>1, <2>2
<1>7. \A k \in 1..n+1 : \A u \in Publishing' :
        published'[k].sample = sample[u] => published'[k].node < nextNode'[u]
  <2> SUFFICES ASSUME NEW k \in 1..n+1, NEW u \in Publishing',
                      published'[k].sample = sample[u]
               PROVE  published'[k].node < nextNode'[u]
    OBVIOUS
  <2>1. CASE k \in 1..n
    <3>1. u \in Publishing
      BY <1>1
    <3>2. published[k].node < nextNode[u]
      BY <1>2, <2>1, <3>1 DEF OrderInv
    <3> QED
      BY <1>2, <1>3, <2>1, <3>1, <3>2 DEF Publishing
  <2>2. CASE k = n+1
    <3>1. u = t
      BY <1>1, <1>2, <2>2 DEF OrderInv
    <3> QED
      BY <1>2, <1>3, <2>2, <3>1
  <2> QED
    BY <1>2, <2>1, <2>2
<1>8. \A i, j \in 1..n+1 :
        i < j /\ published'[i].sample = published'[j].sample =>
          published'[i].node < published'[j].node
  <2> SUFFICES ASSUME NEW i \in 1..n+1, NEW j \in 1..n+1, i < j,
                      published'[i].sample = published'[j].sample
               PROVE  published'[i].node < published'[j].node
    OBVIOUS
  <2>1. i \in 1..n
    BY <1>2
  <2>2. CASE j \in 1..n
    BY <1>2, <2>1, <2>2 DEF OrderInv
  <2>3. CASE j = n+1
    BY <1>1, <1>2, <2>1, <2>3, SMTT(30) DEF OrderInv
  <2> QED
    BY <1>2, <2>2, <2>3
<1> QED
  <2>1. \A k \in DOMAIN published' :
          IsFiniteSet(Late(k)') /\ Cardinality(Late(k)') < MaxThreads
    BY <1>2, <1>4, <1>5
  <2>2. \A u, v \in Publishing' : sample'[u] = sample'[v] => u = v
    BY <1>1 DEF OrderInv
  <2> HIDE DEF e
  <2> QED
    BY <1>1, <1>2, <1>6, <1>7, <1>8, <2>1, <2>2 DEF OrderInv

(* Every step keeps the order of the events. *)
LEMMA OrderNext == IInv /\ OrderInv /\ [Next]_vars => OrderInv'
<1> SUFFICES ASSUME IInv, OrderInv, [Next]_vars PROVE OrderInv'
  OBVIOUS
<1>0. /\ pc \in [Collectors -> CollectorPcs]
      /\ sample \in [Collectors -> 0..MaxSamples]
      /\ nextNode \in [Collectors -> 1..NodeCount]
  BY DEF IInv, TypeOK
<1>1. ASSUME NEW t \in Collectors,
             CollectStart(t) \/ ReadFails(t) \/ PublishPanics(t) \/ Release(t)
      PROVE  OrderInv'
  <2>1. published' = published /\ samples' = samples
    BY <1>1 DEF CollectStart, ReadFails, PublishPanics, Release, serverVars
  <2>2. \A u \in Collectors : pc'[u] = "publish" =>
           pc[u] = "publish" /\ sample'[u] = sample[u] /\ nextNode'[u] = nextNode[u]
    BY <1>0, <1>1 DEF CollectStart, ReadFails, PublishPanics, Release
  <2> QED
    BY <2>1, <2>2, OrderKeeps
<1>2. CASE Acquire
  BY <1>0, <1>2, OrderKeeps DEF Acquire, Free, serverVars
<1>3. CASE \/ New \/ NewFails \/ FetchStart \/ AcquirePanics \/ ConnectOk
           \/ ConnectOkWithError \/ ConnectAgain \/ ConnectFails \/ ConnectGivesUp
           \/ (\E c \in 1..MaxClients : SessionLost(c)) \/ UNCHANGED vars
  BY <1>3, OrderKeeps DEF New, NewFails, FetchStart, AcquirePanics, ConnectOk,
     ConnectOkWithError, ConnectAgain, ConnectFails, ConnectGivesUp, SessionLost, vars,
     Connect, collVars, serverVars
<1> QED
  BY <1>1, <1>2, <1>3, OrderReadOk, OrderPublish DEF Next, Fetch, collect

(* For any number of threads and nodes: the events of a read come in the order
   of the nodes, and fewer reads than threads are overtaken at any time. *)
THEOREM EventsAreInReadOrder == Spec => []PublishedInReadOrder
<1>1. Init => OrderInv
  BY DEF Init, OrderInv, Publishing
<1>2. OrderInv => PublishedInReadOrder
  <2> SUFFICES ASSUME OrderInv, NEW k \in DOMAIN published
               PROVE  Cardinality(Overtaken(k)) < MaxThreads
    BY DEF OrderInv, PublishedInReadOrder
  <2>1. Overtaken(k) \subseteq Late(k)
    BY DEF Late
  <2> QED
    BY <2>1, FewerLate DEF OrderInv
<1> QED
  BY <1>1, <1>2, PollCorrect, OrderNext, PTL DEF Spec

-----------------------------------------------------------------------------
(* The refinement of ReadLog.  Reads that are open have collectors of their own,
   which have permits; so one may start when a collector gets its answer. *)
LEMMA OpenReadsFit ==
  ASSUME IInv, NEW t \in Collectors, pc[t] = "read"
  PROVE  Cardinality(OpenReads) < MaxThreads
<1>1. Publishing \subseteq Busy \ {t} /\ t \in Busy
  BY DEF Publishing, Busy, Free
<1>2. IsFiniteSet(Busy \ {t}) /\ Cardinality(Busy \ {t}) = Cardinality(Busy) - 1
  BY <1>1, BusyIsFinite, FS_RemoveElement
<1>3. IsFiniteSet(Publishing) /\ Cardinality(Publishing) <= Cardinality(Busy) - 1
  BY <1>1, <1>2, FS_Subset
<1>4. IsFiniteSet(OpenReads) /\ Cardinality(OpenReads) <= Cardinality(Publishing)
  <2>1. [u \in Publishing |-> ReadOf(u)] \in Surjection(Publishing, OpenReads)
    BY DEF OpenReads, Surjection
  <2> QED
    BY <1>3, <2>1, FS_Surjection
<1>5. Cardinality(Busy) <= MaxThreads
  <2>1. found /\ permits < MaxThreads
    BY BusyHasPermit
  <2>2. permits \in Nat /\ MaxThreads \in Nat
    BY PollAssumption DEF PollAssumption, IInv, TypeOK
  <2> QED
    BY <2>1, <2>2, BusyIsFinite DEF IInv, PermitInv, PermitsAccounted
<1>6. /\ Cardinality(OpenReads) \in Nat /\ Cardinality(Publishing) \in Nat
      /\ Cardinality(Busy) \in Nat /\ MaxThreads \in Nat
  BY <1>3, <1>4, BusyIsFinite, FS_CardinalityType, PollAssumption DEF PollAssumption
<1> QED
  BY <1>3, <1>4, <1>5, <1>6

(* What a step that leaves the other collectors' reads alone does to the set of
   open reads: one may leave it, one may enter it. *)
LEMMA OpenReadsKeep ==
  ASSUME \A u \in Collectors : pc'[u] = "publish" <=> pc[u] = "publish",
         \A u \in Collectors : pc[u] = "publish" => ReadOf(u)' = ReadOf(u)
  PROVE  OpenReads' = OpenReads
BY DEF OpenReads, Publishing

LEMMA OpenReadsEnter ==
  ASSUME NEW t \in Collectors, pc[t] # "publish", pc'[t] = "publish",
         \A u \in Collectors \ {t} : pc'[u] = pc[u] /\ ReadOf(u)' = ReadOf(u)
  PROVE  OpenReads' = OpenReads \union {ReadOf(t)'}
BY DEF OpenReads, Publishing

LEMMA OpenReadsLeave ==
  ASSUME OrderInv, NEW t \in Publishing, pc'[t] # "publish",
         \A u \in Collectors \ {t} : pc'[u] = pc[u] /\ ReadOf(u)' = ReadOf(u)
  PROVE  OpenReads' = OpenReads \ {ReadOf(t)}
<1>1. \A u \in Publishing : u # t => ReadOf(u) # ReadOf(t)
  BY DEF OrderInv, ReadOf
<1> QED
  BY <1>1 DEF OpenReads, Publishing

LEMMA OpenReadsAdvance ==
  ASSUME OrderInv, NEW t \in Publishing, pc'[t] = "publish",
         \A u \in Collectors \ {t} : pc'[u] = pc[u] /\ ReadOf(u)' = ReadOf(u)
  PROVE  OpenReads' = (OpenReads \ {ReadOf(t)}) \union {ReadOf(t)'}
<1>1. \A u \in Publishing : u # t => ReadOf(u) # ReadOf(t)
  BY DEF OrderInv, ReadOf
<1> QED
  BY <1>1 DEF OpenReads, Publishing

(* Every step of the program is a step of the log, or none. *)
LEMMA LogNext ==
  IInv /\ OrderInv /\ [Next]_vars => [Log!Next]_(Log!vars)
<1> SUFFICES ASSUME IInv, OrderInv, [Next]_vars PROVE [Log!Next]_(Log!vars)
  OBVIOUS
<1>0. /\ pc \in [Collectors -> CollectorPcs]
      /\ sample \in [Collectors -> 0..MaxSamples]
      /\ nextNode \in [Collectors -> 1..NodeCount]
  BY DEF IInv, TypeOK
<1>1. ASSUME OpenReads' = OpenReads, samples' = samples, published' = published
      PROVE  [Log!Next]_(Log!vars)
  BY <1>1 DEF Log!vars
<1>2. ASSUME NEW t \in Collectors, ReadOk(t) PROVE Log!Start
  <2>1. /\ pc[t] = "read" /\ pc'[t] = "publish"
        /\ samples' = samples + 1 /\ published' = published
        /\ ReadOf(t)' = [sample |-> samples', next |-> 1]
        /\ \A u \in Collectors \ {t} : pc'[u] = pc[u] /\ ReadOf(u)' = ReadOf(u)
    BY <1>0, <1>2 DEF ReadOk, ReadOf
  <2>2. OpenReads' = OpenReads \union {[sample |-> samples', next |-> 1]}
    BY <2>1, OpenReadsEnter
  <2>3. Cardinality(OpenReads) < MaxThreads
    BY <2>1, OpenReadsFit
  <2>4. Log!Cardinality(OpenReads) = Cardinality(OpenReads)
    BY Zenon DEF Cardinality, Log!Cardinality, IsFiniteSet, Log!IsFiniteSet
  <2> QED
    BY <2>1, <2>2, <2>3, <2>4 DEF Log!Start
<1>3. ASSUME NEW t \in Collectors, Publish(t) PROVE \E r \in OpenReads : Log!Emit(r)
  <2>1. /\ t \in Publishing /\ samples' = samples
        /\ ReadOf(t) \in OpenReads
        /\ ReadOf(t).sample = sample[t] /\ ReadOf(t).next = nextNode[t]
        /\ published' = Append(published, [sample |-> sample[t], node |-> nextNode[t]])
        /\ \A u \in Collectors \ {t} : pc'[u] = pc[u] /\ ReadOf(u)' = ReadOf(u)
    BY <1>0, <1>3 DEF Publish, Publishing, OpenReads, ReadOf, serverVars
  <2>2. CASE nextNode[t] = NodeCount
    <3>1. pc'[t] # "publish"
      BY <1>0, <1>3, <2>2 DEF Publish
    <3>2. OpenReads' = OpenReads \ {ReadOf(t)}
      BY <2>1, <3>1, OpenReadsLeave
    <3>3. Log!Emit(ReadOf(t))
      BY <2>1, <2>2, <3>2 DEF Log!Emit, Log!Event
    <3> QED
      BY <2>1, <3>3
  <2>3. CASE nextNode[t] # NodeCount
    <3>1. pc'[t] = "publish" /\ ReadOf(t)' = [ReadOf(t) EXCEPT !.next = @ + 1]
      BY <1>0, <1>3, <2>3 DEF Publish, ReadOf
    <3>2. OpenReads' = (OpenReads \ {ReadOf(t)}) \union {[ReadOf(t) EXCEPT !.next = @ + 1]}
      BY <2>1, <3>1, OpenReadsAdvance
    <3>3. Log!Emit(ReadOf(t))
      BY <2>1, <2>3, <3>2 DEF Log!Emit, Log!Event
    <3> QED
      BY <2>1, <3>3
  <2> QED
    BY <2>2, <2>3
<1>4. ASSUME NEW t \in Collectors, PublishPanics(t)
      PROVE  \E r \in OpenReads : Log!BreakOff(r)
  <2>1. /\ t \in Publishing /\ pc'[t] # "publish"
        /\ samples' = samples /\ published' = published
        /\ \A u \in Collectors \ {t} : pc'[u] = pc[u] /\ ReadOf(u)' = ReadOf(u)
    BY <1>0, <1>4 DEF PublishPanics, Publishing, ReadOf, serverVars
  <2>2. OpenReads' = OpenReads \ {ReadOf(t)} /\ ReadOf(t) \in OpenReads
    BY <2>1, OpenReadsLeave DEF OpenReads
  <2> QED
    BY <2>1, <2>2 DEF Log!BreakOff
<1>5. ASSUME NEW t \in Collectors, CollectStart(t) \/ ReadFails(t) \/ Release(t)
      PROVE  [Log!Next]_(Log!vars)
  <2>1. /\ samples' = samples /\ published' = published
        /\ \A u \in Collectors : pc'[u] = "publish" <=> pc[u] = "publish"
        /\ \A u \in Collectors : pc[u] = "publish" => ReadOf(u)' = ReadOf(u)
    BY <1>0, <1>5 DEF CollectStart, ReadFails, Release, ReadOf, serverVars
  <2> QED
    BY <1>1, <2>1, OpenReadsKeep
<1>6. CASE Acquire
  <2>1. /\ samples' = samples /\ published' = published
        /\ \A u \in Collectors : pc'[u] = "publish" <=> pc[u] = "publish"
        /\ \A u \in Collectors : ReadOf(u)' = ReadOf(u)
    BY <1>0, <1>6 DEF Acquire, Free, ReadOf, serverVars
  <2> QED
    BY <1>1, <2>1, OpenReadsKeep
<1>7. CASE \/ New \/ NewFails \/ FetchStart \/ AcquirePanics \/ ConnectOk
           \/ ConnectOkWithError \/ ConnectAgain \/ ConnectFails \/ ConnectGivesUp
           \/ (\E c \in 1..MaxClients : SessionLost(c)) \/ UNCHANGED vars
  <2>1. UNCHANGED <<pc, sample, nextNode, samples, published>>
    BY <1>7 DEF New, NewFails, FetchStart, AcquirePanics, ConnectOk,
       ConnectOkWithError, ConnectAgain, ConnectFails, ConnectGivesUp, SessionLost, vars,
       Connect, collVars, serverVars
  <2>2. OpenReads' = OpenReads
    BY <2>1 DEF OpenReads, Publishing, ReadOf
  <2> QED
    BY <1>1, <2>1, <2>2
<1> QED
  BY <1>2, <1>3, <1>4, <1>5, <1>6, <1>7 DEF Next, Fetch, collect, Log!Next

(* For any number of threads and nodes the poll mode implements the abstract log
   of reads: what collectors publish side by side, break off by panics and lose to
   failing connections is a log in which each read is published without a gap. *)
THEOREM PollImplementsReadLog == Spec => ImplementsReadLog
<1>1. Init => Log!Init
  BY DEF Init, Log!Init, OpenReads, Publishing
<1>2. Init => OrderInv
  BY DEF Init, OrderInv, Publishing
<1> QED
  BY <1>1, <1>2, PollCorrect, OrderNext, LogNext, PTL DEF Spec, ImplementsReadLog, Log!Spec

=============================================================================
