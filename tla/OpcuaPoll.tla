------------------------------ MODULE OpcuaPoll ------------------------------
(***************************************************************************)
(* The OPC UA metricset with subscribe turned off.  A connected Fetch      *)
(* acquires one of MaxThreads permits and launches a goroutine, a          *)
(* collector, that reads all nodes in one request and publishes what it    *)
(* read; several collectors of successive Fetches run at a time.  One that *)
(* fails, or panics, calls closeConnection, which in this mode does no     *)
(* more than set connected to FALSE: openSubscription is always nil, so    *)
(* Cancel panics and the deferred function recovers.                       *)
(*                                                                         *)
(* Fields of Client are shared without a lock between Fetch and the        *)
(* collectors.  Server and gopcua are external.                            *)
(***************************************************************************)
EXTENDS Integers, Sequences, FiniteSets

CONSTANTS
  NodeCount,          \* length of nodesToCollect when browsing finds nodes
  MaxThreads,         \* configuration: capacity of the semaphore
  RetryOnErrorCount,  \* configuration
  MaxClients,         \* bound: clients that connect
  MaxSamples          \* bound: read requests that are answered

ASSUME PollAssumption ==
  /\ NodeCount \in Nat \ {0}
  /\ MaxThreads \in Nat
  /\ RetryOnErrorCount \in Nat
  /\ MaxClients \in Nat \ {0}
  /\ MaxSamples \in Nat

Collectors == 1..MaxThreads+1   \* one more than permits could ever launch
NoClient == 0                   \* an opcua.Client that never connected

VARIABLES
  connected, opcua, found,         \* Client: connected, opcua, whether there are nodes
  permits,                         \* free permits of the semaphore Client.sem
  fetchPc, tries,                  \* the thread of New and Fetch
  pc, reads, sample, nextNode,     \* the collectors
  published,                       \* events reported, in order
  sessions, created, samples,      \* the server
  failures                         \* history: calls of closeConnection

clientVars == <<connected, opcua, found>>
fetchVars  == <<fetchPc, tries>>
collVars   == <<pc, reads, sample, nextNode>>
serverVars == <<sessions, created, samples>>
vars == <<clientVars, permits, fetchVars, collVars, published, serverVars, failures>>

Init ==
  /\ connected = FALSE
  /\ opcua = NoClient
  /\ found = FALSE
  /\ permits = 0
  /\ fetchPc = "new"
  /\ tries = 0
  /\ pc = [t \in Collectors |-> "none"]
  /\ reads = [t \in Collectors |-> NoClient]
  /\ sample = [t \in Collectors |-> 0]
  /\ nextNode = [t \in Collectors |-> 1]
  /\ published = <<>>
  /\ sessions = {}
  /\ created = 0
  /\ samples = 0
  /\ failures = 0

(* The part of connect that opens a session on a new opcua.Client. *)
Connect ==
  /\ created < MaxClients
  /\ created' = created + 1
  /\ opcua' = created'
  /\ sessions' = sessions \union {created'}
  /\ connected' = TRUE
  /\ UNCHANGED samples

-----------------------------------------------------------------------------
(* New connects, browses, and makes the semaphore when it found nodes. *)
New ==
  /\ fetchPc = "new"
  /\ Connect
  /\ \/ fetchPc' = "idle" /\ found' = TRUE /\ permits' = MaxThreads
     \/ fetchPc' = "idle" /\ found' = FALSE /\ UNCHANGED permits
     \/ fetchPc' = "failed" /\ UNCHANGED <<found, permits>>
  /\ UNCHANGED <<tries, collVars, published, failures>>

NewFails ==
  /\ fetchPc = "new"
  /\ fetchPc' = "failed"
  /\ UNCHANGED <<clientVars, permits, tries, collVars, published, serverVars, failures>>

-----------------------------------------------------------------------------
FetchStart ==
  /\ fetchPc = "idle"
  /\ IF connected
       THEN /\ fetchPc' = "acquire"
            /\ UNCHANGED tries
       ELSE /\ fetchPc' = "reconnect"
            /\ tries' = RetryOnErrorCount
  /\ UNCHANGED <<clientVars, permits, collVars, published, serverVars, failures>>

Free == {t \in Collectors : pc[t] = "none"}

(* Mutant of Acquire: the semaphore is asked, and not taken. *)
AcquireUncounted ==
  /\ fetchPc = "acquire"
  /\ found
  /\ permits > 0
  /\ \E t \in Free :
       /\ \A u \in Free : t <= u
       /\ pc' = [pc EXCEPT ![t] = "start"]
  /\ fetchPc' = "idle"
  /\ UNCHANGED <<clientVars, permits, tries, reads, sample, nextNode, published,
                 serverVars, failures>>

(* Acquire with a context that never ends: it waits for a permit, and never
   returns an error.  Meanwhile connected may have become FALSE.  The goroutine
   launched takes the first free name. *)
Acquire ==
  /\ fetchPc = "acquire"
  /\ found
  /\ permits > 0
  /\ permits' = permits - 1
  /\ \E t \in Free :
       /\ \A u \in Free : t <= u
       /\ pc' = [pc EXCEPT ![t] = "start"]
  /\ fetchPc' = "idle"
  /\ UNCHANGED <<clientVars, tries, reads, sample, nextNode, published,
                 serverVars, failures>>

(* New found no node and made no semaphore: Acquire dereferences nil, and
   Metricbeat ends the fetch loop. *)
AcquirePanics ==
  /\ fetchPc = "acquire"
  /\ ~ found
  /\ fetchPc' = "dead"
  /\ UNCHANGED <<clientVars, permits, tries, collVars, published, serverVars, failures>>

(* establishConnection, one action per outcome of one call of connect; a
   collector may set connected to FALSE between two calls.  The variables of a
   call that has ended (tries here, reads of a collector below) are reset. *)
ConnectOk ==
  /\ fetchPc = "reconnect"
  /\ tries > 0
  /\ ~ connected
  /\ Connect
  /\ fetchPc' = "idle"
  /\ tries' = 0
  /\ UNCHANGED <<found, permits, collVars, published, failures>>

(* Mutant of ConnectOkWithError: connected is set only when connect returns no
   error, and the next attempt opens another session. *)
ConnectForgotten ==
  /\ fetchPc = "reconnect"
  /\ tries > 0
  /\ ~ connected
  /\ created < MaxClients
  /\ created' = created + 1
  /\ opcua' = created'
  /\ sessions' = sessions \union {created'}
  /\ tries' = tries - 1
  /\ UNCHANGED <<connected, found, samples, permits, fetchPc, collVars, published,
                 failures>>

ConnectOkWithError ==
  /\ fetchPc = "reconnect"
  /\ tries > 0
  /\ ~ connected
  /\ Connect
  /\ tries' = tries - 1
  /\ UNCHANGED <<found, permits, fetchPc, collVars, published, failures>>

ConnectAgain ==
  /\ fetchPc = "reconnect"
  /\ tries > 0
  /\ connected
  /\ fetchPc' = "idle"
  /\ tries' = 0
  /\ UNCHANGED <<clientVars, permits, collVars, published, serverVars, failures>>

ConnectFails ==
  /\ fetchPc = "reconnect"
  /\ tries > 0
  /\ ~ connected
  /\ opcua' = NoClient
  /\ tries' = tries - 1
  /\ UNCHANGED <<connected, found, permits, fetchPc, collVars, published,
                 serverVars, failures>>

ConnectGivesUp ==
  /\ fetchPc = "reconnect"
  /\ tries = 0
  /\ fetchPc' = "idle"
  /\ UNCHANGED <<clientVars, permits, tries, collVars, published, serverVars, failures>>

-----------------------------------------------------------------------------
(* collectData up to the request: client.opcua is read when the goroutine is
   scheduled, not when it was launched. *)
CollectStart(t) ==
  /\ pc[t] = "start"
  /\ pc' = [pc EXCEPT ![t] = "read"]
  /\ reads' = [reads EXCEPT ![t] = opcua]
  /\ UNCHANGED <<clientVars, permits, fetchVars, sample, nextNode, published,
                 serverVars, failures>>

ReadOk(t) ==
  /\ pc[t] = "read"
  /\ reads[t] \in sessions
  /\ samples < MaxSamples
  /\ samples' = samples + 1
  /\ sample' = [sample EXCEPT ![t] = samples']
  /\ nextNode' = [nextNode EXCEPT ![t] = 1]
  /\ reads' = [reads EXCEPT ![t] = NoClient]
  /\ pc' = [pc EXCEPT ![t] = "publish"]
  /\ UNCHANGED <<clientVars, permits, fetchVars, published, sessions, created,
                 failures>>

(* closeConnection, whose Cancel panics on the nil openSubscription: neither
   CloseSession nor Close is reached. *)
closeConnection ==
  /\ connected' = FALSE
  /\ failures' = IF failures < MaxClients THEN failures + 1 ELSE failures
  /\ UNCHANGED <<opcua, found>>

(* Mutant of ReadFails: the error path releases the permit as well. *)
ReadFailsReleases(t) ==
  /\ pc[t] = "read"
  /\ closeConnection
  /\ permits' = permits + 1
  /\ pc' = [pc EXCEPT ![t] = "release"]
  /\ UNCHANGED <<fetchVars, reads, sample, nextNode, published, serverVars>>

(* Mutant of ReadFails: the error path ends the goroutine before Release. *)
ReadFailsKeepsPermit(t) ==
  /\ pc[t] = "read"
  /\ closeConnection
  /\ pc' = [pc EXCEPT ![t] = "none"]
  /\ UNCHANGED <<permits, fetchVars, reads, sample, nextNode, published, serverVars>>

(* The request fails or times out, or the answer does not have a result for
   every node: an error or a recovered panic. *)
ReadFails(t) ==
  /\ pc[t] = "read"
  /\ closeConnection
  /\ pc' = [pc EXCEPT ![t] = "release"]
  /\ UNCHANGED <<permits, fetchVars, reads, sample, nextNode, published, serverVars>>

(* publishResponses, one event a step. *)
Publish(t) ==
  /\ pc[t] = "publish"
  /\ published' = Append(published, [sample |-> sample[t], node |-> nextNode[t]])
  /\ IF nextNode[t] = NodeCount
       THEN /\ pc' = [pc EXCEPT ![t] = "release"]
            /\ UNCHANGED nextNode
       ELSE /\ nextNode' = [nextNode EXCEPT ![t] = @ + 1]
            /\ UNCHANGED pc
  /\ UNCHANGED <<clientVars, permits, fetchVars, reads, sample, serverVars, failures>>

(* Mutant of PublishPanics: the value is skipped and the batch goes on. *)
PublishSkips(t) ==
  /\ pc[t] = "publish"
  /\ nextNode[t] < NodeCount
  /\ nextNode' = [nextNode EXCEPT ![t] = @ + 1]
  /\ UNCHANGED <<clientVars, permits, fetchVars, pc, reads, sample, published,
                 serverVars, failures>>

(* A value is not what its node's data type promises: collect recovers, and
   the rest of the batch is lost. *)
PublishPanics(t) ==
  /\ pc[t] = "publish"
  /\ closeConnection
  /\ pc' = [pc EXCEPT ![t] = "release"]
  /\ UNCHANGED <<permits, fetchVars, reads, sample, nextNode, published, serverVars>>

Release(t) ==
  /\ pc[t] = "release"
  /\ permits' = permits + 1
  /\ pc' = [pc EXCEPT ![t] = "none"]
  /\ reads' = [reads EXCEPT ![t] = NoClient]
  /\ sample' = [sample EXCEPT ![t] = 0]
  /\ nextNode' = [nextNode EXCEPT ![t] = 1]
  /\ UNCHANGED <<clientVars, fetchVars, published, serverVars, failures>>

-----------------------------------------------------------------------------
(* The server restarts or times the session out. *)
SessionLost(c) ==
  /\ c \in sessions
  /\ sessions' = sessions \ {c}
  /\ UNCHANGED <<clientVars, permits, fetchVars, collVars, published, created,
                 samples, failures>>

Fetch ==
  \/ FetchStart \/ Acquire \/ AcquirePanics
  \/ ConnectOk \/ ConnectOkWithError \/ ConnectAgain \/ ConnectFails \/ ConnectGivesUp

collect(t) ==
  \/ CollectStart(t) \/ ReadOk(t) \/ ReadFails(t)
  \/ Publish(t) \/ PublishPanics(t) \/ Release(t)

Next ==
  \/ New \/ NewFails
  \/ Fetch
  \/ \E t \in Collectors : collect(t)
  \/ \E c \in 1..MaxClients : SessionLost(c)

Spec == Init /\ [][Next]_vars

(* Metricbeat calls Fetch after every period, and a collector's request
   returns: gopcua gives every request a timeout. *)
FairSpec ==
  /\ Spec
  /\ WF_vars(Fetch)
  /\ \A t \in Collectors : WF_vars(collect(t))

-----------------------------------------------------------------------------
FetchPcs == {"new", "idle", "acquire", "reconnect", "failed", "dead"}
CollectorPcs == {"none", "start", "read", "publish", "release"}
Event == [sample : 1..MaxSamples, node : 1..NodeCount]

(* Every variable stays in its type. *)
TypeOK ==
  /\ connected \in BOOLEAN
  /\ opcua \in 0..created
  /\ found \in BOOLEAN
  /\ permits \in 0..MaxThreads
  /\ fetchPc \in FetchPcs
  /\ tries \in 0..RetryOnErrorCount
  /\ pc \in [Collectors -> CollectorPcs]
  /\ reads \in [Collectors -> 0..MaxClients]
  /\ sample \in [Collectors -> 0..MaxSamples]
  /\ nextNode \in [Collectors -> 1..NodeCount]
  /\ published \in Seq(Event)
  /\ sessions \subseteq 1..created
  /\ created \in 0..MaxClients
  /\ samples \in 0..MaxSamples
  /\ failures \in 0..MaxClients

Busy == Collectors \ Free

(* Collectors and permits add up: every way out of collect, the recovered
   panic too, gives its permit back, once. *)
PermitsAccounted == found => permits + Cardinality(Busy) = MaxThreads

(* A session is opened by New, or because a collector failed: while connected
   there was one more than failures at most, though collectors of several
   connections fail while Fetch reconnects. *)
ReconnectsJustified == created <= failures + (IF connected THEN 1 ELSE 0)

(* The reads whose events were still to come after the k-th event, though a later
   read had already published. *)
Overtaken(k) ==
  {published[j].sample : j \in {l \in DOMAIN published :
     l > k /\ \E i \in 1..k : published[i].sample > published[l].sample}}

(* Order of the events: of one read they come in the order of the nodes, and
   none twice; and at any time fewer reads are overtaken by later ones than
   there are threads -- none if there is one thread. *)
PublishedInReadOrder ==
  /\ \A i, j \in DOMAIN published :
       i < j /\ published[i].sample = published[j].sample =>
         published[i].node < published[j].node
  /\ \A k \in DOMAIN published : Cardinality(Overtaken(k)) < MaxThreads

Publishing == {t \in Collectors : pc[t] = "publish"}

ReadOf(t) == [sample |-> sample[t], next |-> nextNode[t]]

OpenReads == {ReadOf(t) : t \in Publishing}

Log == INSTANCE ReadLog WITH
  Threads <- MaxThreads,
  started <- samples,
  open    <- OpenReads,
  log     <- published

(* Whatever fails, readers see a log of reads: each collector publishes the
   nodes of its own read, one by one from the first, beside fewer than MaxThreads
   others, and stops early only for good. *)
ImplementsReadLog == Log!Spec

(* A Fetch that waits for a permit gets it: no collector keeps one for ever. *)
WaitingFetchResumes == fetchPc = "acquire" ~> fetchPc # "acquire"

=============================================================================
