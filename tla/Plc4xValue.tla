------------------------------ MODULE Plc4xValue ------------------------------
(***************************************************************************)
(* The value metricset of the PLC4X module: New connects once, then        *)
(* Metricbeat calls Fetch again and again.  Fetch reads the nodes one      *)
(* request at a time and publishes what read returns; with the connection  *)
(* marked as gone it would connect again instead.  Everything runs in one  *)
(* goroutine; only the link to the PLC changes beside it.                  *)
(*                                                                         *)
(* A value is named by the position of its node in the configuration.      *)
(***************************************************************************)
EXTENDS Integers, Sequences

CONSTANTS
  NodeCount,         \* len(config.Nodes)
  RetryOnErrorCount  \* configuration

ASSUME Plc4xAssumption ==
  /\ NodeCount \in Nat
  /\ RetryOnErrorCount \in Nat

VARIABLES
  link,       \* the connection of the client works
  connected,  \* client.connected
  pc,         \* "connect", "idle", "read", "publish" or "failed"
  tries,      \* establishConnection: calls of connect left
  started,    \* New has returned a metricset
  next,       \* read: the node it reads
  retVal,     \* read: what it has read
  events,     \* what this Fetch, or the last one, reported
  result      \* what New or the last Fetch returned: "nil" or "error"

client == <<link, connected>>
collected == <<next, retVal, events>>
vars == <<client, pc, tries, started, collected, result>>

Init ==
  /\ link = FALSE
  /\ connected = FALSE
  /\ pc = "connect"
  /\ tries = 1
  /\ started = FALSE
  /\ next = 1
  /\ retVal = <<>>
  /\ events = <<>>
  /\ result = "nil"

-----------------------------------------------------------------------------
(* establishConnection, called by New and by the reconnect branch of Fetch. *)
ConnectOk ==
  /\ pc = "connect" /\ tries > 0
  /\ link' = TRUE
  /\ connected' = TRUE
  /\ pc' = "idle"
  /\ started' = TRUE
  /\ result' = "nil"
  /\ UNCHANGED <<tries, collected>>

(* An error of the driver, or a connection that is not up; the latter replaces
   the one the client had. *)
ConnectFails ==
  /\ pc = "connect" /\ tries > 0
  /\ link' \in {link, FALSE}
  /\ tries' = tries - 1
  /\ UNCHANGED <<connected, pc, started, collected, result>>

ConnectGivesUp ==
  /\ pc = "connect" /\ tries = 0
  /\ pc' = IF started THEN "idle" ELSE "failed"
  /\ result' = "error"
  /\ UNCHANGED <<client, tries, started, collected>>

-----------------------------------------------------------------------------
(* Mutant of FetchStart: the results of the last read are kept. *)
FetchStartKeeping ==
  /\ pc = "idle"
  /\ events' = <<>>
  /\ next' = 1
  /\ pc' = IF connected THEN "read" ELSE "connect"
  /\ tries' = RetryOnErrorCount
  /\ UNCHANGED <<client, started, retVal, result>>

FetchStart ==
  /\ pc = "idle"
  /\ events' = <<>>
  /\ next' = 1
  /\ retVal' = <<>>
  /\ IF connected
       THEN pc' = "read" /\ UNCHANGED tries
       ELSE pc' = "connect" /\ tries' = RetryOnErrorCount
  /\ UNCHANGED <<client, started, result>>

ReadOk ==
  /\ pc = "read" /\ next <= NodeCount
  /\ link
  /\ retVal' = Append(retVal, next)
  /\ next' = next + 1
  /\ UNCHANGED <<client, pc, tries, started, events, result>>

(* Mutant of ReadRefused: the node is left out and the loop goes on. *)
ReadRefusedSkips ==
  /\ pc = "read" /\ next <= NodeCount
  /\ link
  /\ next' = next + 1
  /\ UNCHANGED <<client, pc, tries, started, retVal, events, result>>

(* An answer with a code other than OK carries no error: read returns what it
   has so far, as if that were all. *)
ReadRefused ==
  /\ pc = "read" /\ next <= NodeCount
  /\ link
  /\ pc' = "publish"
  /\ UNCHANGED <<client, tries, started, collected, result>>

(* The request cannot be built, or it ends with an error; connected stays. *)
ReadFails ==
  /\ pc = "read" /\ next <= NodeCount
  /\ pc' = "idle"
  /\ result' = "error"
  /\ UNCHANGED <<client, tries, started, collected>>

ReadAll ==
  /\ pc = "read" /\ next > NodeCount
  /\ pc' = "publish"
  /\ UNCHANGED <<client, tries, started, collected, result>>

Publish ==
  /\ pc = "publish"
  /\ events' = retVal
  /\ pc' = "idle"
  /\ result' = "nil"
  /\ UNCHANGED <<client, tries, started, next, retVal>>

(* The PLC or the network ends the connection. *)
LinkLost ==
  /\ link
  /\ link' = FALSE
  /\ UNCHANGED <<connected, pc, tries, started, collected, result>>

establishConnection == ConnectOk \/ ConnectFails \/ ConnectGivesUp

Fetch == FetchStart \/ ReadOk \/ ReadRefused \/ ReadFails \/ ReadAll \/ Publish

Next == establishConnection \/ Fetch \/ LinkLost

Spec == Init /\ [][Next]_vars

(* Metricbeat calls New and then Fetch in every period.  That a request returns is
   taken from the driver: read waits for it without a timeout.  Only the
   counterexample of ReconnectsAfterError is about FairSpec. *)
FairSpec == Spec /\ WF_vars(establishConnection \/ Fetch)

-----------------------------------------------------------------------------
(* Every variable stays in its type; read never returns more than one value of
   each node. *)
TypeOK ==
  /\ link \in BOOLEAN
  /\ connected \in BOOLEAN
  /\ pc \in {"connect", "idle", "read", "publish", "failed"}
  /\ tries \in 0..RetryOnErrorCount \union {1}
  /\ started \in BOOLEAN
  /\ next \in 1..NodeCount+1
  /\ retVal \in Seq(1..NodeCount) /\ Len(retVal) <= NodeCount
  /\ events \in Seq(1..NodeCount)
  /\ result \in {"nil", "error"}

(* A Fetch reports the first nodes of the configuration, in their order and
   without a gap, and nothing of a read that ended with an error: no value read
   by an earlier Fetch comes with it. *)
ReportsAPrefix ==
  /\ events = [i \in 1..Len(events) |-> i]
  /\ pc = "idle" /\ result = "error" => events = <<>>

(* Fetch says of its else branch that after an error "we will try to
   reconnect": a connection that is gone is replaced. *)
ReconnectsAfterError == ~ link /\ pc = "idle" /\ result = "error" ~> pc = "connect"

=============================================================================
