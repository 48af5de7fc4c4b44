------------------------------ MODULE LossyQueue ------------------------------
(***************************************************************************)
(* What the MQTT metricset promises to whoever publishes messages, seen    *)
(* without instances, connections and callbacks: a message that is handled *)
(* goes through a bounded queue, first in, first out, to a report.  Now    *)
(* and then a new queue takes the place of the current one.  A fetcher     *)
(* looks into the queue that is current and takes its first message, if    *)
(* it has one, though the queue may be an earlier one by then.  A message  *)
(* in an earlier queue into which no fetcher is looking is lost; nothing   *)
(* else is ever lost, and nothing is copied.                               *)
(***************************************************************************)
EXTENDS Integers, Sequences, FiniteSets, Functions

CONSTANTS Message, Capacity, Fetcher

VARIABLES
  queues,    \* all queues, the current one last
  handled,   \* messages in the hands of handlers
  looking,   \* the queue into which each fetcher looks, 0 if none
  fetched,   \* messages taken from a queue
  reported   \* messages reported, in order

vars == <<queues, handled, looking, fetched, reported>>

Init ==
  /\ queues = <<>>
  /\ handled = {}
  /\ looking = [f \in Fetcher |-> 0]
  /\ fetched = {}
  /\ reported = <<>>

Queued == UNION {Range(queues[q]) : q \in DOMAIN queues}

Known == handled \union Queued \union fetched \union Range(reported)

Handle ==
  /\ \E m \in Message \ Known : handled' = handled \union {m}
  /\ UNCHANGED <<queues, looking, fetched, reported>>

(* A handler may come late, to an earlier queue. *)
Put(m, q) ==
  /\ Len(queues[q]) < Capacity
  /\ queues' = [queues EXCEPT ![q] = Append(@, m)]
  /\ handled' = handled \ {m}
  /\ UNCHANGED <<looking, fetched, reported>>

Replace ==
  /\ queues' = Append(queues, <<>>)
  /\ UNCHANGED <<handled, looking, fetched, reported>>

Look(f) ==
  /\ looking[f] = 0
  /\ queues # <<>>
  /\ looking' = [looking EXCEPT ![f] = Len(queues)]
  /\ UNCHANGED <<queues, handled, fetched, reported>>

Fetch(f) ==
  /\ looking[f] # 0
  /\ LET queue == queues[looking[f]] IN
       /\ queue # <<>>
       /\ fetched' = fetched \union {Head(queue)}
       /\ queues' = [queues EXCEPT ![looking[f]] = Tail(queue)]
  /\ looking' = [looking EXCEPT ![f] = 0]
  /\ UNCHANGED <<handled, reported>>

LookAway(f) ==
  /\ looking[f] # 0
  /\ queues[looking[f]] = <<>>
  /\ looking' = [looking EXCEPT ![f] = 0]
  /\ UNCHANGED <<queues, handled, fetched, reported>>

Report(m) ==
  /\ reported' = Append(reported, m)
  /\ fetched' = fetched \ {m}
  /\ UNCHANGED <<queues, handled, looking>>

Next ==
  \/ Handle \/ Replace
  \/ \E m \in handled, q \in DOMAIN queues : Put(m, q)
  \/ \E f \in Fetcher : Look(f) \/ Fetch(f) \/ LookAway(f)
  \/ \E m \in fetched : Report(m)

Spec == Init /\ [][Next]_vars

=============================================================================
