------------------------------- MODULE ReadLog -------------------------------
(***************************************************************************)
(* What the OPC UA poll mode promises to whoever reads the events: the     *)
(* nodes are read again and again, never more than Threads reads are being *)
(* published at a time, and of each read the nodes come in order, from the *)
(* first, without a gap, though a read may break off.                      *)
(***************************************************************************)
EXTENDS Integers, Sequences, FiniteSets

CONSTANTS
  NodeCount,  \* nodes read each time
  Threads     \* reads published at a time

VARIABLES
  started,    \* reads started so far; they are numbered in this order
  open,       \* reads being published, each with its next node
  log         \* events published

vars == <<started, open, log>>

Init ==
  /\ started = 0
  /\ open = {}
  /\ log = <<>>

Start ==
  /\ Cardinality(open) < Threads
  /\ started' = started + 1
  /\ open' = open \union {[sample |-> started', next |-> 1]}
  /\ UNCHANGED log

Event(r) == [sample |-> r.sample, node |-> r.next]

(* The read goes on to its next node, and is over after the last. *)
Emit(r) ==
  /\ log' = Append(log, Event(r))
  /\ open' = (open \ {r})
               \union (IF r.next = NodeCount THEN {} ELSE {[r EXCEPT !.next = @ + 1]})
  /\ UNCHANGED started

BreakOff(r) ==
  /\ open' = open \ {r}
  /\ UNCHANGED <<started, log>>

Next == Start \/ \E r \in open : Emit(r) \/ BreakOff(r)

Spec == Init /\ [][Next]_vars

=============================================================================
