------------------------------ MODULE ChangeFeed ------------------------------
(***************************************************************************)
(* What the OPC UA subscribe mode promises to whoever reads the events,    *)
(* without clients, goroutines, sessions and channels: values change, each *)
(* source (a subscription) collects values of the handles in their order,  *)
(* and what was collected is reported from the front.  While the feed has  *)
(* not split into several sources that run side by side, a change is       *)
(* collected once.                                                         *)
(***************************************************************************)
EXTENDS Integers, Sequences

CONSTANTS
  Node,      \* what can change
  Source,    \* what collects
  nodeOf     \* the node of each handle, a sequence

VARIABLES
  changed,    \* the node of each change, in order
  collected,  \* values collected, in order
  reported,   \* how many of them were reported
  split       \* sources may overlap from here on

vars == <<changed, collected, reported, split>>

Handle == DOMAIN nodeOf

Init ==
  /\ changed = <<>>
  /\ collected = <<>>
  /\ reported = 0
  /\ split = FALSE

Change ==
  /\ \E n \in Node : changed' = Append(changed, n)
  /\ UNCHANGED <<collected, reported, split>>

(* The value that change c gave to the node of handle h; 0 is no change. *)
IsValueOf(h, c) == c > 0 => changed[c] = nodeOf[h]

(* Change c is later than all that source s collected of handle h. *)
IsNext(s, h, c) ==
  \A i \in DOMAIN collected :
    collected[i].via = s /\ collected[i].value.handle = h =>
      collected[i].value.change < c

(* The first value a subscription gets may be one collected before. *)
IsFirst(v) ==
  split \/ v.initial \/ \A i \in DOMAIN collected : collected[i].value # v

Collect(s, h, c) ==
  /\ IsValueOf(h, c)
  /\ IsNext(s, h, c)
  /\ \E initial \in BOOLEAN :
       LET v == [change |-> c, handle |-> h, initial |-> initial] IN
       /\ IsFirst(v)
       /\ collected' = Append(collected, [node |-> nodeOf[h], value |-> v, via |-> s])
  /\ UNCHANGED <<changed, reported, split>>

Report ==
  /\ \E k \in reported+1..Len(collected) : reported' = k
  /\ UNCHANGED <<changed, collected, split>>

Split ==
  /\ split' = TRUE
  /\ UNCHANGED <<changed, collected, reported>>

Next ==
  \/ Change
  \/ \E s \in Source, h \in Handle, c \in 0..Len(changed) : Collect(s, h, c)
  \/ Report
  \/ Split

Spec == Init /\ [][Next]_vars

=============================================================================
