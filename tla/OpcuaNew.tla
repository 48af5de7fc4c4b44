------------------------------ MODULE OpcuaNew ------------------------------
(***************************************************************************)
(* New of the OPC UA metricset: connect, then find the nodes to collect    *)
(* data from, then make ready for Fetch; and the request of the first read *)
(* when it does not subscribe.                                             *)
(*                                                                         *)
(* Nodes come from the configuration or, when browsing is enabled, from a  *)
(* walk through the server's address space.  browse is recursive and has   *)
(* no memory of the nodes it has seen; only browse.maxLevel and            *)
(* browse.maxNodePerParent limit it.  Its calls are a stack of frames      *)
(* here.  A walk names one way to a node: the number of the root, then at  *)
(* each level the number of the child taken; a node that is referenced     *)
(* twice is reached, and collected, on two walks.                          *)
(*                                                                         *)
(* The address space is external: any graph, cycles included.  Any request *)
(* to the server may fail.  Names, paths and types of nodes are left out.  *)
(***************************************************************************)
EXTENDS Integers, Sequences, FiniteSets, SequencesExt

CONSTANTS
  Node,              \* the nodes of the server
  Unparsable,        \* the id of a configured node that ParseNodeID refuses
  NilNodeId,         \* NodeId of a Node where nothing has set it
  NodeLists,         \* configuration: lists of nodes
  DefaultRoots,      \* the Objects and Views folders
  MaxLevel,          \* configuration; 0 is no limit
  MaxNodePerParent,  \* configuration; 0 is no limit
  ReferenceLists,    \* bound: lists of references a node may have
  MaxFailures        \* bound: requests of browse that fail

ASSUME NewAssumption ==
  /\ Unparsable \notin Node /\ NilNodeId \notin Node
  /\ NodeLists \subseteq Seq(Node \union {Unparsable})
  /\ DefaultRoots \in Seq(Node)
  /\ MaxLevel \in Nat
  /\ MaxNodePerParent \in Nat
  /\ ReferenceLists \subseteq Seq(Node)
  /\ MaxFailures \in Nat

VARIABLES
  children, kind,    \* the server: references of each node; has it data?
  config,            \* configuration of the metricset
  pc,                \* where New is
  root,              \* the next node of startBrowse, or of appendNodeInformation
  stack,             \* calls of browse, the innermost last
  nodesToCollect,    \* what was found, each with its walk
  failed,            \* history: requests of browse that failed
  request            \* NodesToRead of the first read

server == <<children, kind>>
vars == <<server, config, pc, root, stack, nodesToCollect, failed, request>>

(* Only New's browsing asks the server for references. *)
Init ==
  /\ config \in [browse : BOOLEAN, subscribe : BOOLEAN, nodes : NodeLists]
  /\ children \in IF config.browse THEN [Node -> ReferenceLists]
                                   ELSE {[n \in Node |-> <<>>]}
  /\ kind \in IF config.browse THEN [Node -> {"data", "folder"}]
                               ELSE {[n \in Node |-> "data"]}
  /\ pc = "connect"
  /\ root = 1
  /\ stack = <<>>
  /\ nodesToCollect = <<>>
  /\ failed = {}
  /\ request = <<>>

-----------------------------------------------------------------------------
Goto(place) == pc' = place

ConnectOk ==
  /\ pc = "connect"
  /\ Goto(IF config.browse THEN "browse" ELSE "append")
  /\ UNCHANGED <<server, config, root, stack, nodesToCollect, failed, request>>

(* New tries once.  An error of GetEndpoints is returned too when the
   connection is up by then: New fails and nothing closes it. *)
ConnectFails ==
  /\ pc = "connect"
  /\ Goto("failed")
  /\ UNCHANGED <<server, config, root, stack, nodesToCollect, failed, request>>

-----------------------------------------------------------------------------
(* The loop over the configured nodes skips an id that cannot be parsed. *)
Parsable(nodes) ==
  LET parsed[k \in 0..Len(nodes)] ==
        IF k = 0 THEN <<>>
        ELSE IF nodes[k] = Unparsable THEN parsed[k-1]
        ELSE Append(parsed[k-1], nodes[k])
  IN  parsed[Len(nodes)]

nodeObjsToBrowse ==
  IF config.nodes = <<>> THEN DefaultRoots ELSE Parsable(config.nodes)

Level(walk) == Len(walk) - 1

(* Mutant of TooDeep: the level is compared before it is counted. *)
TooDeepLate(walk) == MaxLevel > 0 /\ Level(walk) - 1 > MaxLevel

TooDeep(walk) == MaxLevel > 0 /\ Level(walk) > MaxLevel

HasData(n) == kind[n] = "data"

Found(n, walk) ==
  IF HasData(n) THEN <<[ID |-> n, NodeId |-> n, walk |-> walk]>> ELSE <<>>

findChildren(n, errors) == IF "children" \in errors THEN <<>> ELSE children[n]

(* The requests of one call of browse: an error is logged and forgotten.  The
   node whose attributes fail is not collected, yet its children are browsed. *)
browse(n, walk, below) ==
  IF TooDeep(walk)
    THEN stack' = below /\ UNCHANGED <<nodesToCollect, failed>>
    ELSE \E errors \in SUBSET {"attributes", "children"} :
           /\ failed' = failed \union {[walk |-> walk, of |-> e] : e \in errors}
           /\ Cardinality(failed') <= MaxFailures
           /\ stack' = Append(below,
                [walk |-> walk, next |-> 1, children |-> findChildren(n, errors)])
           /\ nodesToCollect' = nodesToCollect \o
                IF "attributes" \in errors THEN <<>> ELSE Found(n, walk)

(* Mutant of Exhausted: the limit is tested before the child is browsed, and
   counts it already. *)
ExhaustedEarly(frame) ==
  \/ frame.next > Len(frame.children)
  \/ MaxNodePerParent > 0 /\ frame.next >= MaxNodePerParent

(* The limit is tested after a child was browsed, against its index from 0:
   two children more than maxNodePerParent are browsed. *)
Exhausted(frame) ==
  \/ frame.next > Len(frame.children)
  \/ MaxNodePerParent > 0 /\ frame.next - 2 > MaxNodePerParent

BrowseRoot ==
  /\ pc = "browse"
  /\ stack = <<>>
  /\ root <= Len(nodeObjsToBrowse)
  /\ browse(nodeObjsToBrowse[root], <<root>>, <<>>)
  /\ root' = root + 1
  /\ UNCHANGED <<server, config, pc, request>>

(* Mutant of BrowseChild: the children from the last to the first. *)
BrowseChildBackwards ==
  /\ pc = "browse"
  /\ stack # <<>>
  /\ LET frame == Last(stack)
         child == Len(frame.children) + 1 - frame.next
     IN /\ ~ Exhausted(frame)
        /\ browse(frame.children[child], Append(frame.walk, child),
                  Append(Front(stack), [frame EXCEPT !.next = @ + 1]))
  /\ UNCHANGED <<server, config, pc, root, request>>

BrowseChild ==
  /\ pc = "browse"
  /\ stack # <<>>
  /\ LET frame == Last(stack) IN
       /\ ~ Exhausted(frame)
       /\ browse(frame.children[frame.next], Append(frame.walk, frame.next),
                 Append(Front(stack), [frame EXCEPT !.next = @ + 1]))
  /\ UNCHANGED <<server, config, pc, root, request>>

(* Mutant of Return: a child whose children failed is browsed again. *)
ReturnRetrying ==
  /\ pc = "browse"
  /\ stack # <<>>
  /\ Exhausted(Last(stack))
  /\ stack' = IF Len(stack) > 1 /\ [walk |-> Last(stack).walk, of |-> "children"] \in failed
                THEN [Front(stack) EXCEPT ![Len(stack) - 1].next = @ - 1]
                ELSE Front(stack)
  /\ UNCHANGED <<server, config, pc, root, nodesToCollect, failed, request>>

Return ==
  /\ pc = "browse"
  /\ stack # <<>>
  /\ Exhausted(Last(stack))
  /\ stack' = Front(stack)
  /\ UNCHANGED <<server, config, pc, root, nodesToCollect, failed, request>>

(* An attribute of the node that is browsed next came with status OK and without
   a value: taking its text, or its type, panics in New, which nothing recovers. *)
BrowsePanics ==
  /\ pc = "browse"
  /\ \/ stack = <<>> /\ root <= Len(nodeObjsToBrowse)
     \/ /\ stack # <<>>
        /\ LET frame == Last(stack)
           IN  ~ Exhausted(frame) /\ ~ TooDeep(Append(frame.walk, frame.next))
  /\ Goto("crashed")
  /\ UNCHANGED <<server, config, root, stack, nodesToCollect, failed, request>>

startBrowse == BrowseRoot \/ BrowseChild \/ Return \/ BrowsePanics

-----------------------------------------------------------------------------
(* Without browsing: the configured nodes, whose NodeId stays nil.  Requests for
   their names and types may fail; an id that cannot be parsed ends New. *)
AppendNode ==
  /\ pc = "append"
  /\ root <= Len(config.nodes)
  /\ config.nodes[root] # Unparsable
  /\ nodesToCollect' = Append(nodesToCollect,
       [ID |-> config.nodes[root], NodeId |-> NilNodeId, walk |-> <<root>>])
  /\ root' = root + 1
  /\ UNCHANGED <<server, config, pc, stack, failed, request>>

AppendFails ==
  /\ pc = "append"
  /\ root <= Len(config.nodes)
  /\ config.nodes[root] = Unparsable
  /\ Goto("failed")
  /\ UNCHANGED <<server, config, root, stack, nodesToCollect, failed, request>>

(* The name or the type of a configured node came without a value. *)
AppendPanics ==
  /\ pc = "append"
  /\ root <= Len(config.nodes)
  /\ config.nodes[root] # Unparsable
  /\ Goto("crashed")
  /\ UNCHANGED <<server, config, root, stack, nodesToCollect, failed, request>>

appendNodeInformation == AppendNode \/ AppendFails \/ AppendPanics

-----------------------------------------------------------------------------
Searched ==
  \/ pc = "browse" /\ stack = <<>> /\ root > Len(nodeObjsToBrowse)
  \/ pc = "append" /\ root > Len(config.nodes)

(* Without a node New neither subscribes nor makes the semaphore. *)
Finish ==
  /\ Searched
  /\ Goto(IF nodesToCollect = <<>> THEN "idle"
          ELSE IF config.subscribe THEN "subscribe" ELSE "poll")
  /\ UNCHANGED <<server, config, root, stack, nodesToCollect, failed, request>>

New == ConnectOk \/ ConnectFails \/ startBrowse \/ appendNodeInformation \/ Finish

collectData ==
  /\ pc = "poll"
  /\ request = <<>>
  /\ request' = [k \in DOMAIN nodesToCollect |-> nodesToCollect[k].NodeId]
  /\ UNCHANGED <<server, config, pc, root, stack, nodesToCollect, failed>>

Next == New \/ collectData

Spec == Init /\ [][Next]_vars

(* New runs until it is done: every request to the server returns, with an
   error if not with an answer. *)
FairSpec == Spec /\ WF_vars(New)

-----------------------------------------------------------------------------
Walk == Seq(Nat \ {0})
Frame == [children : Seq(Node), walk : Walk, next : Nat \ {0}]
Item == [ID : Node, NodeId : Node \union {NilNodeId}, walk : Walk]
Place == {"connect", "browse", "append", "idle", "subscribe", "poll", "failed", "crashed"}

(* Every variable stays in its type, and the calls of browse are not nested
   deeper than the levels. *)
TypeOK ==
  /\ children \in [Node -> Seq(Node)]
  /\ kind \in [Node -> {"data", "folder"}]
  /\ config \in [browse : BOOLEAN, subscribe : BOOLEAN, nodes : NodeLists]
  /\ pc \in Place
  /\ root \in Nat \ {0}
  /\ stack \in Seq(Frame)
  /\ MaxLevel > 0 => Len(stack) <= MaxLevel + 1
  /\ nodesToCollect \in Seq(Item)
  /\ failed \subseteq [walk : Walk, of : {"attributes", "children"}]
  /\ request \in Seq(Node \union {NilNodeId})

(* Where the walks of a length lead, whatever the order and the number of the
   children. *)
ReachedAt[l \in Nat] ==
  IF l = 0
    THEN {[node |-> nodeObjsToBrowse[r], walk |-> <<r>>] : r \in DOMAIN nodeObjsToBrowse}
    ELSE UNION {{[node |-> children[v.node][i], walk |-> Append(v.walk, i)] :
                   i \in DOMAIN children[v.node]} : v \in ReachedAt[l-1]}

(* A node is hidden by its own attributes and by the references above it. *)
Hidden(walk) ==
  \E f \in failed :
    \/ f.of = "attributes" /\ f.walk = walk
    \/ f.of = "children" /\ IsStrictPrefix(f.walk, walk)

DataWithinLevels ==
  {v \in UNION {ReachedAt[l] : l \in 0..MaxLevel} :
     kind[v.node] = "data" /\ ~ Hidden(v.walk)}

(* browse.maxNodePerParent, as the configuration words it. *)
WithinLimit(walk) ==
  MaxNodePerParent > 0 => \A k \in 2..Len(walk) : walk[k] <= MaxNodePerParent

Collected ==
  {[node |-> nodesToCollect[i].ID, walk |-> nodesToCollect[i].walk] : i \in DOMAIN nodesToCollect}

(* Browsing finds the node with data at the end of every walk that both limits
   allow, and none that is not at the end of a walk within the levels: a request
   that fails hides what it asked for, and nothing else.  That no more children
   are browsed than maxNodePerParent is not part of it: up to two more are. *)
FindsWithinLimits ==
  pc = "browse" /\ Searched /\ MaxLevel > 0 =>
    /\ {v \in DataWithinLevels : WithinLimit(v.walk)} \subseteq Collected
    /\ Collected \subseteq DataWithinLevels

(* Walk v comes before walk w when nodes are numbered from parent to child and
   from the first child to the last. *)
Before(v, w) ==
  \/ IsStrictPrefix(v, w)
  \/ \E k \in DOMAIN v \intersect DOMAIN w :
       v[k] < w[k] /\ \A l \in 1..k-1 : v[l] = w[l]

(* Nodes are collected in the order of their walks, so none twice on one walk;
   handles and read results are later matched with nodes by this order. *)
CollectedInOrder ==
  \A i, j \in DOMAIN nodesToCollect :
    i < j => Before(nodesToCollect[i].walk, nodesToCollect[j].walk)

(* With a limit on the levels New ends, also in a graph with cycles and with
   requests that fail. *)
NewReturns == MaxLevel > 0 => <>(pc \notin {"connect", "browse", "append"})

-----------------------------------------------------------------------------
(* "If you turn this off the beat will pull the current value": the request of a
   read says which nodes it means. *)
RequestIdentifiesNodes == \A k \in DOMAIN request : request[k] # NilNodeId

=============================================================================
