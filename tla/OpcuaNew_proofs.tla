--------------------------- MODULE OpcuaNew_proofs ---------------------------
(***************************************************************************)
(* Theorems about OpcuaNew for every value of its constants: every graph,  *)
(* every limit and any number of requests that fail.                       *)
(***************************************************************************)
EXTENDS OpcuaNew, FiniteSetTheorems, SequenceTheorems, TLAPS

(* What is browsed next below the call number k; 0 is startBrowse itself. *)
Pos(k) == IF k = 0 THEN root ELSE stack[k].next

(* The first k numbers of a walk are the way to the call number k. *)
On(walk, k) == k <= Len(walk) /\ \A j \in 1..k : walk[j] = Pos(j-1) - 1

(* A walk is over when it leaves the way to the current call to an earlier
   child, or ends on it. *)
Over(walk) == \A k \in 0..Len(stack) : k < Len(walk) /\ On(walk, k) => walk[k+1] < Pos(k)

(* Each call is at the end of the way to it. *)
StackInv ==
  /\ pc \notin {"browse", "crashed"} => stack = <<>>
  /\ \A k \in DOMAIN stack : Len(stack[k].walk) = k /\ On(stack[k].walk, k)

CollectedIsOver ==
  \A i \in DOMAIN nodesToCollect :
    nodesToCollect[i].walk # <<>> /\ Over(nodesToCollect[i].walk)

WalkInv == TypeOK /\ StackInv /\ CollectedIsOver /\ CollectedInOrder

(* Where the walks that browse takes lead: its limit of children included. *)
Browsed[l \in Nat] ==
  IF l = 0
    THEN {[node |-> nodeObjsToBrowse[r], walk |-> <<r>>] : r \in DOMAIN nodeObjsToBrowse}
    ELSE UNION {{[node |-> children[v.node][i], walk |-> Append(v.walk, i)] :
                   i \in {j \in DOMAIN children[v.node] :
                            MaxNodePerParent > 0 => j <= MaxNodePerParent + 2}} :
                v \in Browsed[l-1]}

DataBrowsed ==
  {v \in UNION {Browsed[l] : l \in 0..MaxLevel} :
     kind[v.node] = "data" /\ ~ Hidden(v.walk)}

(* Each call of browse is for a node that its walk leads to; its children are
   those of the node, or none if the request for them failed; and the child it
   waits for is one of them. *)
FailedChildren(walk) == [walk |-> walk, of |-> "children"] \in failed

FrameInv ==
  \A k \in DOMAIN stack :
    /\ \E n \in Node :
         /\ [node |-> n, walk |-> stack[k].walk] \in Browsed[k-1]
         /\ stack[k].children = IF FailedChildren(stack[k].walk) THEN <<>> ELSE children[n]
    /\ k < Len(stack) => stack[k].next - 1 \in DOMAIN stack[k].children

FailedIsOver == \A f \in failed : f.walk # <<>> /\ Over(f.walk)

(* What is collected is what the walks that are over lead to. *)
Search == FrameInv /\ FailedIsOver /\ Collected = {v \in DataBrowsed : Over(v.walk)}

SearchInv ==
  /\ pc = "connect" => root = 1 /\ nodesToCollect = <<>> /\ failed = {}
  /\ pc = "browse" /\ MaxLevel > 0 => Search

-----------------------------------------------------------------------------
(* Induction over the naturals, for a set instead of a predicate: a set of
   naturals has a smallest element, because the intervals from 0 to its elements
   are finite. *)
LEMMA SmallestElement ==
  ASSUME NEW T \in SUBSET Nat, T # {}
  PROVE  \E m \in T : \A n \in T : m <= n
<1>1. PICK b \in T : TRUE
  OBVIOUS
<1> DEFINE S == 0..b
           W == {x \in SUBSET S : \E k \in T : k <= b /\ x = 0..k}
<1>2. W \subseteq FiniteSubsetsOf(S) /\ W # {}
  <2>1. IsFiniteSet(S)
    BY <1>1, FS_Interval
  <2>2. 0..b \in W
    BY <1>1
  <2> QED
    BY <2>1, <2>2, FS_Subset DEF FiniteSubsetsOf
<1>3. PICK x \in W : \A y \in W : ~ (<<y, x>> \in StrictSubsetOrdering(S))
  <2> HIDE DEF W, S
  <2> QED
    BY <1>2, FS_StrictSubsetOrderingWellFounded, WFMin
<1>4. PICK k \in T : k <= b /\ x = 0..k
  OBVIOUS
<1>5. SUFFICES ASSUME NEW n \in T, n < k PROVE FALSE
  BY <1>4
<1>6. 0..n \in W /\ 0..n \subseteq x /\ 0..n # x
  <2>1. k \in x /\ k \notin 0..n
    BY <1>4, <1>5
  <2> QED
    BY <1>1, <1>4, <1>5, <2>1
<1> QED
  BY <1>3, <1>6 DEF StrictSubsetOrdering

LEMMA Induct ==
  ASSUME NEW P, 0 \in P, \A n \in Nat : n \in P => n+1 \in P
  PROVE  \A n \in Nat : n \in P
<1> DEFINE T == Nat \ P
<1> SUFFICES ASSUME T # {} PROVE FALSE
  OBVIOUS
<1>1. PICK m \in T : \A n \in T : m <= n
  <2>1. T \in SUBSET Nat
    OBVIOUS
  <2> HIDE DEF T
  <2> QED
    BY <2>1, SmallestElement
<1>2. m # 0 /\ m - 1 \in Nat
  BY <1>1
<1>3. m - 1 \notin T
  BY <1>1, <1>2
<1> QED
  BY <1>1, <1>2, <1>3

(* A function over 0..n is defined by its first value and a step. *)
IsStep(step, n, S) == step \in [1..n -> [S -> S]]

Iterates(f, n, S, base, step) ==
  f \in [0..n -> S] /\ f[0] = base /\ \A k \in 1..n : f[k] = step[k][f[k-1]]

LEMMA RecursionUpTo ==
  ASSUME NEW S, NEW n \in Nat, NEW base \in S, NEW step, IsStep(step, n, S)
  PROVE  \E f : Iterates(f, n, S, base, step)
<1> USE DEF IsStep, Iterates
<1> DEFINE Up(f, m) == f[0] = base /\ \A k \in 1..m : f[k] = step[k][f[k-1]]
           P == {m \in Nat : m <= n => \E f \in [0..m -> S] : Up(f, m)}
<1>1. 0 \in P
  <2>1. /\ [x \in 0..0 |-> base] \in [0..0 -> S]
        /\ Up([x \in 0..0 |-> base], 0)
    OBVIOUS
  <2> QED
    BY <2>1
<1>2. ASSUME NEW m \in Nat, m \in P PROVE m + 1 \in P
  <2> SUFFICES ASSUME m + 1 <= n PROVE \E f \in [0..m+1 -> S] : Up(f, m+1)
    OBVIOUS
  <2>1. PICK f \in [0..m -> S] : Up(f, m)
    BY <1>2
  <2> DEFINE v == step[m+1][f[m]]
             g == [k \in 0..m+1 |-> IF k = m+1 THEN v ELSE f[k]]
  <2>2. v \in S
    OBVIOUS
  <2> HIDE DEF v
  <2>3. g \in [0..m+1 -> S]
    BY <2>1, <2>2
  <2>4. g[m+1] = v /\ \A k \in 0..m : g[k] = f[k]
    OBVIOUS
  <2> HIDE DEF g
  <2>5. g[m+1] = step[m+1][g[m]]
    BY <2>4 DEF v
  <2>6. ASSUME NEW k \in 1..m+1 PROVE g[k] = step[k][g[k-1]]
    <3>1. CASE k = m+1
      BY <2>5, <3>1
    <3>2. CASE k # m+1
      <4>1. k \in 1..m /\ k \in 0..m /\ k-1 \in 0..m
        BY <3>2
      <4> QED
        BY <2>1, <2>4, <4>1
    <3> QED
      BY <3>1, <3>2
  <2>7. g[0] = base
    BY <2>1, <2>4
  <2> QED
    BY <2>3, <2>6, <2>7
<1>3. \A m \in Nat : m \in P
  <2> HIDE DEF P
  <2> QED
    BY <1>1, <1>2, Induct
<1> QED
  BY <1>3

(* The loop over the configured nodes keeps those that can be parsed. *)
Loop(f, nodes, n) ==
  [k \in 0..n |-> IF k = 0 THEN <<>>
                  ELSE IF nodes[k] = Unparsable THEN f[k-1]
                  ELSE Append(f[k-1], nodes[k])]

LEMMA LoopExists ==
  ASSUME NEW n \in Nat, NEW nodes, nodes \in [1..n -> Node \union {Unparsable}]
  PROVE  \E f : f = Loop(f, nodes, n)
<1>1. PICK S : S = Seq(Node)
  OBVIOUS
<1>2. PICK step : step = [k \in 1..n |-> [s \in S |->
                            IF nodes[k] = Unparsable THEN s ELSE Append(s, nodes[k])]]
  OBVIOUS
<1>3. <<>> \in S
  BY <1>1
<1>4. IsStep(step, n, S)
  <2>1. \A k \in 1..n : nodes[k] # Unparsable => nodes[k] \in Node
    OBVIOUS
  <2>2. \A k \in 1..n, s \in S : nodes[k] # Unparsable => Append(s, nodes[k]) \in S
    BY <1>1, <2>1
  <2> QED
    BY <1>2, <2>2 DEF IsStep
<1>5. \E f : Iterates(f, n, S, <<>>, step)
  BY <1>3, <1>4, RecursionUpTo, Zenon
<1>6. PICK f \in [0..n -> S] : f[0] = <<>> /\ \A k \in 1..n : f[k] = step[k][f[k-1]]
  BY <1>5 DEF Iterates
<1>7. \A k \in 1..n : f[k-1] \in S
  <2>1. \A k \in 1..n : k-1 \in 0..n
    OBVIOUS
  <2> QED
    BY <2>1
<1>8. \A k \in 1..n : f[k] = IF nodes[k] = Unparsable THEN f[k-1] ELSE Append(f[k-1], nodes[k])
  BY <1>2, <1>6, <1>7
<1> DEFINE g == Loop(f, nodes, n)
<1>9. \A k \in 0..n : f[k] = g[k]
  <2> SUFFICES ASSUME NEW k \in 0..n PROVE f[k] = g[k]
    OBVIOUS
  <2>1. CASE k = 0
    BY <1>6, <2>1 DEF Loop
  <2>2. CASE k # 0
    <3>1. k \in 1..n
      BY <2>2
    <3>2. g[k] = IF nodes[k] = Unparsable THEN f[k-1] ELSE Append(f[k-1], nodes[k])
      BY <2>2, Zenon DEF Loop
    <3> QED
      BY <1>8, <3>1, <3>2, Zenon
  <2> QED
    BY <2>1, <2>2
<1> QED
  <2>1. g = [k \in 0..n |-> g[k]]
    BY DEF Loop
  <2> HIDE DEF g
  <2>2. f = g
    BY <1>9, <2>1
  <2> QED
    BY <2>2 DEF g

LEMMA LoopType ==
  ASSUME NEW n \in Nat, NEW nodes, nodes \in [1..n -> Node \union {Unparsable}],
         NEW f, f = Loop(f, nodes, n)
  PROVE  f[n] \in Seq(Node)
<1>1. f[0] = <<>>
  BY DEF Loop
<1>2. ASSUME NEW k \in 1..n
      PROVE  f[k] = IF nodes[k] = Unparsable THEN f[k-1] ELSE Append(f[k-1], nodes[k])
  <2>1. k \in 0..n /\ k # 0
    OBVIOUS
  <2> QED
    BY <2>1, Zenon DEF Loop
<1>0. <<>> \in Seq(Node)
  OBVIOUS
<1> DEFINE P == {k \in Nat : k <= n => f[k] \in Seq(Node)}
<1>3. 0 \in P
  BY <1>0, <1>1
<1>4. ASSUME NEW k \in Nat, k \in P PROVE k+1 \in P
  <2> SUFFICES ASSUME k+1 <= n PROVE f[k+1] \in Seq(Node)
    OBVIOUS
  <2>1. k+1 \in 1..n /\ (k+1)-1 = k /\ f[k] \in Seq(Node)
    BY <1>4
  <2>2. nodes[k+1] # Unparsable => nodes[k+1] \in Node
    BY <2>1
  <2>3. f[k+1] = IF nodes[k+1] = Unparsable THEN f[k] ELSE Append(f[k], nodes[k+1])
    BY <1>2, <2>1, Zenon
  <2>4. nodes[k+1] # Unparsable => Append(f[k], nodes[k+1]) \in Seq(Node)
    BY <2>1, <2>2
  <2> QED
    BY <2>1, <2>3, <2>4, Zenon
<1>5. \A k \in Nat : k \in P
  <2> HIDE DEF P
  <2> QED
    BY <1>3, <1>4, Induct
<1> QED
  BY <1>5

LEMMA ParsableType ==
  ASSUME NEW nodes \in Seq(Node \union {Unparsable})
  PROVE  Parsable(nodes) \in Seq(Node)
<1> DEFINE n == Len(nodes)
           parsed == CHOOSE f : f = Loop(f, nodes, n)
<1>1. n \in Nat /\ nodes \in [1..n -> Node \union {Unparsable}]
  OBVIOUS
<1>2. parsed = Loop(parsed, nodes, n)
  <2> HIDE DEF n
  <2> QED
    BY <1>1, LoopExists
<1>3. parsed[n] \in Seq(Node)
  <2> HIDE DEF n, parsed
  <2> QED
    BY <1>1, <1>2, LoopType
<1>4. Parsable(nodes) = parsed[n]
  BY DEF Parsable, Loop
<1> QED
  BY <1>3, <1>4

LEMMA RootsType == TypeOK => nodeObjsToBrowse \in Seq(Node)
<1>1. TypeOK => config.nodes \in Seq(Node \union {Unparsable})
  BY NewAssumption DEF TypeOK
<1> QED
  BY <1>1, ParsableType, NewAssumption DEF nodeObjsToBrowse

-----------------------------------------------------------------------------
(* A call of browse for node n, which walk N leads to: what it is called with and
   what it leaves behind.  below is the stack it was called from. *)
Called(n, N, below) ==
  /\ n \in Node
  /\ N \in Walk
  /\ Len(N) = Len(stack) + 1
  /\ On(N, Len(stack))
  /\ N[Len(stack) + 1] = Pos(Len(stack))
  /\ below \in Seq(Frame)
  /\ Len(below) = Len(stack)
  /\ \A k \in 1..Len(stack) :
       /\ below[k].walk = stack[k].walk
       /\ below[k].children = stack[k].children
       /\ below[k].next = IF k = Len(stack) THEN stack[k].next + 1 ELSE stack[k].next
  /\ root' = IF stack = <<>> THEN root + 1 ELSE root

(* The root or the child that is visited. *)
Chosen(n, N) ==
  /\ stack = <<>> =>
       root \in DOMAIN nodeObjsToBrowse /\ n = nodeObjsToBrowse[root] /\ N = <<root>>
  /\ stack # <<>> =>
       /\ stack[Len(stack)].next \in DOMAIN stack[Len(stack)].children
       /\ MaxNodePerParent > 0 => stack[Len(stack)].next <= MaxNodePerParent + 2
       /\ n = stack[Len(stack)].children[stack[Len(stack)].next]
       /\ N = Append(stack[Len(stack)].walk, stack[Len(stack)].next)

(* What is left when the call has added its frame, or has returned at once. *)
Left(N, below) ==
  /\ Len(stack') = IF TooDeep(N) THEN Len(stack) ELSE Len(stack) + 1
  /\ \A k \in 1..Len(stack) : stack'[k] = below[k]
  /\ TooDeep(N) => UNCHANGED <<nodesToCollect, failed>>

Asked(n, N, errors) ==
  /\ stack'[Len(stack) + 1] =
       [walk |-> N, next |-> 1, children |-> findChildren(n, errors)]
  /\ failed' = failed \union {[walk |-> N, of |-> e] : e \in errors}
  /\ nodesToCollect' = nodesToCollect \o
       IF "attributes" \in errors THEN <<>> ELSE Found(n, N)

Visited(n, N) ==
  /\ UNCHANGED <<server, config, pc, request>>
  /\ pc = "browse"
  /\ Chosen(n, N)
  /\ \E below \in Seq(Frame) : Called(n, N, below) /\ Left(N, below)
  /\ ~ TooDeep(N) => \E errors \in SUBSET {"attributes", "children"} : Asked(n, N, errors)
  /\ stack' \in Seq(Frame)

LEMMA BrowseEffect ==
  ASSUME TypeOK, NEW n \in Node, NEW N \in Walk, NEW below \in Seq(Frame),
         Chosen(n, N), Called(n, N, below), browse(n, N, below), pc = "browse",
         UNCHANGED <<server, config, pc, request>>
  PROVE  Visited(n, N)
<1>1. Len(below) = Len(stack) /\ Len(stack) \in Nat
  BY DEF Called, TypeOK
<1>2. CASE TooDeep(N)
  <2>1. stack' = below /\ UNCHANGED <<nodesToCollect, failed>>
    BY <1>2 DEF browse
  <2>2. Left(N, below)
    BY <1>1, <1>2, <2>1 DEF Left
  <2> QED
    BY <1>2, <2>1, <2>2 DEF Visited
<1>3. CASE ~ TooDeep(N)
  <2>1. PICK errors \in SUBSET {"attributes", "children"} :
          /\ failed' = failed \union {[walk |-> N, of |-> e] : e \in errors}
          /\ stack' = Append(below,
               [walk |-> N, next |-> 1, children |-> findChildren(n, errors)])
          /\ nodesToCollect' = nodesToCollect \o
               IF "attributes" \in errors THEN <<>> ELSE Found(n, N)
    BY <1>3 DEF browse
  <2> DEFINE frame == [walk |-> N, next |-> 1, children |-> findChildren(n, errors)]
  <2>2. findChildren(n, errors) \in Seq(Node)
    BY DEF findChildren, TypeOK
  <2>3. frame \in Frame
    BY <2>2 DEF Frame
  <2> HIDE DEF frame
  <2>4. stack' = Append(below, frame)
    BY <2>1 DEF frame
  <2>5. /\ stack' \in Seq(Frame)
        /\ Len(stack') = Len(stack) + 1
        /\ stack'[Len(stack) + 1] = frame
        /\ \A k \in 1..Len(stack) : stack'[k] = below[k]
    BY <1>1, <2>3, <2>4
  <2>6. Asked(n, N, errors)
    BY <2>1, <2>5 DEF Asked, frame
  <2>7. Left(N, below)
    BY <1>3, <2>5 DEF Left
  <2> QED
    BY <2>5, <2>6, <2>7 DEF Visited
<1> QED
  BY <1>2, <1>3

LEMMA FrontOf ==
  ASSUME NEW S, NEW s \in Seq(S), s # <<>>
  PROVE  /\ Front(s) \in Seq(S)
         /\ Len(Front(s)) = Len(s) - 1
         /\ \A k \in 1..Len(s)-1 : Front(s)[k] = s[k]
<1>1. PICK m \in Nat : m = Len(s) - 1
  OBVIOUS
<1>2. Front(s) = SubSeq(s, 1, m)
  BY <1>1 DEF Front
<1>3. \A k \in 1..m : s[k] \in S
  BY <1>1
<1>4. SubSeq(s, 1, m) \in Seq(S) /\ Len(SubSeq(s, 1, m)) = m
  BY <1>3, SubSeqProperties
<1>5. \A k \in 1..m : SubSeq(s, 1, m)[k] = s[k]
  BY <1>3, SubSeqProperties
<1> QED
  BY <1>1, <1>2, <1>4, <1>5

LEMMA RootVisited ==
  TypeOK /\ StackInv /\ BrowseRoot => Visited(nodeObjsToBrowse[root], <<root>>)
<1> SUFFICES ASSUME TypeOK, StackInv, BrowseRoot
             PROVE  Visited(nodeObjsToBrowse[root], <<root>>)
  OBVIOUS
<1>1. nodeObjsToBrowse \in Seq(Node)
  BY RootsType
<1>2. root \in Nat \ {0} /\ root <= Len(nodeObjsToBrowse) /\ stack = <<>> /\ pc = "browse"
  BY DEF TypeOK, BrowseRoot
<1>3. nodeObjsToBrowse[root] \in Node
  BY <1>1, <1>2
<1>4. <<root>> \in Walk /\ Len(<<root>>) = 1 /\ <<root>>[1] = root
  BY <1>2 DEF Walk
<1>5. <<>> \in Seq(Frame)
  OBVIOUS
<1>6. Called(nodeObjsToBrowse[root], <<root>>, <<>>)
  <2>1. root' = root + 1
    BY DEF BrowseRoot
  <2> QED
    BY <1>2, <1>3, <1>4, <1>5, <2>1 DEF Called, On, Pos
<1>8. Chosen(nodeObjsToBrowse[root], <<root>>)
  BY <1>1, <1>2 DEF Chosen
<1>7. browse(nodeObjsToBrowse[root], <<root>>, <<>>) /\ UNCHANGED <<server, config, pc, request>>
  BY DEF BrowseRoot
<1> QED
  BY <1>2, <1>3, <1>4, <1>5, <1>6, <1>7, <1>8, BrowseEffect

LEMMA ChildVisited ==
  ASSUME TypeOK, StackInv, BrowseChild
  PROVE  Visited(Last(stack).children[Last(stack).next],
                 Append(Last(stack).walk, Last(stack).next))
<1> DEFINE L == Len(stack)
           frame == Last(stack)
           n == frame.children[frame.next]
           N == Append(frame.walk, frame.next)
           called == [frame EXCEPT !.next = @ + 1]
           below == Append(Front(stack), called)
<1>1. stack \in Seq(Frame) /\ stack # <<>> /\ L \in Nat \ {0} /\ pc = "browse" /\ frame = stack[L]
  BY DEF TypeOK, BrowseChild, Last
<1>2. frame \in Frame
  BY <1>1
<1>3. frame.next \in DOMAIN frame.children
  <2>1. ~ Exhausted(frame)
    BY DEF BrowseChild
  <2> QED
    BY <1>2, <2>1 DEF Exhausted, Frame
<1>4. n \in Node
  BY <1>2, <1>3 DEF Frame
<1>5. Len(frame.walk) = L /\ On(frame.walk, L)
  BY <1>1 DEF StackInv
<1>6. N \in Walk /\ Len(N) = L + 1 /\ N[L+1] = frame.next /\ \A j \in 1..L : N[j] = frame.walk[j]
  BY <1>1, <1>2, <1>5 DEF Frame, Walk
<1>7. /\ called \in Frame
      /\ called.walk = frame.walk
      /\ called.children = frame.children
      /\ called.next = frame.next + 1
  BY <1>2 DEF Frame
<1>8. /\ below \in Seq(Frame)
      /\ Len(below) = L
      /\ below[L] = called
      /\ \A k \in 1..L : k # L => below[k] = stack[k]
  <2> HIDE DEF called
  <2>1. /\ Front(stack) \in Seq(Frame)
        /\ Len(Front(stack)) = L - 1
        /\ \A k \in 1..L-1 : Front(stack)[k] = stack[k]
    BY <1>1, FrontOf
  <2> HIDE DEF L
  <2> QED
    BY <1>1, <1>7, <2>1
<1>9. Called(n, N, below)
  <2>1. On(N, L)
    BY <1>1, <1>5, <1>6 DEF On
  <2>2. N[L+1] = Pos(L)
    BY <1>1, <1>6 DEF Pos
  <2>3. root' = root
    BY DEF BrowseChild
  <2>4. \A k \in 1..L :
       /\ below[k].walk = stack[k].walk
       /\ below[k].children = stack[k].children
       /\ below[k].next = IF k = L THEN stack[k].next + 1 ELSE stack[k].next
    <3> HIDE DEF called, below
    <3> QED
      BY <1>1, <1>7, <1>8
  <2> HIDE DEF n, N, below
  <2> QED
    BY <1>1, <1>4, <1>6, <1>8, <2>1, <2>2, <2>3, <2>4 DEF Called
<1>10. browse(n, N, below) /\ UNCHANGED <<server, config, pc, request>>
  BY DEF BrowseChild
<1>12. Chosen(n, N)
  <2>1. MaxNodePerParent > 0 => frame.next <= MaxNodePerParent + 2
    BY <1>2, NewAssumption DEF Frame, BrowseChild, Exhausted
  <2> QED
    BY <1>1, <1>3, <2>1 DEF Chosen
<1> HIDE DEF n, N, below
<1>11. Visited(n, N)
  BY <1>1, <1>4, <1>6, <1>8, <1>9, <1>10, <1>12, BrowseEffect
<1> QED
  BY <1>11 DEF n, N

-----------------------------------------------------------------------------
(* The other steps. *)
Returned ==
  /\ pc = "browse"
  /\ stack # <<>>
  /\ Exhausted(Last(stack))
  /\ stack' \in Seq(Frame)
  /\ Len(stack') = Len(stack) - 1
  /\ \A k \in 1..Len(stack') : stack'[k] = stack[k]
  /\ UNCHANGED <<server, config, pc, root, nodesToCollect, failed, request>>

Appended ==
  /\ pc = "append" /\ stack = <<>>
  /\ \E n \in Node :
       nodesToCollect' = Append(nodesToCollect, [ID |-> n, NodeId |-> NilNodeId, walk |-> <<root>>])
  /\ root' = root + 1
  /\ UNCHANGED <<server, config, pc, stack, failed, request>>

Elsewhere ==
  /\ UNCHANGED <<server, config, root, stack, nodesToCollect, failed>>
  /\ pc' \in Place
  /\ request' \in Seq(Node \union {NilNodeId})
  /\ pc' \notin {"browse", "crashed"} => stack = <<>>
  /\ pc' = "connect" => pc = "connect"
  /\ pc' = "browse" => pc \in {"connect", "browse"}

LEMMA RequestType ==
  ASSUME TypeOK, collectData
  PROVE  request' \in Seq(Node \union {NilNodeId})
<1>1. nodesToCollect \in Seq(Item)
  BY DEF TypeOK
<1>2. request' = [k \in 1..Len(nodesToCollect) |-> nodesToCollect[k].NodeId]
  BY <1>1 DEF collectData
<1>3. \A k \in 1..Len(nodesToCollect) : nodesToCollect[k].NodeId \in Node \union {NilNodeId}
  <2> SUFFICES ASSUME NEW k \in 1..Len(nodesToCollect)
               PROVE  nodesToCollect[k].NodeId \in Node \union {NilNodeId}
    OBVIOUS
  <2>1. nodesToCollect[k] \in Item
    BY <1>1
  <2> QED
    BY <2>1 DEF Item
<1> QED
  BY <1>1, <1>2, <1>3

LEMMA Steps ==
  ASSUME TypeOK, StackInv, [Next]_vars
  PROVE  (\E n \in Node, N \in Walk : Visited(n, N)) \/ Returned \/ Appended \/ Elsewhere
<1> USE DEF Goto
<1>1. CASE UNCHANGED vars
  <2>1. Elsewhere
    BY <1>1 DEF Elsewhere, vars, TypeOK, StackInv
  <2> QED
    BY <2>1
<1>2. CASE ConnectOk \/ ConnectFails
  <2>1. Elsewhere
    BY <1>2 DEF Elsewhere, ConnectOk, ConnectFails, TypeOK, StackInv, Place
  <2> QED
    BY <2>1
<1>3. CASE BrowseRoot
  <2>1. Visited(nodeObjsToBrowse[root], <<root>>)
    BY <1>3, RootVisited
  <2> QED
    BY <2>1 DEF Visited, Called
<1>4. CASE BrowseChild
  <2>1. Visited(Last(stack).children[Last(stack).next],
                Append(Last(stack).walk, Last(stack).next))
    BY <1>4, ChildVisited
  <2> QED
    BY <2>1 DEF Visited, Called
<1>5. CASE Return
  <2>1. stack \in Seq(Frame) /\ stack # <<>> /\ stack' = Front(stack)
    BY <1>5 DEF Return, TypeOK
  <2>2. /\ stack' \in Seq(Frame)
        /\ Len(stack') = Len(stack) - 1
        /\ \A k \in 1..Len(stack)-1 : stack'[k] = stack[k]
    BY <2>1, FrontOf
  <2>3. Returned
    BY <1>5, <2>2 DEF Return, Returned
  <2> QED
    BY <2>3
<1>6. CASE BrowsePanics
  <2>1. Elsewhere
    BY <1>6 DEF Elsewhere, BrowsePanics, TypeOK, Place
  <2> QED
    BY <2>1
<1>7. CASE AppendNode
  <2>1. config.nodes[root] \in Node
    <3>1. config.nodes \in Seq(Node \union {Unparsable}) /\ root \in 1..Len(config.nodes)
      BY <1>7, NewAssumption DEF TypeOK, AppendNode
    <3>2. config.nodes[root] \in Node \union {Unparsable}
      BY <3>1
    <3> QED
      BY <1>7, <3>2 DEF AppendNode
  <2>2. Appended
    BY <1>7, <2>1 DEF Appended, AppendNode, StackInv
  <2> QED
    BY <2>2
<1>8. CASE AppendFails
  <2>1. Elsewhere
    BY <1>8 DEF Elsewhere, AppendFails, TypeOK, StackInv, Place
  <2> QED
    BY <2>1
<1>9. CASE Finish
  <2>1. Elsewhere
    BY <1>9 DEF Elsewhere, Finish, Searched, TypeOK, StackInv, Place
  <2> QED
    BY <2>1
<1>10. CASE collectData
  <2>1. request' \in Seq(Node \union {NilNodeId})
    BY <1>10, RequestType
  <2>2. Elsewhere
    BY <1>10, <2>1 DEF Elsewhere, collectData, TypeOK, StackInv
  <2> QED
    BY <2>2
<1>11. CASE AppendPanics
  <2>1. Elsewhere
    BY <1>11 DEF Elsewhere, AppendPanics, TypeOK, StackInv, Place
  <2> QED
    BY <2>1
<1> QED
  BY <1>1, <1>2, <1>3, <1>4, <1>5, <1>6, <1>7, <1>8, <1>9, <1>10, <1>11
     DEF Next, New, startBrowse, appendNodeInformation

-----------------------------------------------------------------------------
LEMMA PosType ==
  TypeOK => \A k \in 0..Len(stack) : Pos(k) \in Nat \ {0}
<1> SUFFICES ASSUME TypeOK, NEW k \in 0..Len(stack) PROVE Pos(k) \in Nat \ {0}
  OBVIOUS
<1>1. CASE k = 0
  BY <1>1 DEF Pos, TypeOK
<1>2. CASE k # 0
  <2>1. stack[k] \in Frame
    BY <1>2 DEF TypeOK
  <2> QED
    BY <1>2, <2>1 DEF Pos, Frame
<1> QED
  BY <1>1, <1>2

(* A visit moves the innermost call, or startBrowse, on by one. *)
LEMMA PosVisited ==
  ASSUME TypeOK, NEW n \in Node, NEW N \in Walk, Visited(n, N)
  PROVE  /\ \A k \in 0..Len(stack) :
              Pos(k)' = IF k = Len(stack) THEN Pos(k) + 1 ELSE Pos(k)
         /\ ~ TooDeep(N) => Pos(Len(stack))' = 1
<1>1. PICK below \in Seq(Frame) : Called(n, N, below) /\ Left(N, below)
  BY DEF Visited
<1>2. stack \in Seq(Frame) /\ Len(stack) \in Nat
  BY DEF TypeOK
<1>3. ASSUME NEW k \in 0..Len(stack)
      PROVE  Pos(k)' = IF k = Len(stack) THEN Pos(k) + 1 ELSE Pos(k)
  <2>1. CASE k = 0
    <3>1. root' = IF stack = <<>> THEN root + 1 ELSE root
      BY <1>1 DEF Called
    <3> QED
      BY <1>2, <2>1, <3>1 DEF Pos
  <2>2. CASE k # 0
    <3>1. stack'[k] = below[k]
      BY <1>1, <2>2 DEF Left
    <3>2. below[k].next = IF k = Len(stack) THEN stack[k].next + 1 ELSE stack[k].next
      BY <1>1, <2>2 DEF Called
    <3> QED
      BY <2>2, <3>1, <3>2 DEF Pos
  <2> QED
    BY <2>1, <2>2
<1>4. ASSUME ~ TooDeep(N) PROVE Pos(Len(stack))' = 1
  <2>1. PICK errors : stack'[Len(stack) + 1] =
                        [walk |-> N, next |-> 1, children |-> findChildren(n, errors)]
    BY <1>4 DEF Visited, Asked
  <2>2. Len(stack') = Len(stack) + 1
    BY <1>1, <1>4 DEF Left
  <2> QED
    BY <1>2, <2>1, <2>2 DEF Pos
<1> QED
  BY <1>3, <1>4

LEMMA PosReturned ==
  ASSUME TypeOK, Returned
  PROVE  \A k \in 0..Len(stack') : Pos(k)' = Pos(k)
BY DEF Returned, Pos

LEMMA LeftLength ==
  ASSUME TypeOK, NEW n \in Node, NEW N \in Walk, Visited(n, N)
  PROVE  Len(stack') = IF TooDeep(N) THEN Len(stack) ELSE Len(stack) + 1
BY DEF Visited, Left

LEMMA OnVisited ==
  ASSUME TypeOK, NEW n \in Node, NEW N \in Walk, Visited(n, N), NEW w \in Walk,
         NEW k \in 0..Len(stack)
  PROVE  On(w, k)' <=> On(w, k)
<1>1. \A j \in 1..k : Pos(j-1)' = Pos(j-1)
  <2> SUFFICES ASSUME NEW j \in 1..k PROVE Pos(j-1)' = Pos(j-1)
    OBVIOUS
  <2>1. PICK i : i = j - 1
    OBVIOUS
  <2>2. i \in 0..Len(stack) /\ i # Len(stack)
    BY <2>1 DEF TypeOK
  <2> QED
    BY <2>1, <2>2, PosVisited
<1> QED
  BY <1>1 DEF On

LEMMA WalkType ==
  \A w \in Walk : Len(w) \in Nat /\ \A j \in 1..Len(w) : w[j] \in Nat \ {0}
BY DEF Walk

(* The walks that begin with N. *)
Through(w, N) == Len(N) <= Len(w) /\ \A j \in 1..Len(N) : w[j] = N[j]

LEMMA ThroughEqual ==
  ASSUME NEW v \in Walk, NEW w \in Walk, Through(w, v), Len(w) = Len(v)
  PROVE  w = v
<1>1. /\ w \in Seq(Nat \ {0}) /\ v \in Seq(Nat \ {0}) /\ Len(w) = Len(v)
      /\ \A j \in 1..Len(w) : w[j] = v[j]
  BY DEF Through, Walk
<1> QED
  BY <1>1, SeqEqual

(* What N is when it is called. *)
LEMMA ThroughCalled ==
  ASSUME TypeOK, NEW n \in Node, NEW N \in Walk, Visited(n, N), NEW w \in Walk
  PROVE  Through(w, N) <=> /\ Len(stack) < Len(w)
                           /\ On(w, Len(stack))
                           /\ w[Len(stack) + 1] = Pos(Len(stack))
<1>1. /\ Len(N) = Len(stack) + 1
      /\ On(N, Len(stack))
      /\ N[Len(stack) + 1] = Pos(Len(stack))
      /\ Len(stack) \in Nat /\ Len(w) \in Nat
  BY WalkType DEF Visited, Called, TypeOK
<1> QED
  BY <1>1 DEF Through, On

LEMMA OverVisited ==
  ASSUME TypeOK, NEW n \in Node, NEW N \in Walk, Visited(n, N), NEW w \in Walk
  PROVE  Over(w)' <=> Over(w) \/ IF TooDeep(N) THEN Through(w, N) ELSE w = N
<1>1. PICK L \in Nat : L = Len(stack)
  BY DEF TypeOK
<1>2. /\ \A k \in 0..L : Pos(k) \in Nat \ {0}
      /\ \A k \in 0..L : Pos(k)' = IF k = L THEN Pos(k) + 1 ELSE Pos(k)
      /\ \A k \in 0..L : On(w, k)' <=> On(w, k)
      /\ Len(w) \in Nat
  BY <1>1, PosType, PosVisited, OnVisited, WalkType
<1>3. Through(w, N) <=> L < Len(w) /\ On(w, L) /\ w[L+1] = Pos(L)
  BY <1>1, ThroughCalled
<1>4. (\A k \in 0..L : k < Len(w) /\ On(w, k)' => w[k+1] < Pos(k)')
         <=> Over(w) \/ Through(w, N)
  <2>1. ASSUME Over(w) \/ Through(w, N), NEW k \in 0..L, k < Len(w), On(w, k)'
        PROVE  w[k+1] < Pos(k)'
    <3>1. w[k+1] \in Nat \ {0}
      BY <1>2, <2>1, WalkType
    <3>2. CASE Over(w)
      BY <1>1, <1>2, <2>1, <3>1, <3>2 DEF Over
    <3>3. CASE Through(w, N) /\ k = L
      BY <1>2, <1>3, <3>3
    <3>4. CASE Through(w, N) /\ k # L
      <4>1. k+1 \in 1..L /\ (k+1)-1 = k
        BY <3>4
      <4>2. w[k+1] = Pos(k) - 1
        BY <1>3, <3>4, <4>1 DEF On
      <4> QED
        BY <1>2, <3>4, <4>2
    <3> QED
      BY <2>1, <3>2, <3>3, <3>4
  <2>2. ASSUME \A k \in 0..L : k < Len(w) /\ On(w, k)' => w[k+1] < Pos(k)',
               ~ Over(w)
        PROVE  Through(w, N)
    <3>1. PICK k \in 0..L : k < Len(w) /\ On(w, k) /\ ~ (w[k+1] < Pos(k))
      BY <1>1, <2>2 DEF Over
    <3>2. w[k+1] \in Nat \ {0}
      BY <1>2, <3>1, WalkType
    <3>3. k = L /\ w[k+1] = Pos(k)
      BY <1>2, <2>2, <3>1, <3>2
    <3> QED
      BY <1>3, <3>1, <3>3
  <2> QED
    BY <2>1, <2>2
<1>5. CASE TooDeep(N)
  <2>1. Len(stack') = L
    BY <1>1, <1>5, LeftLength
  <2>2. Over(w)' <=> \A k \in 0..L : k < Len(w) /\ On(w, k)' => w[k+1] < Pos(k)'
    BY <2>1 DEF Over
  <2> QED
    BY <1>4, <1>5, <2>2
<1>6. CASE ~ TooDeep(N)
  <2>1. Len(stack') = L + 1 /\ Len(N) = L + 1
    BY <1>1, <1>6, LeftLength DEF Visited, Called
  <2>2. Pos(L + 1)' = 1
    <3>1. Pos(Len(stack))' = 1
      BY <1>6, PosVisited
    <3> QED
      BY <2>1, <3>1
  <2>3. Over(w)' <=> /\ \A k \in 0..L : k < Len(w) /\ On(w, k)' => w[k+1] < Pos(k)'
                     /\ L + 1 < Len(w) /\ On(w, L + 1)' => w[L+2] < Pos(L + 1)'
    <3>1. 0..(L+1) = 0..L \union {L+1} /\ (L+1)+1 = L+2
      OBVIOUS
    <3> QED
      BY <2>1, <3>1 DEF Over
  <2>4. On(w, L + 1)' <=> Through(w, N)
    <3>1. On(w, L + 1)' <=> L + 1 <= Len(w) /\ \A j \in 1..L+1 : w[j] = Pos(j-1)' - 1
      BY DEF On
    <3>2. On(w, L)' <=> L <= Len(w) /\ \A j \in 1..L : w[j] = Pos(j-1)' - 1
      BY DEF On
    <3>3. 1..(L+1) = 1..L \union {L+1} /\ (L+1)-1 = L
      OBVIOUS
    <3>4. (\A j \in 1..L+1 : w[j] = Pos(j-1)' - 1)
            <=> (\A j \in 1..L : w[j] = Pos(j-1)' - 1) /\ w[L+1] = Pos(L)' - 1
      BY <3>3
    <3>5. On(w, L + 1)' <=> L + 1 <= Len(w) /\ On(w, L)' /\ w[L+1] = Pos(L)' - 1
      BY <1>2, <3>1, <3>2, <3>4
    <3>6. Pos(L) \in Nat \ {0} /\ Pos(L)' = Pos(L) + 1 /\ (On(w, L)' <=> On(w, L))
      BY <1>2
    <3>7. On(w, L + 1)' <=> L + 1 <= Len(w) /\ On(w, L) /\ w[L+1] = Pos(L)
      BY <3>5, <3>6
    <3> QED
      BY <1>2, <1>3, <3>7
  <2>5. L + 1 < Len(w) => w[L+2] \in Nat \ {0}
    BY <1>2, WalkType
  <2>6. Over(w) => ~ Through(w, N)
    BY <1>1, <1>2, <1>3 DEF Over
  <2>7. Through(w, N) /\ Len(w) = L + 1 <=> w = N
    BY <2>1, ThroughEqual DEF Through
  <2>8. Through(w, N) => L + 1 <= Len(w)
    BY <2>1 DEF Through
  <2> QED
    BY <1>2, <1>4, <1>6, <2>2, <2>3, <2>4, <2>5, <2>6, <2>7, <2>8
<1> QED
  BY <1>5, <1>6

LEMMA OnReturned ==
  ASSUME TypeOK, Returned, NEW w \in Walk, NEW k \in 0..Len(stack')
  PROVE  On(w, k)' <=> On(w, k)
<1>1. \A j \in 1..k : Pos(j-1)' = Pos(j-1)
  <2> SUFFICES ASSUME NEW j \in 1..k PROVE Pos(j-1)' = Pos(j-1)
    OBVIOUS
  <2>1. PICK i : i = j - 1
    OBVIOUS
  <2>2. i \in 0..Len(stack')
    BY <2>1 DEF Returned
  <2> QED
    BY <2>1, <2>2, PosReturned
<1> QED
  BY <1>1 DEF On

(* A return ends the walks that would have gone on from the call. *)
LEMMA OverReturned ==
  ASSUME TypeOK, Returned, NEW w \in Walk
  PROVE  Over(w)' <=> \/ Over(w)
                      \/ /\ Len(stack) < Len(w)
                         /\ On(w, Len(stack))
                         /\ w[Len(stack) + 1] >= Pos(Len(stack))
<1>1. PICK L \in Nat : L = Len(stack) /\ L # 0 /\ Len(stack') = L - 1
  BY DEF TypeOK, Returned
<1>2. /\ \A k \in 0..L : Pos(k) \in Nat \ {0}
      /\ \A k \in 0..L-1 : Pos(k)' = Pos(k)
      /\ \A k \in 0..L-1 : On(w, k)' <=> On(w, k)
      /\ Len(w) \in Nat
      /\ \A j \in 1..Len(w) : w[j] \in Nat \ {0}
  BY <1>1, PosType, PosReturned, OnReturned, WalkType
<1>3. Over(w)' <=> \A k \in 0..L-1 : k < Len(w) /\ On(w, k) => w[k+1] < Pos(k)
  BY <1>1, <1>2 DEF Over
<1>4. Over(w) <=> /\ \A k \in 0..L-1 : k < Len(w) /\ On(w, k) => w[k+1] < Pos(k)
                  /\ L < Len(w) /\ On(w, L) => w[L+1] < Pos(L)
  <2>1. 0..L = 0..(L-1) \union {L}
    BY <1>1
  <2> QED
    BY <1>1, <2>1 DEF Over
<1>5. ASSUME L < Len(w), On(w, L), NEW k \in 0..L-1
      PROVE  w[k+1] < Pos(k)
  <2>1. k+1 \in 1..L /\ (k+1)-1 = k /\ k \in 0..L
    BY <1>5
  <2>2. w[k+1] = Pos(k) - 1
    BY <1>5, <2>1 DEF On
  <2> QED
    BY <1>2, <2>1, <2>2
<1>6. L < Len(w) => w[L+1] \in Nat \ {0} /\ Pos(L) \in Nat
  BY <1>2
<1> QED
  BY <1>1, <1>3, <1>4, <1>5, <1>6

-----------------------------------------------------------------------------
(* What a visit collects: at most its node, on its walk. *)
ItemOf(n, N) == [ID |-> n, NodeId |-> n, walk |-> N]

LEMMA CollectedVisited ==
  ASSUME TypeOK, NEW n \in Node, NEW N \in Walk, Visited(n, N)
  PROVE  \/ nodesToCollect' = nodesToCollect
         \/ ~ TooDeep(N) /\ nodesToCollect' = Append(nodesToCollect, ItemOf(n, N))
<1>1. CASE TooDeep(N)
  BY <1>1 DEF Visited, Left
<1>2. CASE ~ TooDeep(N)
  <2>1. PICK errors \in SUBSET {"attributes", "children"} :
          nodesToCollect' = nodesToCollect \o
            IF "attributes" \in errors THEN <<>> ELSE Found(n, N)
    BY <1>2 DEF Visited, Asked
  <2>2. nodesToCollect \in Seq(Item)
    BY DEF TypeOK
  <2>3. PICK item : item = ItemOf(n, N)
    OBVIOUS
  <2>4. item \in Item
    BY <2>3 DEF ItemOf, Item
  <2>5. /\ nodesToCollect \o <<>> = nodesToCollect
        /\ nodesToCollect \o <<item>> = Append(nodesToCollect, item)
    <3>1. nodesToCollect \o <<item>> = Append(nodesToCollect, item)
      BY <2>2, <2>4, AppendIsConcat
    <3>2. nodesToCollect \o <<>> = nodesToCollect
      BY <2>2
    <3> QED
      BY <3>1, <3>2
  <2>6. Found(n, N) \in {<<>>, <<item>>}
    BY <2>3 DEF Found, ItemOf
  <2> QED
    BY <1>2, <2>1, <2>3, <2>5, <2>6
<1> QED
  BY <1>1, <1>2

LEMMA ItemsType ==
  ASSUME TypeOK, NEW item \in Item, nodesToCollect' = Append(nodesToCollect, item)
  PROVE  /\ nodesToCollect' \in Seq(Item)
         /\ Len(nodesToCollect) \in Nat
         /\ Len(nodesToCollect') = Len(nodesToCollect) + 1
         /\ nodesToCollect'[Len(nodesToCollect) + 1] = item
         /\ \A i \in 1..Len(nodesToCollect) : nodesToCollect'[i] = nodesToCollect[i]
BY DEF TypeOK

LEMMA FailedVisited ==
  ASSUME TypeOK, NEW n \in Node, NEW N \in Walk, Visited(n, N)
  PROVE  failed' \subseteq [walk : Walk, of : {"attributes", "children"}]
<1>1. CASE TooDeep(N)
  BY <1>1 DEF Visited, Left, TypeOK
<1>2. CASE ~ TooDeep(N)
  <2>1. PICK errors \in SUBSET {"attributes", "children"} :
          failed' = failed \union {[walk |-> N, of |-> e] : e \in errors}
    BY <1>2 DEF Visited, Asked
  <2>2. failed \subseteq [walk : Walk, of : {"attributes", "children"}]
    BY DEF TypeOK
  <2>3. \A e \in errors : [walk |-> N, of |-> e] \in [walk : Walk, of : {"attributes", "children"}]
    OBVIOUS
  <2> QED
    BY <2>1, <2>2, <2>3
<1> QED
  BY <1>1, <1>2

LEMMA TypeVisited ==
  ASSUME TypeOK, NEW n \in Node, NEW N \in Walk, Visited(n, N)
  PROVE  TypeOK'
<1>1. nodesToCollect' \in Seq(Item)
  <2>1. ItemOf(n, N) \in Item
    BY DEF ItemOf, Item
  <2>2. nodesToCollect \in Seq(Item)
    BY DEF TypeOK
  <2> QED
    BY <2>1, <2>2, CollectedVisited, ItemsType
<1>2. failed' \subseteq [walk : Walk, of : {"attributes", "children"}]
  BY FailedVisited
<1>3. MaxLevel > 0 => Len(stack') <= MaxLevel + 1
  <2>1. Len(N) = Len(stack) + 1 /\ Len(stack) \in Nat /\ MaxLevel \in Nat
    BY NewAssumption DEF Visited, Called, TypeOK
  <2>2. CASE TooDeep(N)
    BY <2>1, <2>2, LeftLength DEF TypeOK
  <2>3. CASE ~ TooDeep(N)
    <3>1. Len(stack') = Len(N)
      BY <2>1, <2>3, LeftLength
    <3>2. MaxLevel > 0 => Len(N) - 1 <= MaxLevel
      BY <2>1, <2>3 DEF TooDeep, Level
    <3> QED
      BY <2>1, <3>1, <3>2
  <2> QED
    BY <2>2, <2>3
<1>4. root' \in Nat \ {0}
  <2>1. root' = IF stack = <<>> THEN root + 1 ELSE root
    BY DEF Visited, Called
  <2>2. root \in Nat \ {0}
    BY DEF TypeOK
  <2> QED
    BY <2>1, <2>2
<1>5. stack' \in Seq(Frame) /\ UNCHANGED <<server, config, pc, request>>
  BY DEF Visited
<1> QED
  BY <1>1, <1>2, <1>3, <1>4, <1>5 DEF TypeOK, server

LEMMA TypeNext == TypeOK /\ StackInv /\ [Next]_vars => TypeOK'
<1> SUFFICES ASSUME TypeOK, StackInv, [Next]_vars PROVE TypeOK'
  OBVIOUS
<1>1. ASSUME NEW n \in Node, NEW N \in Walk, Visited(n, N) PROVE TypeOK'
  BY <1>1, TypeVisited
<1>2. CASE Returned
  <2>1. Len(stack) \in Nat /\ MaxLevel \in Nat
    BY NewAssumption DEF TypeOK
  <2> QED
    BY <1>2, <2>1 DEF Returned, TypeOK, server
<1>3. CASE Appended
  <2>1. PICK n \in Node : nodesToCollect' =
          Append(nodesToCollect, [ID |-> n, NodeId |-> NilNodeId, walk |-> <<root>>])
    BY <1>3 DEF Appended
  <2>2. [ID |-> n, NodeId |-> NilNodeId, walk |-> <<root>>] \in Item
    BY DEF Item, Walk, TypeOK
  <2>3. nodesToCollect' \in Seq(Item)
    BY <2>1, <2>2, ItemsType
  <2>4. root' \in Nat \ {0}
    BY <1>3 DEF Appended, TypeOK
  <2> QED
    BY <1>3, <2>3, <2>4 DEF Appended, TypeOK, server
<1>4. CASE Elsewhere
  BY <1>4 DEF Elsewhere, TypeOK, server
<1> QED
  BY <1>1, <1>2, <1>3, <1>4, Steps

LEMMA FrameOf ==
  ASSUME TypeOK, StackInv, NEW k \in 1..Len(stack)
  PROVE  /\ stack[k] \in Frame
         /\ stack[k].walk \in Walk
         /\ Len(stack[k].walk) = k
         /\ On(stack[k].walk, k)
<1>1. stack \in Seq(Frame)
  BY DEF TypeOK
<1>2. stack[k] \in Frame
  BY <1>1
<1>3. k \in DOMAIN stack
  BY <1>1
<1> QED
  BY <1>2, <1>3 DEF StackInv, Frame

LEMMA StackNext == TypeOK /\ StackInv /\ [Next]_vars => StackInv'
<1> SUFFICES ASSUME TypeOK, StackInv, [Next]_vars PROVE StackInv'
  OBVIOUS
<1>0. stack \in Seq(Frame) /\ Len(stack) \in Nat
  BY DEF TypeOK
<1>1. ASSUME NEW n \in Node, NEW N \in Walk, Visited(n, N) PROVE StackInv'
  <2>1. pc' = "browse" /\ stack' \in Seq(Frame)
    BY <1>1 DEF Visited
  <2>2. PICK below \in Seq(Frame) : Called(n, N, below) /\ Left(N, below)
    BY <1>1 DEF Visited
  <2>3. ASSUME NEW k \in DOMAIN stack' PROVE (Len(stack[k].walk) = k /\ On(stack[k].walk, k))'
    <3>1. CASE k \in 1..Len(stack)
      <4>1. PICK w : w = stack[k].walk
        OBVIOUS
      <4>2. w \in Walk /\ Len(w) = k /\ On(w, k)
        BY <3>1, <4>1, FrameOf
      <4>3. stack'[k].walk = w
        BY <2>2, <3>1, <4>1 DEF Called, Left
      <4>4. On(w, k)'
        <5>1. k \in 0..Len(stack)
          BY <1>0, <3>1
        <5> QED
          BY <1>1, <4>2, <5>1, OnVisited
      <4> QED
        BY <4>2, <4>3, <4>4
    <3>2. CASE k \notin 1..Len(stack)
      <4>1. Len(stack') = Len(stack) + 1 /\ ~ TooDeep(N) /\ k = Len(stack) + 1
        BY <1>0, <1>1, <2>1, <3>2, LeftLength
      <4>2. stack'[k].walk = N /\ Len(N) = k
        <5>1. PICK errors : stack'[Len(stack) + 1] =
                              [walk |-> N, next |-> 1, children |-> findChildren(n, errors)]
          BY <1>1, <4>1 DEF Visited, Asked
        <5> QED
          BY <2>2, <4>1, <5>1 DEF Called
      <4>3. On(N, k)'
        <5>1. PICK L \in Nat : L = Len(stack)
          BY <1>0
        <5>2. On(N, L) /\ N[L+1] = Pos(L)
          BY <2>2, <5>1 DEF Called
        <5>3. On(N, L)'
          BY <1>1, <5>1, <5>2, OnVisited
        <5>4. \A j \in 1..L : N[j] = Pos(j-1)' - 1
          BY <5>3 DEF On
        <5>5. Pos(L)' = Pos(L) + 1 /\ Pos(L) \in Nat
          BY <1>1, <5>1, PosVisited, PosType
        <5>6. \A j \in 1..k : N[j] = Pos(j-1)' - 1
          <6>1. 1..k = 1..L \union {L+1} /\ (L+1)-1 = L
            BY <4>1, <5>1
          <6>2. N[L+1] = Pos((L+1)-1)' - 1
            BY <5>2, <5>5, <6>1
          <6> QED
            BY <5>4, <6>1, <6>2
        <5> QED
          BY <4>2, <5>6 DEF On
      <4> QED
        BY <4>2, <4>3
    <3> QED
      BY <3>1, <3>2
  <2> QED
    BY <2>1, <2>3 DEF StackInv
<1>2. CASE Returned
  <2>1. /\ pc' = "browse"
        /\ Len(stack') = Len(stack) - 1
        /\ stack' \in Seq(Frame)
        /\ \A k \in 1..Len(stack') : stack'[k] = stack[k]
    BY <1>2 DEF Returned
  <2>2. ASSUME NEW k \in DOMAIN stack' PROVE (Len(stack[k].walk) = k /\ On(stack[k].walk, k))'
    <3>1. PICK w : w = stack[k].walk
      OBVIOUS
    <3>2. k \in 1..Len(stack') /\ k \in 0..Len(stack') /\ k \in 1..Len(stack)
      BY <1>0, <2>1
    <3>3. w \in Walk /\ Len(w) = k /\ On(w, k)
      BY <3>1, <3>2, FrameOf
    <3>4. On(w, k)'
      BY <1>2, <3>2, <3>3, OnReturned
    <3> QED
      BY <2>1, <3>1, <3>2, <3>3, <3>4
  <2> QED
    BY <2>1, <2>2 DEF StackInv
<1>3. CASE Appended
  <2>1. stack' = <<>>
    BY <1>3 DEF Appended
  <2> QED
    BY <2>1 DEF StackInv
<1>4. CASE Elsewhere
  BY <1>4 DEF Elsewhere, StackInv, On, Pos
<1> QED
  BY <1>1, <1>2, <1>3, <1>4, Steps

-----------------------------------------------------------------------------
(* A walk that is over comes before the walk that is next: they differ first where
   the former has left the way, or the former is a part of the way. *)
LEMMA OverBefore ==
  ASSUME TypeOK, NEW w \in Walk, Over(w), NEW N \in Walk,
         Len(N) = Len(stack) + 1, On(N, Len(stack)), N[Len(stack) + 1] = Pos(Len(stack))
  PROVE  Before(w, N)
<1>1. PICK L \in Nat : L = Len(stack)
  BY DEF TypeOK
<1>2. /\ Len(w) \in Nat /\ DOMAIN w = 1..Len(w)
      /\ DOMAIN N = 1..L+1 /\ Len(N) = L + 1
      /\ \A j \in 1..Len(w) : w[j] \in Nat
      /\ \A k \in 0..L : Pos(k) \in Nat
  BY <1>1, PosType DEF Walk
<1>3. \A j \in 1..L : N[j] = Pos(j-1) - 1
  BY <1>1 DEF On
<1>4. \A k \in 0..L : N[k+1] <= Pos(k)
  <2> SUFFICES ASSUME NEW k \in 0..L PROVE N[k+1] <= Pos(k)
    OBVIOUS
  <2>1. CASE k = L
    BY <1>1, <1>2, <2>1
  <2>2. CASE k # L
    <3>1. k+1 \in 1..L /\ (k+1)-1 = k
      BY <2>2
    <3>2. N[k+1] = Pos(k) - 1
      BY <1>3, <3>1
    <3> QED
      BY <1>2, <3>2
  <2> QED
    BY <2>1, <2>2
<1> DEFINE T == {k \in Nat : k < Len(w) /\ k <= L /\ w[k+1] # N[k+1]}
<1>5. CASE T = {}
  <2>1. \A j \in Nat \ {0} : j <= Len(w) /\ j <= L + 1 => w[j] = N[j]
    <3> SUFFICES ASSUME NEW j \in Nat \ {0}, j <= Len(w), j <= L + 1, w[j] # N[j]
                 PROVE  FALSE
      OBVIOUS
    <3>1. j-1 \in T /\ (j-1)+1 = j
      BY <1>2
    <3> QED
      BY <1>5, <3>1
  <2>2. Len(w) <= L
    <3> SUFFICES ASSUME L < Len(w) PROVE FALSE
      BY <1>2
    <3>1. \A j \in 1..L+1 : w[j] = N[j]
      BY <1>2, <2>1
    <3>2. On(w, L)
      BY <1>2, <1>3, <3>1 DEF On
    <3>3. w[L+1] < Pos(L)
      BY <1>1, <3>2 DEF Over
    <3>4. w[L+1] = Pos(L)
      BY <1>1, <3>1
    <3> QED
      BY <1>2, <3>3, <3>4
  <2>3. \A j \in 1..Len(w) : w[j] = N[j]
    BY <1>2, <2>1, <2>2
  <2>4. SubSeq(w, 1, Len(w)) = SubSeq(N, 1, Len(w))
    <3>1. /\ \A j \in 1..Len(w) : w[j] \in Nat \ {0}
          /\ \A j \in 1..Len(w) : N[j] \in Nat \ {0}
      BY <2>3, WalkType
    <3>2. /\ SubSeq(w, 1, Len(w)) \in Seq(Nat \ {0})
          /\ Len(SubSeq(w, 1, Len(w))) = Len(w)
          /\ \A j \in 1..Len(w) : SubSeq(w, 1, Len(w))[j] = w[j]
      BY <1>2, <3>1, SubSeqProperties
    <3>3. /\ SubSeq(N, 1, Len(w)) \in Seq(Nat \ {0})
          /\ Len(SubSeq(N, 1, Len(w))) = Len(w)
          /\ \A j \in 1..Len(w) : SubSeq(N, 1, Len(w))[j] = N[j]
      BY <1>2, <3>1, SubSeqProperties
    <3> HIDE <3>1
    <3> QED
      BY <2>3, <3>2, <3>3, SeqEqual
  <2>5. w # N
    BY <1>2, <2>2
  <2> QED
    BY <1>2, <2>2, <2>4, <2>5 DEF Before, IsStrictPrefix, IsPrefix
<1>6. CASE T # {}
  <2>1. PICK m \in T : \A k \in T : m <= k
    <3>1. T \in SUBSET Nat
      OBVIOUS
    <3> HIDE DEF T
    <3> QED
      BY <1>6, <3>1, SmallestElement
  <2>2. m \in Nat /\ m < Len(w) /\ m <= L /\ w[m+1] # N[m+1]
    OBVIOUS
  <2>3. \A j \in 1..m : w[j] = N[j]
    <3> SUFFICES ASSUME NEW j \in 1..m, w[j] # N[j] PROVE FALSE
      OBVIOUS
    <3>1. j-1 \in T /\ (j-1)+1 = j
      BY <1>2, <2>2
    <3> QED
      BY <2>1, <3>1
  <2>4. On(w, m)
    BY <1>2, <1>3, <2>2, <2>3 DEF On
  <2>5. w[m+1] < Pos(m)
    BY <1>1, <2>2, <2>4 DEF Over
  <2>6. w[m+1] < N[m+1]
    <3>1. CASE m = L
      BY <1>1, <2>5, <3>1
    <3>2. CASE m # L
      <4>1. m+1 \in 1..L /\ (m+1)-1 = m
        BY <2>2, <3>2
      <4>2. N[m+1] = Pos(m) - 1
        BY <1>3, <4>1
      <4>3. w[m+1] \in Nat /\ Pos(m) \in Nat
        BY <1>2, <2>2
      <4> QED
        BY <2>2, <2>5, <4>2, <4>3
    <3> QED
      BY <3>1, <3>2
  <2>7. m+1 \in DOMAIN w \intersect DOMAIN N /\ \A l \in 1..(m+1)-1 : w[l] = N[l]
    BY <1>2, <2>2, <2>3
  <2> QED
    BY <2>6, <2>7 DEF Before
<1> QED
  BY <1>5, <1>6

-----------------------------------------------------------------------------
LEMMA ItemOfCollected ==
  ASSUME TypeOK, NEW i \in DOMAIN nodesToCollect
  PROVE  nodesToCollect[i] \in Item /\ nodesToCollect[i].walk \in Walk
<1>1. nodesToCollect \in Seq(Item)
  BY DEF TypeOK
<1>2. nodesToCollect[i] \in Item
  BY <1>1
<1> QED
  BY <1>2 DEF Item

(* Every item that a step adds is at the end, and its walk is the next one. *)
LEMMA CollectedNext ==
  ASSUME TypeOK, StackInv, CollectedIsOver, CollectedInOrder, [Next]_vars
  PROVE  CollectedIsOver' /\ CollectedInOrder'
<1>0. Len(nodesToCollect) \in Nat /\ DOMAIN nodesToCollect = 1..Len(nodesToCollect)
  <2>1. nodesToCollect \in Seq(Item)
    BY DEF TypeOK
  <2> QED
    BY <2>1
<1>1. ASSUME \A w \in Walk : Over(w) => Over(w)', nodesToCollect' = nodesToCollect
      PROVE  CollectedIsOver' /\ CollectedInOrder'
  <2>1. \A i \in DOMAIN nodesToCollect : Over(nodesToCollect[i].walk)'
    <3> SUFFICES ASSUME NEW i \in DOMAIN nodesToCollect PROVE Over(nodesToCollect[i].walk)'
      OBVIOUS
    <3>1. PICK w : w = nodesToCollect[i].walk
      OBVIOUS
    <3>2. w \in Walk /\ Over(w)
      BY <3>1, ItemOfCollected DEF CollectedIsOver
    <3>3. Over(w)'
      BY <1>1, <3>2
    <3> QED
      BY <1>1, <3>1, <3>3
  <2> QED
    BY <1>1, <2>1 DEF CollectedIsOver, CollectedInOrder
<1>2. ASSUME \A w \in Walk : Over(w) => Over(w)',
             NEW item \in Item, nodesToCollect' = Append(nodesToCollect, item),
             item.walk # <<>>, Over(item.walk)',
             \A w \in Walk : Over(w) => Before(w, item.walk)
      PROVE  CollectedIsOver' /\ CollectedInOrder'
  <2>1. PICK n \in Nat : n = Len(nodesToCollect)
    BY <1>0
  <2>2. /\ DOMAIN nodesToCollect' = 1..n+1
        /\ nodesToCollect'[n+1] = item
        /\ \A i \in 1..n : nodesToCollect'[i] = nodesToCollect[i]
    BY <1>2, <2>1, ItemsType
  <2>3. \A i \in 1..n : /\ nodesToCollect[i].walk \in Walk
                        /\ nodesToCollect[i].walk # <<>>
                        /\ Over(nodesToCollect[i].walk)
    BY <1>0, <2>1, ItemOfCollected DEF CollectedIsOver
  <2>4. ASSUME NEW i \in DOMAIN nodesToCollect'
        PROVE  (nodesToCollect[i].walk # <<>> /\ Over(nodesToCollect[i].walk))'
    <3>1. CASE i \in 1..n
      <4>1. PICK w : w = nodesToCollect[i].walk
        OBVIOUS
      <4>2. w \in Walk /\ w # <<>> /\ Over(w)'
        BY <1>2, <2>3, <3>1, <4>1
      <4> QED
        BY <2>2, <3>1, <4>1, <4>2
    <3>2. CASE i = n+1
      BY <1>2, <2>2, <3>2
    <3> QED
      BY <2>1, <2>2, <3>1, <3>2
  <2>5. ASSUME NEW i \in DOMAIN nodesToCollect', NEW j \in DOMAIN nodesToCollect', i < j
        PROVE  Before(nodesToCollect'[i].walk, nodesToCollect'[j].walk)
    <3>1. CASE j \in 1..n
      <4>1. i \in 1..n
        BY <2>1, <2>2, <2>5, <3>1
      <4>2. Before(nodesToCollect[i].walk, nodesToCollect[j].walk)
        BY <1>0, <2>1, <2>5, <3>1, <4>1 DEF CollectedInOrder
      <4> QED
        BY <2>2, <3>1, <4>1, <4>2
    <3>2. CASE j = n+1
      <4>1. i \in 1..n
        BY <2>1, <2>2, <2>5, <3>2
      <4>2. Before(nodesToCollect[i].walk, item.walk)
        BY <1>2, <2>3, <4>1
      <4> QED
        BY <2>2, <3>2, <4>1, <4>2
    <3> QED
      BY <2>1, <2>2, <3>1, <3>2
  <2> QED
    BY <2>4, <2>5 DEF CollectedIsOver, CollectedInOrder
<1>3. ASSUME NEW n \in Node, NEW N \in Walk, Visited(n, N)
      PROVE  CollectedIsOver' /\ CollectedInOrder'
  <2>1. \A w \in Walk : Over(w) => Over(w)'
    BY <1>3, OverVisited
  <2>2. CASE nodesToCollect' = nodesToCollect
    BY <1>1, <2>1, <2>2
  <2>3. CASE ~ TooDeep(N) /\ nodesToCollect' = Append(nodesToCollect, ItemOf(n, N))
    <3>1. ItemOf(n, N) \in Item /\ ItemOf(n, N).walk = N
      BY DEF ItemOf, Item
    <3>2. /\ Len(N) = Len(stack) + 1
          /\ On(N, Len(stack))
          /\ N[Len(stack) + 1] = Pos(Len(stack))
      BY <1>3 DEF Visited, Called
    <3>3. N # <<>>
      BY <3>2 DEF TypeOK
    <3>4. Over(N)'
      BY <1>3, <2>3, OverVisited
    <3>5. \A w \in Walk : Over(w) => Before(w, N)
      BY <3>2, OverBefore
    <3>6. Over(ItemOf(n, N).walk)'
      BY <3>1, <3>4
    <3> HIDE DEF ItemOf
    <3> QED
      BY <1>2, <2>1, <2>3, <3>1, <3>3, <3>5, <3>6
  <2> QED
    BY <1>3, <2>2, <2>3, CollectedVisited
<1>4. CASE Returned
  <2>1. \A w \in Walk : Over(w) => Over(w)'
    BY <1>4, OverReturned
  <2> QED
    BY <1>1, <1>4, <2>1 DEF Returned
<1>5. CASE Appended
  <2>1. PICK N : N = <<root>>
    OBVIOUS
  <2>2. PICK n \in Node :
          nodesToCollect' = Append(nodesToCollect, [ID |-> n, NodeId |-> NilNodeId, walk |-> N])
    BY <1>5, <2>1 DEF Appended
  <2>3. PICK item : item = [ID |-> n, NodeId |-> NilNodeId, walk |-> N]
    OBVIOUS
  <2>4. root \in Nat \ {0} /\ stack = <<>> /\ stack' = <<>> /\ root' = root + 1 /\ Len(stack) = 0
    BY <1>5 DEF Appended, TypeOK
  <2>5. N \in Walk /\ Len(N) = 1 /\ N[1] = root /\ N # <<>>
    BY <2>1, <2>4 DEF Walk
  <2>6. item \in Item /\ item.walk = N
    BY <2>3, <2>5 DEF Item
  <2>7. ASSUME NEW w \in Walk
        PROVE  /\ On(w, 0)
               /\ Over(w) <=> (0 < Len(w) => w[1] < root)
               /\ Over(w)' <=> (0 < Len(w) => w[1] < root + 1)
    <3>1. On(w, 0) /\ On(w, 0)'
      BY WalkType DEF On
    <3>2. Over(w) <=> (0 < Len(w) /\ On(w, 0) => w[1] < root)
      BY <2>4 DEF Over, Pos
    <3>3. Over(w)' <=> (0 < Len(w) /\ On(w, 0)' => w[1] < root + 1)
      BY <2>4 DEF Over, Pos
    <3> QED
      BY <3>1, <3>2, <3>3
  <2>10. \A w \in Walk : Over(w) => Over(w)'
    <3> SUFFICES ASSUME NEW w \in Walk, Over(w), 0 < Len(w) PROVE w[1] < root + 1
      BY <2>7
    <3>1. Len(w) \in Nat /\ w[1] \in Nat /\ w[1] < root
      BY <2>7, WalkType
    <3> QED
      BY <2>4, <3>1
  <2>11. Over(N)'
    <3>1. N[1] < root + 1
      BY <2>4, <2>5
    <3> QED
      BY <2>5, <2>7, <3>1
  <2>12. \A w \in Walk : Over(w) => Before(w, N)
    <3>1. On(N, 0) /\ N[Len(stack) + 1] = Pos(Len(stack))
      BY <2>4, <2>5, <2>7 DEF Pos
    <3> QED
      BY <2>4, <2>5, <3>1, OverBefore
  <2>13. Over(item.walk)'
    BY <2>6, <2>11
  <2> QED
    BY <1>2, <2>2, <2>3, <2>5, <2>6, <2>10, <2>12, <2>13
<1>6. CASE Elsewhere
  <2>1. \A w \in Walk : Over(w) => Over(w)'
    BY <1>6 DEF Elsewhere, Over, On, Pos
  <2> QED
    BY <1>1, <1>6, <2>1 DEF Elsewhere
<1> QED
  BY <1>3, <1>4, <1>5, <1>6, Steps

-----------------------------------------------------------------------------
LEMMA WalkInit == Init => WalkInv
<1> SUFFICES ASSUME Init PROVE WalkInv
  OBVIOUS
<1>1. TypeOK
  <2>1. children \in [Node -> Seq(Node)] /\ kind \in [Node -> {"data", "folder"}]
    <3>1. CASE config.browse
      BY <3>1, NewAssumption DEF Init
    <3>2. CASE ~ config.browse
      <4>1. children = [n \in Node |-> <<>>] /\ kind = [n \in Node |-> "data"]
        BY <3>2 DEF Init
      <4>2. <<>> \in Seq(Node)
        OBVIOUS
      <4> QED
        BY <4>1, <4>2
    <3> QED
      BY <3>1, <3>2
  <2>2. /\ config \in [browse : BOOLEAN, subscribe : BOOLEAN, nodes : NodeLists]
        /\ pc \in Place
    BY DEF Init, Place
  <2>3. root \in Nat \ {0} /\ failed = {}
    BY DEF Init
  <2>4. /\ stack \in Seq(Frame) /\ Len(stack) = 0
        /\ nodesToCollect \in Seq(Item)
        /\ request \in Seq(Node \union {NilNodeId})
    BY DEF Init
  <2> QED
    BY <2>1, <2>2, <2>3, <2>4, NewAssumption DEF TypeOK
<1>2. StackInv
  BY DEF Init, StackInv
<1>3. CollectedIsOver /\ CollectedInOrder
  BY DEF Init, CollectedIsOver, CollectedInOrder
<1> QED
  BY <1>1, <1>2, <1>3 DEF WalkInv

LEMMA WalkInvariance == Spec => []WalkInv
<1>1. WalkInv /\ [Next]_vars => WalkInv'
  BY TypeNext, StackNext, CollectedNext DEF WalkInv
<1> QED
  BY <1>1, WalkInit, PTL DEF Spec

(* New keeps to its types, and its calls of browse are not nested deeper than
   browse.maxLevel allows, whatever graph the server shows and whichever of its
   requests fail. *)
THEOREM TypeCorrect == Spec => []TypeOK
<1>1. WalkInv => TypeOK
  BY DEF WalkInv
<1> QED
  BY <1>1, WalkInvariance, PTL

(* What New collects is in the order of the walks to it, parents before children
   and children in the server's order; no walk is collected twice. *)
THEOREM CollectsInOrder == Spec => []CollectedInOrder
<1>1. WalkInv => CollectedInOrder
  BY DEF WalkInv
<1> QED
  BY <1>1, WalkInvariance, PTL

-----------------------------------------------------------------------------
(* A function over the naturals is defined by its first value and a step. *)
Repeats(f, n, S, base, step) ==
  f \in [0..n -> S] /\ f[0] = base /\ \A k \in 1..n : f[k] = step[f[k-1]]

LEMMA RepeatsExists ==
  ASSUME NEW S, NEW base \in S, NEW step \in [S -> S], NEW n \in Nat
  PROVE  \E f : Repeats(f, n, S, base, step)
<1>1. PICK steps : steps = [k \in 1..n |-> step]
  OBVIOUS
<1>2. IsStep(steps, n, S)
  BY <1>1 DEF IsStep
<1>3. \E f : Iterates(f, n, S, base, steps)
  BY <1>2, RecursionUpTo, Zenon
<1> QED
  BY <1>1, <1>3 DEF Iterates, Repeats

LEMMA RepeatsUnique ==
  ASSUME NEW S, NEW base \in S, NEW step \in [S -> S], NEW m \in Nat, NEW n \in Nat, m <= n,
         NEW f, Repeats(f, m, S, base, step), NEW g, Repeats(g, n, S, base, step)
  PROVE  f[m] = g[m]
<1> DEFINE P == {k \in Nat : k <= m => f[k] = g[k]}
<1>1. 0 \in P
  BY DEF Repeats
<1>2. ASSUME NEW k \in Nat, k \in P PROVE k+1 \in P
  <2> SUFFICES ASSUME k+1 <= m PROVE f[k+1] = g[k+1]
    OBVIOUS
  <2>1. k+1 \in 1..m /\ k+1 \in 1..n /\ (k+1)-1 = k /\ f[k] = g[k]
    BY <1>2
  <2>2. f[k+1] = step[f[k]] /\ g[k+1] = step[g[k]]
    BY <2>1 DEF Repeats
  <2> QED
    BY <2>1, <2>2
<1>3. \A k \in Nat : k \in P
  <2> HIDE DEF P
  <2> QED
    BY <1>1, <1>2, Induct
<1> QED
  BY <1>3

Recurses(f, S, base, step) ==
  f \in [Nat -> S] /\ f[0] = base /\ \A n \in Nat : f[n+1] = step[f[n]]

LEMMA Recursion ==
  ASSUME NEW S, NEW base \in S, NEW step \in [S -> S]
  PROVE  \E f : Recurses(f, S, base, step)
<1> DEFINE upto == [n \in Nat |-> CHOOSE g : Repeats(g, n, S, base, step)]
           f == [n \in Nat |-> upto[n][n]]
<1>1. \A n \in Nat : Repeats(upto[n], n, S, base, step)
  <2> SUFFICES ASSUME NEW n \in Nat
               PROVE  Repeats(CHOOSE g : Repeats(g, n, S, base, step), n, S, base, step)
    OBVIOUS
  <2>1. \E g : Repeats(g, n, S, base, step)
    BY RepeatsExists
  <2> QED
    BY <2>1, Zenon
<1> HIDE DEF upto
<1>2. \A n \in Nat : upto[n][n] \in S
  BY <1>1 DEF Repeats
<1>3. upto[0][0] = base
  BY <1>1 DEF Repeats
<1>4. ASSUME NEW n \in Nat PROVE upto[n+1][n+1] = step[upto[n][n]]
  <2>1. n+1 \in Nat /\ n <= n+1 /\ n+1 \in 1..n+1 /\ (n+1)-1 = n
    OBVIOUS
  <2>2. upto[n+1][n+1] = step[upto[n+1][n]]
    BY <1>1, <2>1 DEF Repeats
  <2>3. upto[n][n] = upto[n+1][n]
    BY <1>1, <2>1, RepeatsUnique
  <2> QED
    BY <2>2, <2>3
<1>5. f \in [Nat -> S]
  BY <1>2
<1>6. f[0] = base /\ \A n \in Nat : f[n+1] = step[f[n]]
  BY <1>3, <1>4
<1> HIDE DEF f
<1> QED
  BY <1>5, <1>6 DEF Recurses

-----------------------------------------------------------------------------
(* Browsed for given roots and references. *)
Start(roots) == {[node |-> roots[r], walk |-> <<r>>] : r \in DOMAIN roots}

Onward(refs, X) ==
  UNION {{[node |-> refs[v.node][i], walk |-> Append(v.walk, i)] :
            i \in {j \in DOMAIN refs[v.node] :
                     MaxNodePerParent > 0 => j <= MaxNodePerParent + 2}} :
         v \in X}

Reach(roots, refs) ==
  CHOOSE f : f = [l \in Nat |-> IF l = 0 THEN Start(roots) ELSE Onward(refs, f[l-1])]

Visit == [node : Node, walk : Walk]

LEMMA ReachedIsReach ==
  Browsed = Reach(nodeObjsToBrowse, children)
BY DEF Browsed, Reach, Start, Onward

LEMMA StartType ==
  ASSUME NEW roots \in Seq(Node) PROVE Start(roots) \in SUBSET Visit
<1> SUFFICES ASSUME NEW r \in DOMAIN roots
             PROVE  [node |-> roots[r], walk |-> <<r>>] \in Visit
  BY DEF Start
<1>1. r \in Nat \ {0} /\ roots[r] \in Node
  OBVIOUS
<1>2. <<r>> \in Walk
  BY <1>1 DEF Walk
<1> QED
  BY <1>1, <1>2 DEF Visit

LEMMA OnwardType ==
  ASSUME NEW refs \in [Node -> Seq(Node)], NEW X \in SUBSET Visit
  PROVE  Onward(refs, X) \in SUBSET Visit
<1> SUFFICES ASSUME NEW v \in X, NEW i \in DOMAIN refs[v.node]
             PROVE  [node |-> refs[v.node][i], walk |-> Append(v.walk, i)] \in Visit
  BY DEF Onward
<1>1. v.node \in Node /\ v.walk \in Walk
  BY DEF Visit
<1>2. refs[v.node] \in Seq(Node)
  BY <1>1
<1>3. i \in Nat \ {0} /\ refs[v.node][i] \in Node
  BY <1>2
<1>4. Append(v.walk, i) \in Walk
  BY <1>1, <1>3 DEF Walk
<1> QED
  BY <1>3, <1>4 DEF Visit

LEMMA ReachEquation ==
  ASSUME NEW roots \in Seq(Node), NEW refs \in [Node -> Seq(Node)]
  PROVE  /\ Reach(roots, refs) \in [Nat -> SUBSET Visit]
         /\ Reach(roots, refs)[0] = Start(roots)
         /\ \A l \in Nat : Reach(roots, refs)[l+1] = Onward(refs, Reach(roots, refs)[l])
<1>1. PICK S : S = SUBSET Visit
  OBVIOUS
<1>2. PICK step : step = [X \in S |-> Onward(refs, X)]
  OBVIOUS
<1>3. Start(roots) \in S /\ step \in [S -> S]
  BY <1>1, <1>2, StartType, OnwardType
<1>4. PICK f \in [Nat -> S] : f[0] = Start(roots) /\ \A n \in Nat : f[n+1] = step[f[n]]
  <2>1. \E f : Recurses(f, S, Start(roots), step)
    BY <1>3, Recursion
  <2> QED
    BY <2>1 DEF Recurses
<1> DEFINE Body(g) == [l \in Nat |-> IF l = 0 THEN Start(roots) ELSE Onward(refs, g[l-1])]
<1>5. f = Body(f)
  <2>1. \A l \in Nat : f[l] = IF l = 0 THEN Start(roots) ELSE Onward(refs, f[l-1])
    <3> SUFFICES ASSUME NEW l \in Nat, l # 0 PROVE f[l] = Onward(refs, f[l-1])
      BY <1>4
    <3>1. l-1 \in Nat /\ (l-1)+1 = l
      OBVIOUS
    <3>2. f[l-1] \in S
      BY <3>1
    <3>3. f[(l-1)+1] = step[f[l-1]]
      BY <1>4, <3>1
    <3> QED
      BY <1>2, <3>1, <3>2, <3>3
  <2> QED
    BY <2>1
<1>6. PICK g : g = Reach(roots, refs)
  OBVIOUS
<1>7. g = Body(g)
  <2>1. g = CHOOSE h : h = Body(h)
    BY <1>6 DEF Reach
  <2> HIDE DEF Body
  <2> QED
    BY <1>5, <2>1
<1>8. g[0] = Start(roots)
  BY <1>7, Zenon
<1>9. ASSUME NEW l \in Nat PROVE g[l+1] = Onward(refs, g[l])
  <2>1. l+1 \in Nat /\ l+1 # 0 /\ (l+1)-1 = l
    OBVIOUS
  <2>2. g[l+1] = Onward(refs, g[(l+1)-1])
    BY <1>7, <2>1, Zenon
  <2> QED
    BY <2>1, <2>2
<1> DEFINE P == {l \in Nat : g[l] \in SUBSET Visit}
<1>10. 0 \in P
  BY <1>8, StartType
<1>11. ASSUME NEW l \in Nat, l \in P PROVE l+1 \in P
  <2>1. g[l] \in SUBSET Visit
    BY <1>11
  <2>2. Onward(refs, g[l]) \in SUBSET Visit
    BY <2>1, OnwardType
  <2>3. g[l+1] = Onward(refs, g[l]) /\ l+1 \in Nat
    BY <1>9
  <2> QED
    BY <2>2, <2>3
<1>12. \A l \in Nat : l \in P
  <2> HIDE DEF P
  <2> QED
    BY <1>10, <1>11, Induct
<1>13. g \in [Nat -> SUBSET Visit]
  <2>1. \A l \in Nat : g[l] \in SUBSET Visit
    BY <1>12
  <2> QED
    BY <1>7, <2>1
<1> QED
  BY <1>6, <1>8, <1>9, <1>13

(* One step onward from visit u, to its child number i. *)
Within(refs, u, i) ==
  i \in DOMAIN refs[u.node] /\ (MaxNodePerParent > 0 => i <= MaxNodePerParent + 2)

ChildOf(refs, u, i) == [node |-> refs[u.node][i], walk |-> Append(u.walk, i)]

Leads(refs, u, v) == \E i : Within(refs, u, i) /\ v = ChildOf(refs, u, i)

LEMMA OnwardElements ==
  ASSUME NEW refs, NEW X, NEW v
  PROVE  v \in Onward(refs, X) <=> \E u \in X : Leads(refs, u, v)
BY DEF Onward, Within, ChildOf, Leads

LEMMA ChildWalk ==
  ASSUME NEW refs \in [Node -> Seq(Node)], NEW u \in Visit, NEW i, Within(refs, u, i)
  PROVE  /\ i \in Nat \ {0}
         /\ ChildOf(refs, u, i) \in Visit
         /\ ChildOf(refs, u, i).walk = Append(u.walk, i)
         /\ ChildOf(refs, u, i).node = refs[u.node][i]
         /\ Len(ChildOf(refs, u, i).walk) = Len(u.walk) + 1
         /\ ChildOf(refs, u, i).walk[Len(u.walk) + 1] = i
         /\ Through(ChildOf(refs, u, i).walk, u.walk)
<1>1. u.node \in Node /\ u.walk \in Walk
  BY DEF Visit
<1>2. refs[u.node] \in Seq(Node)
  BY <1>1
<1>3. i \in Nat \ {0} /\ refs[u.node][i] \in Node
  BY <1>2 DEF Within
<1>4. PICK w : w = Append(u.walk, i)
  OBVIOUS
<1>5. /\ w \in Walk
      /\ Len(w) = Len(u.walk) + 1
      /\ w[Len(u.walk) + 1] = i
      /\ Through(w, u.walk)
  BY <1>1, <1>3, <1>4 DEF Walk, Through
<1>6. ChildOf(refs, u, i) = [node |-> refs[u.node][i], walk |-> w]
  BY <1>4 DEF ChildOf
<1> QED
  BY <1>3, <1>4, <1>5, <1>6 DEF Visit

LEMMA ThroughThrough ==
  ASSUME NEW a \in Walk, NEW b \in Walk, NEW c \in Walk, Through(a, b), Through(b, c)
  PROVE  Through(a, c)
<1>1. Len(a) \in Nat /\ Len(b) \in Nat /\ Len(c) \in Nat
  BY WalkType
<1> QED
  BY <1>1 DEF Through

LEMMA ThroughAt ==
  ASSUME NEW a \in Walk, NEW b \in Walk, Through(a, b), NEW m \in Nat \ {0}, m <= Len(b)
  PROVE  a[m] = b[m]
BY WalkType DEF Through

LEMMA ThroughSame ==
  ASSUME NEW a \in Walk, NEW b \in Walk, NEW c \in Walk,
         Through(a, b), Through(a, c), Len(b) = Len(c)
  PROVE  b = c
<1>1. Through(b, c)
  BY WalkType DEF Through
<1> QED
  BY <1>1, ThroughEqual

LEMMA ReachLength ==
  ASSUME NEW roots \in Seq(Node), NEW refs \in [Node -> Seq(Node)]
  PROVE  \A l \in Nat : \A v \in Reach(roots, refs)[l] : v \in Visit /\ Len(v.walk) = l + 1
<1>1. PICK R \in [Nat -> SUBSET Visit] :
        /\ R = Reach(roots, refs)
        /\ R[0] = Start(roots)
        /\ \A l \in Nat : R[l+1] = Onward(refs, R[l])
  BY ReachEquation
<1> DEFINE P == {l \in Nat : \A v \in R[l] : Len(v.walk) = l + 1}
<1>2. 0 \in P
  BY <1>1 DEF Start
<1>3. ASSUME NEW l \in Nat, l \in P PROVE l+1 \in P
  <2>1. ASSUME NEW v \in R[l+1] PROVE Len(v.walk) = (l+1)+1
    <3>0. PICK u \in R[l] : Leads(refs, u, v)
      BY <1>1, <2>1, OnwardElements
    <3>1. PICK i : Within(refs, u, i) /\ v = ChildOf(refs, u, i)
      BY <3>0 DEF Leads
    <3>2. u \in Visit /\ Len(u.walk) = l + 1
      BY <1>3, <3>0
    <3> QED
      BY <3>1, <3>2, ChildWalk
  <2> QED
    BY <2>1
<1>4. \A l \in Nat : l \in P
  <2> HIDE DEF P
  <2> QED
    BY <1>2, <1>3, Induct
<1> QED
  BY <1>1, <1>4

(* A walk leads to one node. *)
LEMMA ReachUnique ==
  ASSUME NEW roots \in Seq(Node), NEW refs \in [Node -> Seq(Node)]
  PROVE  \A l \in Nat : \A u, v \in Reach(roots, refs)[l] : u.walk = v.walk => u = v
<1>1. PICK R \in [Nat -> SUBSET Visit] :
        /\ R = Reach(roots, refs)
        /\ R[0] = Start(roots)
        /\ \A l \in Nat : R[l+1] = Onward(refs, R[l])
  BY ReachEquation
<1>0. \A u \in Visit : \A i : Within(refs, u, i) =>
        i \in Nat \ {0} /\ ChildOf(refs, u, i).walk = Append(u.walk, i)
  BY ChildWalk
<1> DEFINE P == {l \in Nat : \A u, v \in R[l] : u.walk = v.walk => u = v}
<1>2. 0 \in P
  <2>1. ASSUME NEW u \in Start(roots), NEW v \in Start(roots), u.walk = v.walk PROVE u = v
    <3>1. PICK r \in DOMAIN roots, q \in DOMAIN roots :
            /\ u = [node |-> roots[r], walk |-> <<r>>]
            /\ v = [node |-> roots[q], walk |-> <<q>>]
      BY DEF Start
    <3>2. <<r>> = <<q>>
      BY <2>1, <3>1
    <3>3. r = q
      BY <3>2
    <3> QED
      BY <3>1, <3>3
  <2> QED
    BY <1>1, <2>1
<1>3. ASSUME NEW l \in Nat, l \in P PROVE l+1 \in P
  <2>1. ASSUME NEW v \in R[l+1], NEW y \in R[l+1], v.walk = y.walk PROVE v = y
    <3>a. PICK u \in R[l] : Leads(refs, u, v)
      BY <1>1, <2>1, OnwardElements
    <3>b. PICK x \in R[l] : Leads(refs, x, y)
      BY <1>1, <2>1, OnwardElements
    <3>1. PICK i : Within(refs, u, i) /\ v = ChildOf(refs, u, i)
      BY <3>a DEF Leads
    <3>2. PICK j : Within(refs, x, j) /\ y = ChildOf(refs, x, j)
      BY <3>b DEF Leads
    <3>c. u \in Visit /\ x \in Visit
      BY <3>a, <3>b
    <3>3. /\ u.walk \in Walk /\ x.walk \in Walk /\ i \in Nat \ {0} /\ j \in Nat \ {0}
          /\ v.walk = Append(u.walk, i) /\ y.walk = Append(x.walk, j)
      <4>1. /\ i \in Nat \ {0} /\ j \in Nat \ {0}
            /\ v.walk = Append(u.walk, i) /\ y.walk = Append(x.walk, j)
        <5>1. i \in Nat \ {0} /\ ChildOf(refs, u, i).walk = Append(u.walk, i)
          BY <1>0, <3>1, <3>c, Zenon
        <5>2. j \in Nat \ {0} /\ ChildOf(refs, x, j).walk = Append(x.walk, j)
          BY <1>0, <3>2, <3>c, Zenon
        <5> QED
          BY <3>1, <3>2, <5>1, <5>2, Zenon
      <4> QED
        BY <3>c, <4>1 DEF Visit
    <3>4. u.walk = x.walk /\ i = j
      <4>1. PICK a, b : a = u.walk /\ b = x.walk
        OBVIOUS
      <4>2. a \in Seq(Nat \ {0}) /\ b \in Seq(Nat \ {0}) /\ Append(a, i) = Append(b, j)
        BY <2>1, <3>3, <4>1 DEF Walk
      <4>3. a = b /\ i = j
        BY <3>3, <4>2, AppendInjective
      <4> QED
        BY <4>1, <4>3
    <3>5. u = x
      BY <1>3, <3>4
    <3> QED
      BY <3>1, <3>2, <3>4, <3>5
  <2> QED
    BY <2>1
<1>4. \A l \in Nat : l \in P
  <2> HIDE DEF P
  <2> QED
    BY <1>2, <1>3, Induct
<1> QED
  BY <1>1, <1>4

(* The way to a visit leads through a visit on every level above it. *)
LEMMA ReachPrefix ==
  ASSUME NEW roots \in Seq(Node), NEW refs \in [Node -> Seq(Node)]
  PROVE  \A l \in Nat : \A v \in Reach(roots, refs)[l] : \A k \in 0..l :
           \E u \in Reach(roots, refs)[k] : Through(v.walk, u.walk)
<1>1. PICK R \in [Nat -> SUBSET Visit] :
        /\ R = Reach(roots, refs)
        /\ R[0] = Start(roots)
        /\ \A l \in Nat : R[l+1] = Onward(refs, R[l])
  BY ReachEquation
<1>0. \A w \in Walk : Through(w, w)
  BY WalkType DEF Through
<1> DEFINE P == {l \in Nat : \A v \in R[l] : \A k \in 0..l : \E u \in R[k] : Through(v.walk, u.walk)}
<1>2. 0 \in P
  BY <1>0 DEF Visit
<1>3. ASSUME NEW l \in Nat, l \in P PROVE l+1 \in P
  <2>1. ASSUME NEW v \in R[l+1], NEW k \in 0..l+1 PROVE \E u \in R[k] : Through(v.walk, u.walk)
    <3>1. CASE k = l+1
      BY <1>0, <3>1 DEF Visit
    <3>2. CASE k # l+1
      <4>0. PICK x \in R[l] : Leads(refs, x, v)
        BY <1>1, <2>1, OnwardElements
      <4>1. PICK i : Within(refs, x, i) /\ v = ChildOf(refs, x, i)
        BY <4>0 DEF Leads
      <4>2. k \in 0..l
        BY <3>2
      <4>3. PICK u \in R[k] : Through(x.walk, u.walk)
        BY <1>3, <4>1, <4>2
      <4>4. Through(v.walk, x.walk)
        BY <4>1, ChildWalk
      <4>5. v.walk \in Walk /\ x.walk \in Walk /\ u.walk \in Walk
        BY <4>2 DEF Visit
      <4> QED
        BY <4>3, <4>4, <4>5, ThroughThrough
    <3> QED
      BY <3>1, <3>2
  <2> QED
    BY <2>1
<1>4. \A l \in Nat : l \in P
  <2> HIDE DEF P
  <2> QED
    BY <1>2, <1>3, Induct
<1> QED
  BY <1>1, <1>4

(* And the next number of the way is that of a child within the limit. *)
LEMMA ReachNext ==
  ASSUME NEW roots \in Seq(Node), NEW refs \in [Node -> Seq(Node)],
         NEW l \in Nat, NEW v \in Reach(roots, refs)[l], NEW k \in Nat, k < l,
         NEW u \in Reach(roots, refs)[k], Through(v.walk, u.walk)
  PROVE  Within(refs, u, v.walk[k+2])
<1>1. PICK R \in [Nat -> SUBSET Visit] :
        /\ R = Reach(roots, refs)
        /\ R[0] = Start(roots)
        /\ \A n \in Nat : R[n+1] = Onward(refs, R[n])
  BY ReachEquation
<1>2. PICK y \in R[k+1] : Through(v.walk, y.walk)
  <2>1. k+1 \in 0..l
    OBVIOUS
  <2> QED
    BY <1>1, <2>1, ReachPrefix
<1>a. PICK x \in R[k] : Leads(refs, x, y)
  BY <1>1, <1>2, OnwardElements
<1>3. PICK i : Within(refs, x, i) /\ y = ChildOf(refs, x, i)
  BY <1>a DEF Leads
<1>4. /\ v.walk \in Walk /\ y.walk \in Walk /\ x.walk \in Walk /\ u.walk \in Walk
      /\ Len(y.walk) = k + 2 /\ Len(x.walk) = k + 1 /\ Len(u.walk) = k + 1
  <2>1. k+1 \in Nat /\ (k+1)+1 = k+2
    OBVIOUS
  <2>2. v \in Visit /\ y \in Visit /\ x \in Visit /\ u \in Visit
    BY <1>1, <1>2, <1>a, <2>1
  <2>a. \A n \in Nat : \A z \in R[n] : Len(z.walk) = n + 1
    <3>1. \A n \in Nat : \A z \in Reach(roots, refs)[n] : Len(z.walk) = n + 1
      BY ReachLength
    <3> QED
      BY <1>1, <3>1
  <2>b. u \in R[k]
    BY <1>1
  <2>3. Len(y.walk) = (k + 1) + 1
    BY <1>2, <2>1, <2>a
  <2>4. Len(x.walk) = k + 1 /\ Len(u.walk) = k + 1
    BY <1>a, <2>a, <2>b
  <2> QED
    BY <2>1, <2>2, <2>3, <2>4 DEF Visit
<1>5. y.walk[k+2] = i /\ Through(y.walk, x.walk)
  <2>1. (k+1)+1 = k+2
    OBVIOUS
  <2> QED
    BY <1>3, <1>4, <2>1, ChildWalk
<1>6. v.walk[k+2] = i
  <2>1. PICK a, b : a = v.walk /\ b = y.walk
    OBVIOUS
  <2>2. a \in Walk /\ b \in Walk /\ Through(a, b) /\ Len(b) = k + 2
    BY <1>2, <1>4, <2>1
  <2>3. k+2 \in Nat \ {0} /\ k + 2 <= Len(b)
    BY <2>2
  <2>4. a[k+2] = b[k+2]
    BY <2>2, <2>3, ThroughAt
  <2> QED
    BY <1>5, <2>1, <2>4
<1>7. Through(v.walk, x.walk)
  BY <1>2, <1>4, <1>5, ThroughThrough
<1>8. x.walk = u.walk
  BY <1>4, <1>7, ThroughSame
<1>9. x = u
  BY <1>1, <1>8, ReachUnique
<1> QED
  BY <1>3, <1>6, <1>9

LEMMA ReachStart ==
  ASSUME NEW roots \in Seq(Node), NEW refs \in [Node -> Seq(Node)],
         NEW l \in Nat, NEW v \in Reach(roots, refs)[l]
  PROVE  v.walk[1] \in DOMAIN roots
<1>1. PICK u \in Start(roots) : Through(v.walk, u.walk)
  <2>1. \E u \in Reach(roots, refs)[0] : Through(v.walk, u.walk)
    BY ReachPrefix
  <2> QED
    BY <2>1, ReachEquation
<1>2. PICK r \in DOMAIN roots : u = [node |-> roots[r], walk |-> <<r>>]
  BY DEF Start
<1>3. u.walk = <<r>>
  BY <1>2
<1> QED
  BY <1>1, <1>3 DEF Through

-----------------------------------------------------------------------------
(* The visits of a state are those of its roots and references. *)
LEMMA Reaching ==
  TypeOK => \E roots \in Seq(Node), refs \in [Node -> Seq(Node)] :
              /\ roots = nodeObjsToBrowse /\ refs = children
              /\ Browsed = Reach(roots, refs)
BY RootsType, ReachedIsReach DEF TypeOK

LEMMA ReachedStays ==
  ASSUME UNCHANGED <<server, config>>
  PROVE  Browsed' = Browsed /\ nodeObjsToBrowse' = nodeObjsToBrowse
<1>1. children' = children /\ nodeObjsToBrowse' = nodeObjsToBrowse
  BY DEF server, nodeObjsToBrowse
<1>2. Browsed' = Reach(nodeObjsToBrowse', children')
  BY DEF Browsed, Reach, Start, Onward
<1> QED
  BY <1>1, <1>2, ReachedIsReach

LEMMA ReachedType ==
  ASSUME TypeOK, NEW l \in Nat, NEW v \in Browsed[l]
  PROVE  v \in Visit /\ v.node \in Node /\ v.walk \in Walk /\ Len(v.walk) = l + 1
<1>1. PICK roots \in Seq(Node), refs \in [Node -> Seq(Node)] : Browsed = Reach(roots, refs)
  BY Reaching
<1>2. \A m \in Nat : \A z \in Reach(roots, refs)[m] : z \in Visit /\ Len(z.walk) = m + 1
  BY ReachLength
<1>3. v \in Visit /\ Len(v.walk) = l + 1
  BY <1>1, <1>2
<1> QED
  BY <1>3 DEF Visit

LEMMA ReachedUnique ==
  ASSUME TypeOK, NEW l \in Nat, NEW u \in Browsed[l], NEW v \in Browsed[l], u.walk = v.walk
  PROVE  u = v
<1>1. PICK roots \in Seq(Node), refs \in [Node -> Seq(Node)] : Browsed = Reach(roots, refs)
  BY Reaching
<1>2. \A m \in Nat : \A y, z \in Reach(roots, refs)[m] : y.walk = z.walk => y = z
  BY ReachUnique
<1> QED
  BY <1>1, <1>2

LEMMA ReachedAbove ==
  ASSUME TypeOK, NEW l \in Nat, NEW v \in Browsed[l], NEW k \in Nat, k < l
  PROVE  \E u \in Browsed[k] : Through(v.walk, u.walk) /\ Within(children, u, v.walk[k+2])
<1>1. PICK roots \in Seq(Node), refs \in [Node -> Seq(Node)] :
        refs = children /\ Browsed = Reach(roots, refs)
  BY Reaching
<1>2. \A m \in Nat : \A z \in Reach(roots, refs)[m] : \A j \in 0..m :
        \E u \in Reach(roots, refs)[j] : Through(z.walk, u.walk)
  BY ReachPrefix
<1>3. PICK u \in Reach(roots, refs)[k] : Through(v.walk, u.walk)
  <2>1. k \in 0..l
    OBVIOUS
  <2> QED
    BY <1>1, <1>2, <2>1
<1>4. v \in Reach(roots, refs)[l]
  BY <1>1
<1>5. Within(refs, u, v.walk[k+2])
  BY <1>3, <1>4, ReachNext
<1> QED
  BY <1>1, <1>3, <1>5

LEMMA ReachedStart ==
  ASSUME TypeOK, NEW l \in Nat, NEW v \in Browsed[l]
  PROVE  v.walk[1] \in DOMAIN nodeObjsToBrowse
<1>1. PICK roots \in Seq(Node), refs \in [Node -> Seq(Node)] :
        roots = nodeObjsToBrowse /\ Browsed = Reach(roots, refs)
  BY Reaching
<1>2. v \in Reach(roots, refs)[l]
  BY <1>1
<1>3. v.walk[1] \in DOMAIN roots
  BY <1>2, ReachStart
<1> QED
  BY <1>1, <1>3

LEMMA ReachedRoot ==
  ASSUME TypeOK, NEW r \in DOMAIN nodeObjsToBrowse
  PROVE  [node |-> nodeObjsToBrowse[r], walk |-> <<r>>] \in Browsed[0]
<1>1. PICK roots \in Seq(Node), refs \in [Node -> Seq(Node)] :
        roots = nodeObjsToBrowse /\ Browsed = Reach(roots, refs)
  BY Reaching
<1>2. Reach(roots, refs)[0] = Start(roots)
  BY ReachEquation
<1> QED
  BY <1>1, <1>2 DEF Start

LEMMA ReachedChild ==
  ASSUME TypeOK, NEW l \in Nat, NEW u \in Browsed[l], NEW i, Within(children, u, i)
  PROVE  [node |-> children[u.node][i], walk |-> Append(u.walk, i)] \in Browsed[l+1]
<1>1. PICK roots \in Seq(Node), refs \in [Node -> Seq(Node)] :
        refs = children /\ Browsed = Reach(roots, refs)
  BY Reaching
<1>2. \A m \in Nat : Reach(roots, refs)[m+1] = Onward(refs, Reach(roots, refs)[m])
  BY ReachEquation
<1>3. Browsed[l+1] = Onward(children, Browsed[l])
  BY <1>1, <1>2
<1>4. Leads(children, u, ChildOf(children, u, i))
  BY DEF Leads
<1>5. ChildOf(children, u, i) \in Onward(children, Browsed[l])
  BY <1>4, OnwardElements
<1> QED
  BY <1>3, <1>5 DEF ChildOf

(* Visits within the levels. *)
Lim(v) == \E l \in 0..MaxLevel : v \in Browsed[l]

LEMMA LimType ==
  ASSUME TypeOK, NEW v, Lim(v)
  PROVE  v \in Visit /\ v.walk \in Walk /\ Len(v.walk) \in 1..MaxLevel+1
<1>1. PICK l \in 0..MaxLevel : v \in Browsed[l]
  BY DEF Lim
<1>2. v.walk \in Walk /\ Len(v.walk) = l + 1 /\ v \in Visit
  BY <1>1, NewAssumption, ReachedType
<1> QED
  BY <1>2, NewAssumption

LEMMA DataElements ==
  ASSUME NEW v
  PROVE  v \in DataBrowsed <=> Lim(v) /\ kind[v.node] = "data" /\ ~ Hidden(v.walk)
BY DEF DataBrowsed, Lim

LEMMA StrictPrefix ==
  ASSUME NEW a \in Walk, NEW b \in Walk
  PROVE  IsStrictPrefix(a, b) <=> Through(b, a) /\ Len(a) < Len(b)
<1>1. /\ a \in Seq(Nat \ {0}) /\ b \in Seq(Nat \ {0})
      /\ Len(a) \in Nat /\ Len(b) \in Nat
      /\ \A j \in 1..Len(a) : a[j] \in Nat \ {0}
      /\ \A j \in 1..Len(b) : b[j] \in Nat \ {0}
  BY WalkType DEF Walk
<1>2. ASSUME Len(a) <= Len(b)
      PROVE  SubSeq(a, 1, Len(a)) = SubSeq(b, 1, Len(a)) <=> \A j \in 1..Len(a) : a[j] = b[j]
  <2>1. \A j \in 1..Len(a) : b[j] \in Nat \ {0}
    BY <1>1, <1>2
  <2>2. /\ SubSeq(a, 1, Len(a)) \in Seq(Nat \ {0})
        /\ Len(SubSeq(a, 1, Len(a))) = Len(a)
        /\ \A j \in 1..Len(a) : SubSeq(a, 1, Len(a))[j] = a[j]
    BY <1>1, SubSeqProperties
  <2>3. /\ SubSeq(b, 1, Len(a)) \in Seq(Nat \ {0})
        /\ Len(SubSeq(b, 1, Len(a))) = Len(a)
        /\ \A j \in 1..Len(a) : SubSeq(b, 1, Len(a))[j] = b[j]
    BY <1>1, <2>1, SubSeqProperties
  <2>4. (\A j \in 1..Len(a) : a[j] = b[j]) => SubSeq(a, 1, Len(a)) = SubSeq(b, 1, Len(a))
    BY <2>2, <2>3, SeqEqual
  <2>5. SubSeq(a, 1, Len(a)) = SubSeq(b, 1, Len(a)) => \A j \in 1..Len(a) : a[j] = b[j]
    BY <2>2, <2>3
  <2> QED
    BY <2>4, <2>5
<1>3. Through(b, a) /\ Len(a) = Len(b) => b = a
  BY ThroughEqual
<1>4. IsPrefix(a, b) <=> Through(b, a)
  BY <1>1, <1>2 DEF IsPrefix, Through
<1> QED
  BY <1>1, <1>3, <1>4 DEF IsStrictPrefix, Through

LEMMA HiddenDef ==
  ASSUME TypeOK, NEW w \in Walk
  PROVE  Hidden(w) <=> \E f \in failed :
           \/ f.of = "attributes" /\ f.walk = w
           \/ f.of = "children" /\ Through(w, f.walk) /\ Len(f.walk) < Len(w)
<1>1. \A f \in failed : f.walk \in Walk
  BY DEF TypeOK
<1> QED
  BY <1>1, StrictPrefix DEF Hidden

(* Nothing is over that goes on from the visit that comes next. *)
LEMMA OverNotThrough ==
  ASSUME TypeOK, NEW n \in Node, NEW N \in Walk, Visited(n, N), NEW w \in Walk, Over(w)
  PROVE  ~ Through(w, N)
<1>1. PICK L \in Nat : L = Len(stack)
  BY DEF TypeOK
<1>2. Through(w, N) => L < Len(w) /\ On(w, L) /\ w[L+1] = Pos(L)
  BY <1>1, ThroughCalled
<1>3. L < Len(w) /\ On(w, L) => w[L+1] < Pos(L)
  BY <1>1 DEF Over
<1>4. Pos(L) \in Nat
  BY <1>1, PosType
<1> QED
  BY <1>2, <1>3, <1>4

LEMMA ThroughItself == \A w \in Walk : Through(w, w)
BY WalkType DEF Through

(* A visit is one of Browsed. *)
LEMMA VisitedReached ==
  ASSUME TypeOK, StackInv, FrameInv, NEW n \in Node, NEW N \in Walk, Visited(n, N)
  PROVE  [node |-> n, walk |-> N] \in Browsed[Len(stack)]
<1>1. Chosen(n, N) /\ Len(stack) \in Nat
  BY DEF Visited, TypeOK
<1>2. CASE stack = <<>>
  BY <1>1, <1>2, ReachedRoot DEF Chosen
<1>3. CASE stack # <<>>
  <2>1. PICK L \in Nat : L = Len(stack) /\ L # 0 /\ L \in DOMAIN stack
    BY <1>1, <1>3 DEF TypeOK
  <2>2. PICK frame : frame = stack[L]
    OBVIOUS
  <2>3. PICK m \in Node :
          /\ [node |-> m, walk |-> frame.walk] \in Browsed[L-1]
          /\ frame.children = IF FailedChildren(frame.walk) THEN <<>> ELSE children[m]
    BY <2>1, <2>2 DEF FrameInv
  <2>4. /\ frame.next \in DOMAIN frame.children
        /\ MaxNodePerParent > 0 => frame.next <= MaxNodePerParent + 2
        /\ n = frame.children[frame.next]
        /\ N = Append(frame.walk, frame.next)
    BY <1>1, <1>3, <2>1, <2>2 DEF Chosen
  <2>5. frame.children = children[m]
    BY <2>3, <2>4
  <2>6. PICK u : u = [node |-> m, walk |-> frame.walk]
    OBVIOUS
  <2>7. u \in Browsed[L-1] /\ L-1 \in Nat /\ (L-1)+1 = L
    BY <2>1, <2>3, <2>6
  <2>8. Within(children, u, frame.next)
    BY <2>4, <2>5, <2>6 DEF Within
  <2>9. [node |-> children[u.node][frame.next], walk |-> Append(u.walk, frame.next)] \in Browsed[(L-1)+1]
    BY <2>7, <2>8, ReachedChild
  <2> QED
    BY <2>1, <2>4, <2>5, <2>6, <2>7, <2>9
<1> QED
  BY <1>2, <1>3

(* A request that failed for a node that is over hides nothing of the visit that
   comes next: the calls it is made from have their children. *)
LEMMA VisitedNotHidden ==
  ASSUME TypeOK, StackInv, FrameInv, FailedIsOver,
         NEW n \in Node, NEW N \in Walk, Visited(n, N)
  PROVE  \A f \in failed : f.walk # N /\ (f.of = "children" => ~ Through(N, f.walk))
<1>1. PICK L \in Nat : L = Len(stack)
  BY DEF TypeOK
<1>2. \A f \in failed : f.walk \in Walk /\ f.walk # <<>> /\ Over(f.walk)
  BY DEF TypeOK, FailedIsOver
<1>3. ASSUME NEW f \in failed PROVE f.walk # N
  BY <1>2, OverNotThrough, ThroughItself
<1>4. ASSUME NEW f \in failed, f.of = "children", Through(N, f.walk) PROVE FALSE
  <2>1. PICK w : w = f.walk
    OBVIOUS
  <2>2. w \in Walk /\ w # <<>> /\ Through(N, w) /\ w # N
    BY <1>2, <1>3, <1>4, <2>1
  <2>3. Len(N) = L + 1 /\ On(N, L)
    BY <1>1 DEF Visited, Called
  <2>4. PICK j \in 1..L : j = Len(w)
    <3>1. Len(w) \in Nat /\ Len(w) # 0
      BY <2>2 DEF Walk
    <3>2. Len(w) <= L + 1
      BY <2>2, <2>3 DEF Through
    <3>3. Len(w) # L + 1
      BY <2>2, <2>3, ThroughEqual
    <3> QED
      BY <3>1, <3>2, <3>3
  <2>5. PICK v : v = stack[j].walk
    OBVIOUS
  <2>6. v \in Walk /\ Len(v) = j /\ On(v, j)
    BY <1>1, <2>4, <2>5, FrameOf
  <2>7. \A i \in 1..j : v[i] = Pos(i-1) - 1
    BY <2>6 DEF On
  <2>8. \A i \in 1..j : N[i] = Pos(i-1) - 1
    BY <2>3, <2>4 DEF On
  <2>9. Through(N, v)
    BY <2>3, <2>4, <2>6, <2>7, <2>8 DEF Through
  <2>10. v = w
    BY <2>2, <2>4, <2>6, <2>9, ThroughSame
  <2>11. FailedChildren(v)
    <3>1. f = [walk |-> w, of |-> "children"]
      BY <1>4, <2>1 DEF TypeOK
    <3> QED
      BY <2>10, <3>1 DEF FailedChildren
  <2>12. j \in DOMAIN stack
    BY <1>1, <2>4 DEF TypeOK
  <2>13. stack[j].children = <<>>
    BY <2>5, <2>11, <2>12 DEF FrameInv
  <2>14. \E i : i \in DOMAIN stack[j].children
    <3>1. CASE j < L
      BY <1>1, <2>12, <3>1 DEF FrameInv
    <3>2. CASE j = L
      <4>1. stack # <<>>
        BY <2>12
      <4> QED
        BY <1>1, <3>2, <4>1 DEF Visited, Chosen
    <3> QED
      BY <2>4, <3>1, <3>2
  <2> QED
    BY <2>13, <2>14
<1> QED
  BY <1>3, <1>4

LEMMA HiddenVisited ==
  ASSUME TypeOK, StackInv, FrameInv, FailedIsOver,
         NEW n \in Node, NEW N \in Walk, Visited(n, N),
         NEW errors \in SUBSET {"attributes", "children"},
         failed' = failed \union {[walk |-> N, of |-> e] : e \in errors}
  PROVE  /\ \A w \in Walk : Over(w) => (Hidden(w)' <=> Hidden(w))
         /\ Hidden(N)' <=> "attributes" \in errors
         /\ FailedChildren(N)' <=> "children" \in errors
         /\ \A w \in Walk : w # N => (FailedChildren(w)' <=> FailedChildren(w))
<1> DEFINE Fails(e) == [walk |-> N, of |-> e]
<1>1. \A f \in failed : f.walk \in Walk /\ f.of \in {"attributes", "children"}
  BY DEF TypeOK
<1>2. \A f : f \in failed' <=> f \in failed \/ \E e \in errors : f = Fails(e)
  OBVIOUS
<1>3. \A f \in failed' : f.walk \in Walk
  BY <1>1, <1>2
<1>4. ASSUME NEW w \in Walk
      PROVE  Hidden(w)' <=> \E f \in failed' :
               \/ f.of = "attributes" /\ f.walk = w
               \/ f.of = "children" /\ Through(w, f.walk) /\ Len(f.walk) < Len(w)
  <2>1. Hidden(w)' <=> \E f \in failed' :
          \/ f.of = "attributes" /\ f.walk = w
          \/ f.of = "children" /\ IsStrictPrefix(f.walk, w)
    BY DEF Hidden
  <2>2. \A f \in failed' : IsStrictPrefix(f.walk, w) <=> Through(w, f.walk) /\ Len(f.walk) < Len(w)
    BY <1>3, StrictPrefix
  <2> QED
    BY <2>1, <2>2
<1>5. \A f \in failed : f.walk # N /\ (f.of = "children" => ~ Through(N, f.walk))
  BY VisitedNotHidden
<1>6. ASSUME NEW w \in Walk, Over(w) PROVE Hidden(w)' <=> Hidden(w)
  <2>1. ~ Through(w, N) /\ w # N
    BY <1>6, OverNotThrough, ThroughItself
  <2>2. \A e \in errors : ~ \/ Fails(e).of = "attributes" /\ Fails(e).walk = w
                            \/ Fails(e).of = "children" /\ Through(w, Fails(e).walk)
    BY <2>1
  <2> HIDE DEF Fails
  <2> QED
    BY <1>2, <1>4, <2>2, HiddenDef
<1>7. Hidden(N)' <=> "attributes" \in errors
  <2>1. ASSUME "attributes" \in errors PROVE Hidden(N)'
    <3>1. Fails("attributes") \in failed'
      BY <2>1
    <3>2. Fails("attributes").of = "attributes" /\ Fails("attributes").walk = N
      OBVIOUS
    <3> HIDE DEF Fails
    <3> QED
      BY <1>4, <3>1, <3>2
  <2>2. ASSUME Hidden(N)' PROVE "attributes" \in errors
    <3>1. PICK f \in failed' :
             \/ f.of = "attributes" /\ f.walk = N
             \/ f.of = "children" /\ Through(N, f.walk) /\ Len(f.walk) < Len(N)
      BY <1>4, <2>2
    <3>2. f \notin failed
      BY <1>5, <3>1
    <3>3. PICK e \in errors : f = Fails(e)
      BY <1>2, <3>2
    <3>4. f.walk = N /\ f.of = e
      BY <3>3
    <3>5. ~ (Len(N) < Len(N))
      BY WalkType
    <3> QED
      BY <3>1, <3>3, <3>4, <3>5
  <2> QED
    BY <2>1, <2>2
<1>8. FailedChildren(N)' <=> "children" \in errors
  <2>1. Fails("children") \notin failed
    <3>1. Fails("children").walk = N
      OBVIOUS
    <3> QED
      BY <1>5, <3>1
  <2>2. \A e \in errors : Fails("children") = Fails(e) => e = "children"
    OBVIOUS
  <2>3. Fails("children") \in failed' <=> "children" \in errors
    BY <2>1, <2>2
  <2> QED
    BY <2>3 DEF FailedChildren
<1>9. ASSUME NEW w \in Walk, w # N PROVE FailedChildren(w)' <=> FailedChildren(w)
  <2>1. \A e \in errors : [walk |-> w, of |-> "children"] # Fails(e)
    BY <1>9
  <2> QED
    BY <2>1 DEF FailedChildren
<1> QED
  BY <1>6, <1>7, <1>8, <1>9

LEMMA CollectedElements ==
  ASSUME NEW v
  PROVE  v \in Collected <=> \E i \in DOMAIN nodesToCollect :
           v = [node |-> nodesToCollect[i].ID, walk |-> nodesToCollect[i].walk]
BY DEF Collected

LEMMA SearchedVisited ==
  ASSUME TypeOK, NEW n \in Node, NEW N \in Walk,
         NEW errors \in SUBSET {"attributes", "children"}, Asked(n, N, errors), NEW v
  PROVE  v \in Collected' <=>
           \/ v \in Collected
           \/ "attributes" \notin errors /\ kind[n] = "data" /\ v = [node |-> n, walk |-> N]
<1>1. nodesToCollect \in Seq(Item)
  BY DEF TypeOK
<1>2. v \in Collected' <=> \E i \in DOMAIN nodesToCollect' :
           v = [node |-> nodesToCollect'[i].ID, walk |-> nodesToCollect'[i].walk]
  BY DEF Collected
<1>3. nodesToCollect' = nodesToCollect \o IF "attributes" \in errors THEN <<>> ELSE Found(n, N)
  BY DEF Asked
<1>4. CASE "attributes" \notin errors /\ kind[n] = "data"
  <2>1. PICK item : item = ItemOf(n, N)
    OBVIOUS
  <2>2. item \in Item /\ item.ID = n /\ item.walk = N
    BY <2>1 DEF Item, ItemOf
  <2>3. nodesToCollect' = nodesToCollect \o <<item>>
    BY <1>3, <1>4, <2>1 DEF Found, HasData, ItemOf
  <2>4. nodesToCollect' = Append(nodesToCollect, item)
    BY <1>1, <2>2, <2>3, AppendIsConcat
  <2>5. PICK m \in Nat : m = Len(nodesToCollect)
    BY <1>1
  <2>6. /\ DOMAIN nodesToCollect = 1..m
        /\ DOMAIN nodesToCollect' = 1..m+1
        /\ nodesToCollect'[m+1] = item
        /\ \A i \in 1..m : nodesToCollect'[i] = nodesToCollect[i]
    BY <1>1, <2>2, <2>4, <2>5, ItemsType
  <2>7. 1..m+1 = 1..m \union {m+1}
    BY <2>5
  <2> QED
    BY <1>2, <1>4, <2>2, <2>6, <2>7, CollectedElements
<1>5. CASE ~ ("attributes" \notin errors /\ kind[n] = "data")
  <2>1. nodesToCollect' = nodesToCollect \o <<>>
    BY <1>3, <1>5 DEF Found, HasData
  <2>2. nodesToCollect' = nodesToCollect
    BY <1>1, <2>1
  <2> QED
    BY <1>2, <1>5, <2>2, CollectedElements
<1> QED
  BY <1>4, <1>5

-----------------------------------------------------------------------------
LEMMA DataElementsNext ==
  ASSUME UNCHANGED <<server, config>>, NEW v
  PROVE  v \in DataBrowsed' <=> Lim(v) /\ kind[v.node] = "data" /\ ~ Hidden(v.walk)'
<1>1. Browsed' = Browsed /\ kind' = kind
  BY ReachedStays DEF server
<1>2. v \in DataBrowsed' <=>
        (\E l \in 0..MaxLevel : v \in Browsed'[l]) /\ kind'[v.node] = "data" /\ ~ Hidden(v.walk)'
  BY DEF DataBrowsed
<1> QED
  BY <1>1, <1>2 DEF Lim

(* A visit beyond the levels: what it ends is beyond the levels too. *)
LEMMA SearchTooDeep ==
  ASSUME TypeOK, StackInv, Search, NEW n \in Node, NEW N \in Walk, Visited(n, N), TooDeep(N)
  PROVE  Search'
<1>1. /\ UNCHANGED <<nodesToCollect, failed, server, config>>
      /\ Len(stack') = Len(stack) /\ Len(stack) \in Nat
      /\ stack' \in Seq(Frame)
  BY DEF Visited, Left, TypeOK
<1>2. PICK below \in Seq(Frame) : Called(n, N, below) /\ Left(N, below)
  BY DEF Visited
<1>3. FrameInv'
  <2>1. ASSUME NEW k \in DOMAIN stack'
        PROVE  /\ \E m \in Node :
                    /\ [node |-> m, walk |-> stack'[k].walk] \in Browsed'[k-1]
                    /\ stack'[k].children = IF FailedChildren(stack'[k].walk)
                                            THEN <<>> ELSE children'[m]
               /\ k < Len(stack') => stack'[k].next - 1 \in DOMAIN stack'[k].children
    <3>1. k \in 1..Len(stack) /\ k \in DOMAIN stack
      BY <1>1 DEF TypeOK
    <3>2. /\ stack'[k].walk = stack[k].walk
          /\ stack'[k].children = stack[k].children
          /\ k < Len(stack) => stack'[k].next = stack[k].next
      BY <1>2, <3>1 DEF Called, Left
    <3>3. PICK m \in Node :
            /\ [node |-> m, walk |-> stack[k].walk] \in Browsed[k-1]
            /\ stack[k].children = IF FailedChildren(stack[k].walk) THEN <<>> ELSE children[m]
      BY <3>1 DEF Search, FrameInv
    <3>4. Browsed' = Browsed /\ children' = children
      BY <1>1, ReachedStays DEF server
    <3>5. k < Len(stack) => stack[k].next - 1 \in DOMAIN stack[k].children
      BY <3>1 DEF Search, FrameInv
    <3> QED
      BY <1>1, <3>2, <3>3, <3>4, <3>5
  <2> QED
    BY <1>1, <2>1 DEF FrameInv, FailedChildren
<1>4. FailedIsOver'
  <2>1. \A f \in failed : f.walk \in Walk /\ f.walk # <<>> /\ Over(f.walk)
    BY DEF TypeOK, Search, FailedIsOver
  <2>2. \A w \in Walk : Over(w) => Over(w)'
    BY OverVisited
  <2> QED
    BY <1>1, <2>1, <2>2 DEF FailedIsOver
<1>5. ASSUME NEW v PROVE v \in Collected' <=> v \in DataBrowsed' /\ Over(v.walk)'
  <2>1. Collected' = Collected
    BY <1>1 DEF Collected
  <2>2. v \in Collected <=> v \in DataBrowsed /\ Over(v.walk)
    BY DEF Search
  <2>3. Hidden(v.walk)' <=> Hidden(v.walk)
    BY <1>1 DEF Hidden
  <2>4. v \in DataBrowsed' <=> v \in DataBrowsed
    BY <1>1, <2>3, DataElements, DataElementsNext
  <2>5. ASSUME Lim(v) PROVE Over(v.walk)' <=> Over(v.walk)
    <3>1. PICK w : w = v.walk
      OBVIOUS
    <3>2. w \in Walk /\ Len(w) \in 1..MaxLevel+1
      BY <2>5, <3>1, LimType
    <3>3. ~ Through(w, N)
      <4>1. Len(N) - 1 > MaxLevel /\ Len(N) \in Nat /\ MaxLevel \in Nat
        BY WalkType, NewAssumption DEF TooDeep, Level
      <4> QED
        BY <3>2, <4>1 DEF Through
    <3>4. Over(w)' <=> Over(w)
      BY <3>2, <3>3, OverVisited
    <3> QED
      BY <3>1, <3>4
  <2> QED
    BY <2>1, <2>2, <2>4, <2>5, DataElements
<1>6. Collected' = {v \in DataBrowsed : Over(v.walk)}'
  BY <1>5
<1> QED
  BY <1>3, <1>4, <1>6 DEF Search

(* A visit within the levels: its walk, and no other, is over now, and its node is
   collected when it has data that was not hidden. *)
LEMMA SearchVisit ==
  ASSUME TypeOK, StackInv, Search, NEW n \in Node, NEW N \in Walk, Visited(n, N), ~ TooDeep(N),
         MaxLevel > 0
  PROVE  Search'
<1>1. PICK L \in Nat : L = Len(stack)
  BY DEF TypeOK
<1>2. /\ UNCHANGED <<server, config>>
      /\ Len(stack') = L + 1
      /\ stack' \in Seq(Frame)
  BY <1>1, LeftLength DEF Visited
<1>3. PICK below \in Seq(Frame) : Called(n, N, below) /\ Left(N, below)
  BY DEF Visited
<1>4. PICK errors \in SUBSET {"attributes", "children"} : Asked(n, N, errors)
  BY DEF Visited
<1>5. /\ \A w \in Walk : Over(w) => (Hidden(w)' <=> Hidden(w))
      /\ Hidden(N)' <=> "attributes" \in errors
      /\ FailedChildren(N)' <=> "children" \in errors
      /\ \A w \in Walk : w # N => (FailedChildren(w)' <=> FailedChildren(w))
  <2>1. failed' = failed \union {[walk |-> N, of |-> e] : e \in errors}
    BY <1>4 DEF Asked
  <2>2. FrameInv /\ FailedIsOver
    BY DEF Search
  <2> QED
    BY <2>1, <2>2, HiddenVisited
<1>6. /\ [node |-> n, walk |-> N] \in Browsed[L]
      /\ L <= MaxLevel /\ Len(N) = L + 1
  <2>1. [node |-> n, walk |-> N] \in Browsed[L]
    BY <1>1, VisitedReached DEF Search
  <2>2. Len(N) = L + 1
    BY <1>1, <1>3 DEF Called
  <2> QED
    BY <1>1, <2>1, <2>2, NewAssumption DEF TooDeep, Level
<1>7. Browsed' = Browsed /\ children' = children
  BY <1>2, ReachedStays DEF server
<1>8. FrameInv'
  <2>1. ASSUME NEW k \in 1..L
        PROVE  /\ \E m \in Node :
                    /\ [node |-> m, walk |-> stack'[k].walk] \in Browsed'[k-1]
                    /\ stack'[k].children = IF FailedChildren(stack[k].walk)'
                                            THEN <<>> ELSE children'[m]
               /\ stack'[k].next - 1 \in DOMAIN stack'[k].children
    <3>1. k \in 1..Len(stack) /\ k \in DOMAIN stack
      BY <1>1, <2>1 DEF TypeOK
    <3>2. /\ stack'[k].walk = stack[k].walk
          /\ stack'[k].children = stack[k].children
          /\ stack'[k].next = IF k = L THEN stack[k].next + 1 ELSE stack[k].next
      BY <1>1, <1>3, <3>1 DEF Called, Left
    <3>3. PICK m \in Node :
            /\ [node |-> m, walk |-> stack[k].walk] \in Browsed[k-1]
            /\ stack[k].children = IF FailedChildren(stack[k].walk) THEN <<>> ELSE children[m]
      BY <3>1 DEF Search, FrameInv
    <3>4. PICK w : w = stack[k].walk
      OBVIOUS
    <3>5. w \in Walk /\ Len(w) = k
      BY <3>1, <3>4, FrameOf
    <3>6. w # N
      BY <1>6, <2>1, <3>5
    <3>7. FailedChildren(w)' <=> FailedChildren(w)
      BY <1>5, <3>5, <3>6
    <3>8. FailedChildren(stack[k].walk)' <=> FailedChildren(stack[k].walk)
      BY <3>2, <3>4, <3>7 DEF FailedChildren
    <3>9. stack'[k].next - 1 \in DOMAIN stack[k].children
      <4>1. stack[k].next \in Nat
        BY <3>1, FrameOf DEF Frame
      <4>2. CASE k = L
        <5>1. stack # <<>>
          BY <3>1
        <5>2. stack[k].next \in DOMAIN stack[k].children
          BY <1>1, <4>2, <5>1 DEF Visited, Chosen
        <5> QED
          BY <3>2, <4>1, <4>2, <5>2
      <4>3. CASE k # L
        BY <1>1, <3>1, <3>2, <4>3 DEF Search, FrameInv
      <4> QED
        BY <4>2, <4>3
    <3> QED
      BY <1>7, <3>2, <3>3, <3>8, <3>9
  <2>2. /\ \E m \in Node :
             /\ [node |-> m, walk |-> stack'[L+1].walk] \in Browsed'[(L+1)-1]
             /\ stack'[L+1].children = IF FailedChildren(stack[L+1].walk)'
                                       THEN <<>> ELSE children'[m]
    <3>1. stack'[L+1] = [walk |-> N, next |-> 1, children |-> findChildren(n, errors)]
      BY <1>1, <1>4 DEF Asked
    <3>2. stack'[L+1].walk = N /\ stack'[L+1].children = findChildren(n, errors) /\ (L+1)-1 = L
      BY <3>1
    <3>3. FailedChildren(stack[L+1].walk)' <=> FailedChildren(N)'
      BY <3>2 DEF FailedChildren
    <3> QED
      BY <1>5, <1>6, <1>7, <3>2, <3>3 DEF findChildren
  <2>3. DOMAIN stack' = 1..L+1 /\ 1..L+1 = 1..L \union {L+1}
    BY <1>2
  <2>4. ASSUME NEW k \in DOMAIN stack'
        PROVE  \E m \in Node :
                 /\ [node |-> m, walk |-> stack'[k].walk] \in Browsed'[k-1]
                 /\ stack'[k].children = IF FailedChildren(stack[k].walk)'
                                         THEN <<>> ELSE children'[m]
    BY <2>1, <2>2, <2>3
  <2>5. ASSUME NEW k \in DOMAIN stack', k < Len(stack')
        PROVE  stack'[k].next - 1 \in DOMAIN stack'[k].children
    <3>1. k \in 1..L
      BY <1>2, <2>3, <2>5
    <3> QED
      BY <2>1, <3>1
  <2> QED
    BY <2>4, <2>5 DEF FrameInv
<1>9. \A w \in Walk : Over(w)' <=> Over(w) \/ w = N
  BY OverVisited
<1>10. FailedIsOver'
  <2>1. \A f \in failed : f.walk \in Walk /\ f.walk # <<>> /\ Over(f.walk)
    BY DEF TypeOK, Search, FailedIsOver
  <2>2. \A f \in failed' : f \in failed \/ f.walk = N
    BY <1>4 DEF Asked
  <2>3. N # <<>>
    BY <1>6
  <2> QED
    BY <1>9, <2>1, <2>2, <2>3 DEF FailedIsOver
<1>11. ASSUME NEW v PROVE v \in Collected' <=> v \in DataBrowsed' /\ Over(v.walk)'
  <2>1. PICK e : e = [node |-> n, walk |-> N]
    OBVIOUS
  <2>2. v \in Collected' <=>
          \/ v \in Collected
          \/ "attributes" \notin errors /\ kind[n] = "data" /\ v = e
    BY <1>4, <2>1, SearchedVisited
  <2>3. v \in Collected <=>
          Lim(v) /\ kind[v.node] = "data" /\ ~ Hidden(v.walk) /\ Over(v.walk)
    BY DataElements DEF Search
  <2>4. v \in DataBrowsed' <=> Lim(v) /\ kind[v.node] = "data" /\ ~ Hidden(v.walk)'
    BY <1>2, DataElementsNext
  <2>5. Lim(e) /\ e.walk = N /\ e.node = n
    BY <1>1, <1>6, <2>1, NewAssumption DEF Lim
  <2>6. PICK w : w = v.walk
    OBVIOUS
  <2>7. /\ (Over(v.walk)' <=> Over(w)') /\ (Hidden(v.walk)' <=> Hidden(w)')
        /\ (Over(v.walk) <=> Over(w)) /\ (Hidden(v.walk) <=> Hidden(w))
    BY <2>6
  <2>8. CASE ~ Lim(v)
    BY <2>2, <2>3, <2>4, <2>5, <2>8
  <2>9. CASE Lim(v)
    <3>1. w \in Walk
      BY <2>6, <2>9, LimType
    <3>2. CASE Over(w)
      <4>1. w # N
        BY <3>1, <3>2, OverNotThrough, ThroughItself
      <4>2. v # e
        BY <2>5, <2>6, <4>1
      <4>3. Over(w)' /\ (Hidden(w)' <=> Hidden(w))
        BY <1>5, <1>9, <3>1, <3>2
      <4> QED
        BY <2>2, <2>3, <2>4, <2>6, <2>7, <3>2, <4>2, <4>3
    <3>3. CASE ~ Over(w) /\ w = N
      <4>1. v = e
        <5>1. PICK l \in 0..MaxLevel : v \in Browsed[l]
          BY <2>9 DEF Lim
        <5>2. Len(v.walk) = l + 1 /\ l \in Nat
          BY <5>1, NewAssumption, ReachedType
        <5>3. l = L
          BY <1>6, <2>6, <3>3, <5>2
        <5>4. e \in Browsed[l] /\ v.walk = e.walk
          BY <1>6, <2>1, <2>5, <2>6, <3>3, <5>3
        <5> QED
          BY <5>1, <5>2, <5>4, ReachedUnique
      <4>2. Over(w)' /\ (Hidden(w)' <=> "attributes" \in errors)
        BY <1>5, <1>9, <3>1, <3>3
      <4> QED
        BY <2>2, <2>3, <2>4, <2>5, <2>6, <2>7, <2>9, <3>3, <4>1, <4>2
    <3>4. CASE ~ Over(w) /\ w # N
      <4>1. v # e /\ ~ Over(w)'
        BY <1>9, <2>5, <2>6, <3>1, <3>4
      <4> QED
        BY <2>2, <2>3, <2>6, <2>7, <3>4, <4>1
    <3> QED
      BY <3>2, <3>3, <3>4
  <2> QED
    BY <2>8, <2>9
<1>12. Collected' = {v \in DataBrowsed : Over(v.walk)}'
  BY <1>11
<1> QED
  BY <1>8, <1>10, <1>12 DEF Search

(* When a call returns, no visit within the limits is left below its node: there are
   no more children, or no more within the limit, or asking for them failed. *)
LEMMA NothingLeft ==
  ASSUME TypeOK, StackInv, FrameInv, Returned, NEW v, Lim(v), ~ Hidden(v.walk)
  PROVE  Over(v.walk)' <=> Over(v.walk)
<1>1. PICK L \in Nat : L = Len(stack) /\ L # 0 /\ L \in DOMAIN stack
  BY DEF TypeOK, Returned
<1>2. PICK w : w = v.walk
  OBVIOUS
<1>3. w \in Walk
  BY <1>2, LimType
<1>4. SUFFICES ASSUME L < Len(w), On(w, L), w[L+1] >= Pos(L) PROVE FALSE
  <2>1. Over(w)' <=> Over(w) \/ (L < Len(w) /\ On(w, L) /\ w[L+1] >= Pos(L))
    BY <1>1, <1>3, OverReturned
  <2>2. (Over(v.walk)' <=> Over(w)') /\ (Over(v.walk) <=> Over(w))
    BY <1>2
  <2> QED
    BY <2>1, <2>2
<1>5. PICK frame : frame = stack[L]
  OBVIOUS
<1>6. /\ frame.walk \in Walk /\ Len(frame.walk) = L /\ On(frame.walk, L)
      /\ frame.next \in Nat /\ frame.children \in Seq(Node)
      /\ Pos(L) = frame.next
  <2>1. frame \in Frame /\ frame.walk \in Walk /\ Len(frame.walk) = L /\ On(frame.walk, L)
    BY <1>1, <1>5, FrameOf
  <2>2. frame.next \in Nat /\ frame.children \in Seq(Node)
    BY <2>1 DEF Frame
  <2>3. Pos(L) = frame.next
    BY <1>1, <1>5 DEF Pos
  <2> QED
    BY <2>1, <2>2, <2>3
<1>7. PICK m \in Node :
        /\ [node |-> m, walk |-> frame.walk] \in Browsed[L-1]
        /\ frame.children = IF FailedChildren(frame.walk) THEN <<>> ELSE children[m]
  BY <1>1, <1>5 DEF FrameInv
<1>8. PICK l \in 0..MaxLevel : v \in Browsed[l]
  BY DEF Lim
<1>9. l \in Nat /\ Len(w) = l + 1 /\ L-1 \in Nat /\ L-1 < l /\ (L-1)+2 = L+1
  <2>1. l \in Nat /\ Len(w) = l + 1
    BY <1>2, <1>8, NewAssumption, ReachedType
  <2> QED
    BY <1>1, <1>4, <2>1
<1>10. PICK u \in Browsed[L-1] : Through(w, u.walk) /\ Within(children, u, w[L+1])
  <2>1. \E u \in Browsed[L-1] : Through(w, u.walk) /\ Within(children, u, w[(L-1)+2])
    BY <1>2, <1>8, <1>9, ReachedAbove
  <2> QED
    BY <1>9, <2>1
<1>11. Through(w, frame.walk)
  BY <1>4, <1>6 DEF Through, On
<1>12. u.walk = frame.walk
  <2>1. u.walk \in Walk /\ Len(u.walk) = (L-1) + 1
    BY <1>9, <1>10, ReachedType
  <2>2. Len(u.walk) = Len(frame.walk)
    BY <1>1, <1>6, <2>1
  <2>3. PICK a, b : a = u.walk /\ b = frame.walk
    OBVIOUS
  <2>4. a = b
    BY <1>3, <1>6, <1>10, <1>11, <2>1, <2>2, <2>3, ThroughSame
  <2> QED
    BY <2>3, <2>4
<1>13. u.node = m
  <2>1. PICK x : x = [node |-> m, walk |-> frame.walk]
    OBVIOUS
  <2>2. x \in Browsed[L-1] /\ x.walk = u.walk
    BY <1>7, <1>12, <2>1
  <2>3. u = x
    BY <1>9, <1>10, <2>2, ReachedUnique
  <2> QED
    BY <2>1, <2>3
<1>14. /\ w[L+1] \in DOMAIN children[m]
       /\ MaxNodePerParent > 0 => w[L+1] <= MaxNodePerParent + 2
  BY <1>10, <1>13 DEF Within
<1>15. ~ FailedChildren(frame.walk)
  <2>1. SUFFICES ASSUME FailedChildren(frame.walk) PROVE Hidden(w)
    BY <1>2
  <2>2. PICK f \in failed : f = [walk |-> frame.walk, of |-> "children"]
    BY <2>1 DEF FailedChildren
  <2>3. f.of = "children" /\ Through(w, f.walk) /\ Len(f.walk) < Len(w)
    BY <1>4, <1>6, <1>11, <2>2
  <2> QED
    BY <1>3, <2>2, <2>3, HiddenDef
<1>16. frame.children = children[m]
  BY <1>7, <1>15
<1>17. Exhausted(frame)
  BY <1>1, <1>5 DEF Returned, Last
<1>18. w[L+1] >= frame.next
  BY <1>4, <1>6
<1>19. w[L+1] \in Nat /\ w[L+1] <= Len(frame.children) /\ Len(frame.children) \in Nat
  BY <1>6, <1>14, <1>16
<1> QED
  BY <1>6, <1>14, <1>17, <1>18, <1>19, NewAssumption DEF Exhausted

LEMMA SearchReturned ==
  ASSUME TypeOK, StackInv, Search, Returned
  PROVE  Search'
<1>1. /\ UNCHANGED <<nodesToCollect, failed, server, config>>
      /\ stack' \in Seq(Frame) /\ Len(stack) \in Nat
      /\ Len(stack') = Len(stack) - 1
      /\ \A k \in 1..Len(stack') : stack'[k] = stack[k]
  BY DEF Returned, TypeOK
<1>2. Browsed' = Browsed /\ children' = children
  BY <1>1, ReachedStays DEF server
<1>3. FrameInv'
  <2>1. ASSUME NEW k \in DOMAIN stack'
        PROVE  /\ \E m \in Node :
                    /\ [node |-> m, walk |-> stack'[k].walk] \in Browsed'[k-1]
                    /\ stack'[k].children = IF FailedChildren(stack'[k].walk)
                                            THEN <<>> ELSE children'[m]
               /\ k < Len(stack') => stack'[k].next - 1 \in DOMAIN stack'[k].children
    <3>1. k \in 1..Len(stack') /\ k < Len(stack) /\ k \in DOMAIN stack
      BY <1>1 DEF TypeOK
    <3>2. stack'[k] = stack[k]
      BY <1>1, <3>1
    <3>3. PICK m \in Node :
            /\ [node |-> m, walk |-> stack[k].walk] \in Browsed[k-1]
            /\ stack[k].children = IF FailedChildren(stack[k].walk) THEN <<>> ELSE children[m]
      BY <3>1 DEF Search, FrameInv
    <3>4. stack[k].next - 1 \in DOMAIN stack[k].children
      BY <3>1 DEF Search, FrameInv
    <3> QED
      BY <1>2, <3>2, <3>3, <3>4
  <2> QED
    BY <1>1, <2>1 DEF FrameInv, FailedChildren
<1>4. FailedIsOver'
  <2>1. \A f \in failed : f.walk \in Walk /\ f.walk # <<>> /\ Over(f.walk)
    BY DEF TypeOK, Search, FailedIsOver
  <2>2. \A w \in Walk : Over(w) => Over(w)'
    BY OverReturned
  <2> QED
    BY <1>1, <2>1, <2>2 DEF FailedIsOver
<1>5. ASSUME NEW v PROVE v \in Collected' <=> v \in DataBrowsed' /\ Over(v.walk)'
  <2>1. Collected' = Collected
    BY <1>1 DEF Collected
  <2>2. v \in Collected <=> v \in DataBrowsed /\ Over(v.walk)
    BY DEF Search
  <2>3. Hidden(v.walk)' <=> Hidden(v.walk)
    BY <1>1 DEF Hidden
  <2>4. v \in DataBrowsed' <=> v \in DataBrowsed
    BY <1>1, <2>3, DataElements, DataElementsNext
  <2>5. v \in DataBrowsed => (Over(v.walk)' <=> Over(v.walk))
    BY DataElements, NothingLeft DEF Search
  <2> QED
    BY <2>1, <2>2, <2>4, <2>5
<1>6. Collected' = {v \in DataBrowsed : Over(v.walk)}'
  BY <1>5
<1> QED
  BY <1>3, <1>4, <1>6 DEF Search

(* Before the first visit nothing is over. *)
LEMMA SearchStart ==
  ASSUME TypeOK, stack = <<>>, root = 1, nodesToCollect = <<>>, failed = {}
  PROVE  Search
<1>1. ASSUME NEW v, Lim(v) PROVE ~ Over(v.walk)
  <2>1. PICK w : w = v.walk
    OBVIOUS
  <2>2. w \in Walk /\ Len(w) \in 1..MaxLevel+1
    BY <1>1, <2>1, LimType
  <2>3. 0 < Len(w) /\ On(w, 0) /\ w[1] \in Nat \ {0}
    BY <2>2, WalkType, NewAssumption DEF On
  <2>4. ~ Over(w)
    <3>1. 0 \in 0..Len(stack) /\ Pos(0) = 1 /\ 0 + 1 = 1
      BY DEF Pos
    <3> QED
      BY <2>3, <3>1 DEF Over
  <2> QED
    BY <2>1, <2>4
<1>2. Collected = {v \in DataBrowsed : Over(v.walk)}
  <2>1. Collected = {}
    BY DEF Collected
  <2> QED
    BY <1>1, <2>1, DataElements
<1> QED
  BY <1>2 DEF Search, FrameInv, FailedIsOver

LEMMA SearchStays ==
  ASSUME Search, UNCHANGED <<server, config, root, stack, nodesToCollect, failed>>
  PROVE  Search'
<1>1. Browsed' = Browsed /\ children' = children /\ kind' = kind
  BY ReachedStays DEF server
<1>2. FrameInv'
  BY <1>1 DEF Search, FrameInv, FailedChildren
<1>3. FailedIsOver'
  <2>1. \A w : Over(w)' <=> Over(w)
    BY DEF Over, On, Pos
  <2> QED
    BY <2>1 DEF Search, FailedIsOver
<1>4. ASSUME NEW v PROVE v \in Collected' <=> v \in DataBrowsed' /\ Over(v.walk)'
  <2>1. Collected' = Collected
    BY DEF Collected
  <2>2. Hidden(v.walk)' <=> Hidden(v.walk)
    BY DEF Hidden
  <2>3. v \in DataBrowsed' <=> v \in DataBrowsed
    BY <2>2, DataElements, DataElementsNext
  <2>4. Over(v.walk)' <=> Over(v.walk)
    BY DEF Over, On, Pos
  <2> QED
    BY <2>1, <2>3, <2>4 DEF Search
<1>5. Collected' = {v \in DataBrowsed : Over(v.walk)}'
  BY <1>4
<1> QED
  BY <1>2, <1>3, <1>5 DEF Search

LEMMA SearchNext == TypeOK /\ StackInv /\ SearchInv /\ [Next]_vars => SearchInv'
<1> SUFFICES ASSUME TypeOK, StackInv, SearchInv, [Next]_vars PROVE SearchInv'
  OBVIOUS
<1>1. ASSUME NEW n \in Node, NEW N \in Walk, Visited(n, N) PROVE SearchInv'
  <2>1. pc = "browse" /\ pc' = "browse"
    BY <1>1 DEF Visited
  <2>2. CASE TooDeep(N)
    BY <1>1, <2>1, <2>2, SearchTooDeep DEF SearchInv
  <2>3. CASE ~ TooDeep(N)
    BY <1>1, <2>1, <2>3, SearchVisit DEF SearchInv
  <2> QED
    BY <2>2, <2>3
<1>2. CASE Returned
  <2>1. pc = "browse" /\ pc' = "browse"
    BY <1>2 DEF Returned
  <2> QED
    BY <1>2, <2>1, SearchReturned DEF SearchInv
<1>3. CASE Appended
  BY <1>3 DEF Appended, SearchInv
<1>4. CASE Elsewhere
  <2>1. /\ UNCHANGED <<server, config, root, stack, nodesToCollect, failed>>
        /\ pc' = "connect" => pc = "connect"
        /\ pc' = "browse" => pc \in {"connect", "browse"}
    BY <1>4 DEF Elsewhere
  <2>2. ASSUME pc' = "browse", MaxLevel > 0 PROVE Search
    <3>1. CASE pc = "browse"
      BY <2>2, <3>1 DEF SearchInv
    <3>2. CASE pc = "connect"
      <4>1. stack = <<>> /\ root = 1 /\ nodesToCollect = <<>> /\ failed = {}
        BY <3>2 DEF SearchInv, StackInv
      <4> QED
        BY <4>1, SearchStart
    <3> QED
      BY <2>1, <2>2, <3>1, <3>2
  <2>3. ASSUME pc' = "browse", MaxLevel > 0 PROVE Search'
    BY <2>1, <2>2, <2>3, SearchStays
  <2> QED
    BY <2>1, <2>3 DEF SearchInv
<1> QED
  BY <1>1, <1>2, <1>3, <1>4, Steps

(* When the roots are done every walk that browse takes is over. *)
LEMMA SearchEnds ==
  ASSUME TypeOK, SearchInv, pc = "browse", Searched, MaxLevel > 0
  PROVE  DataBrowsed = Collected
<1>1. stack = <<>> /\ root > Len(nodeObjsToBrowse)
  BY DEF Searched
<1>2. ASSUME NEW v, Lim(v) PROVE Over(v.walk)
  <2>1. PICK w : w = v.walk
    OBVIOUS
  <2>2. w \in Walk
    BY <1>2, <2>1, LimType
  <2>3. w[1] \in DOMAIN nodeObjsToBrowse
    <3>1. PICK l \in 0..MaxLevel : v \in Browsed[l]
      BY <1>2 DEF Lim
    <3>2. l \in Nat
      BY <3>1, NewAssumption
    <3> QED
      BY <2>1, <3>1, <3>2, ReachedStart
  <2>4. w[1] < root
    <3>1. root \in Nat
      BY DEF TypeOK
    <3>2. nodeObjsToBrowse \in Seq(Node)
      BY RootsType
    <3> QED
      BY <1>1, <2>3, <3>1, <3>2
  <2>5. Over(w)
    BY <1>1, <2>4 DEF Over, Pos
  <2> QED
    BY <2>1, <2>5
<1>3. Collected = {v \in DataBrowsed : Over(v.walk)}
  BY DEF SearchInv, Search
<1> QED
  BY <1>2, <1>3, DataElements

-----------------------------------------------------------------------------
(* ReachedAt for given roots and references: like Reach, with every child. *)
AllOnward(refs, X) ==
  UNION {{[node |-> refs[v.node][i], walk |-> Append(v.walk, i)] : i \in DOMAIN refs[v.node]} :
         v \in X}

AllReach(roots, refs) ==
  CHOOSE f : f = [l \in Nat |-> IF l = 0 THEN Start(roots) ELSE AllOnward(refs, f[l-1])]

LEMMA ReachedIsAllReach ==
  ReachedAt = AllReach(nodeObjsToBrowse, children)
BY DEF ReachedAt, AllReach, Start, AllOnward

LEMMA AllOnwardType ==
  ASSUME NEW refs \in [Node -> Seq(Node)], NEW X \in SUBSET Visit
  PROVE  AllOnward(refs, X) \in SUBSET Visit
<1> SUFFICES ASSUME NEW v \in X, NEW i \in DOMAIN refs[v.node]
             PROVE  [node |-> refs[v.node][i], walk |-> Append(v.walk, i)] \in Visit
  BY DEF AllOnward
<1>1. v.node \in Node /\ v.walk \in Walk
  BY DEF Visit
<1>2. refs[v.node] \in Seq(Node)
  BY <1>1
<1>3. i \in Nat \ {0} /\ refs[v.node][i] \in Node
  BY <1>2
<1>4. Append(v.walk, i) \in Walk
  BY <1>1, <1>3 DEF Walk
<1> QED
  BY <1>3, <1>4 DEF Visit

LEMMA AllReachEquation ==
  ASSUME NEW roots \in Seq(Node), NEW refs \in [Node -> Seq(Node)]
  PROVE  /\ AllReach(roots, refs)[0] = Start(roots)
         /\ \A l \in Nat : AllReach(roots, refs)[l+1] = AllOnward(refs, AllReach(roots, refs)[l])
<1>1. PICK S : S = SUBSET Visit
  OBVIOUS
<1>2. PICK step : step = [X \in S |-> AllOnward(refs, X)]
  OBVIOUS
<1>3. Start(roots) \in S /\ step \in [S -> S]
  BY <1>1, <1>2, StartType, AllOnwardType
<1>4. PICK f \in [Nat -> S] : f[0] = Start(roots) /\ \A n \in Nat : f[n+1] = step[f[n]]
  <2>1. \E f : Recurses(f, S, Start(roots), step)
    BY <1>3, Recursion
  <2> QED
    BY <2>1 DEF Recurses
<1> DEFINE Body(g) == [l \in Nat |-> IF l = 0 THEN Start(roots) ELSE AllOnward(refs, g[l-1])]
<1>5. f = Body(f)
  <2>1. \A l \in Nat : f[l] = IF l = 0 THEN Start(roots) ELSE AllOnward(refs, f[l-1])
    <3> SUFFICES ASSUME NEW l \in Nat, l # 0 PROVE f[l] = AllOnward(refs, f[l-1])
      BY <1>4
    <3>1. l-1 \in Nat /\ (l-1)+1 = l
      OBVIOUS
    <3>2. f[l-1] \in S
      BY <3>1
    <3>3. f[(l-1)+1] = step[f[l-1]]
      BY <1>4, <3>1
    <3> QED
      BY <1>2, <3>1, <3>2, <3>3
  <2> QED
    BY <2>1
<1>6. PICK g : g = AllReach(roots, refs)
  OBVIOUS
<1>7. g = Body(g)
  <2>1. g = CHOOSE h : h = Body(h)
    BY <1>6 DEF AllReach
  <2> HIDE DEF Body
  <2> QED
    BY <1>5, <2>1
<1>8. g[0] = Start(roots)
  BY <1>7, Zenon
<1>9. ASSUME NEW l \in Nat PROVE g[l+1] = AllOnward(refs, g[l])
  <2>1. l+1 \in Nat /\ l+1 # 0 /\ (l+1)-1 = l
    OBVIOUS
  <2>2. g[l+1] = AllOnward(refs, g[(l+1)-1])
    BY <1>7, <2>1, Zenon
  <2> QED
    BY <2>1, <2>2
<1> QED
  BY <1>6, <1>8, <1>9

(* ReachedAt unfolds; its walks have numbers of the children. *)
LEMMA ReachedEquation ==
  ASSUME TypeOK
  PROVE  /\ ReachedAt[0] = Browsed[0]
         /\ \A l \in Nat : ReachedAt[l+1] = AllOnward(children, ReachedAt[l])
         /\ \A l \in Nat : Browsed[l+1] = Onward(children, Browsed[l])
<1>1. PICK roots \in Seq(Node), refs \in [Node -> Seq(Node)] :
        roots = nodeObjsToBrowse /\ refs = children /\ Browsed = Reach(roots, refs)
  BY Reaching
<1>2. ReachedAt = AllReach(roots, refs)
  BY <1>1, ReachedIsAllReach
<1>3. /\ AllReach(roots, refs)[0] = Start(roots)
      /\ \A l \in Nat : AllReach(roots, refs)[l+1] = AllOnward(refs, AllReach(roots, refs)[l])
  BY AllReachEquation
<1>4. /\ Reach(roots, refs)[0] = Start(roots)
      /\ \A l \in Nat : Reach(roots, refs)[l+1] = Onward(refs, Reach(roots, refs)[l])
  BY ReachEquation
<1> QED
  BY <1>1, <1>2, <1>3, <1>4

(* Every walk that browse takes is a walk of the graph. *)
LEMMA BrowsedReached ==
  ASSUME TypeOK
  PROVE  \A l \in Nat : Browsed[l] \subseteq ReachedAt[l]
<1> DEFINE P == {l \in Nat : Browsed[l] \subseteq ReachedAt[l]}
<1>1. 0 \in P
  BY ReachedEquation
<1>2. ASSUME NEW l \in Nat, l \in P PROVE l+1 \in P
  <2>1. Browsed[l] \subseteq ReachedAt[l]
    BY <1>2
  <2>2. Onward(children, Browsed[l]) \subseteq AllOnward(children, ReachedAt[l])
    BY <2>1 DEF Onward, AllOnward
  <2>3. Browsed[l+1] \subseteq ReachedAt[l+1] /\ l+1 \in Nat
    BY <2>2, ReachedEquation
  <2> QED
    BY <2>3
<1>3. \A l \in Nat : l \in P
  <2> HIDE DEF P
  <2> QED
    BY <1>1, <1>2, Induct
<1> QED
  BY <1>3

(* browse takes every walk whose children are within the limit. *)
LEMMA AllowedBrowsed ==
  ASSUME TypeOK
  PROVE  \A l \in Nat : \A v \in ReachedAt[l] :
           WithinLimit(v.walk) => v \in Browsed[l]
<1> DEFINE P == {l \in Nat : \A v \in ReachedAt[l] :
                   v \in Visit /\ (WithinLimit(v.walk) => v \in Browsed[l])}
<1>0. \A l \in Nat : Browsed[l] \subseteq Visit
  BY ReachedType
<1>1. 0 \in P
  BY <1>0, ReachedEquation
<1>2. ASSUME NEW l \in Nat, l \in P PROVE l+1 \in P
  <2>1. ASSUME NEW v \in ReachedAt[l+1]
        PROVE  v \in Visit /\ (WithinLimit(v.walk) => v \in Browsed[l+1])
    <3>1. PICK u \in ReachedAt[l] :
            \E i \in DOMAIN children[u.node] :
              v = [node |-> children[u.node][i], walk |-> Append(u.walk, i)]
      <4>1. v \in AllOnward(children, ReachedAt[l])
        BY <2>1, ReachedEquation
      <4> QED
        BY <4>1 DEF AllOnward
    <3>2. PICK i \in DOMAIN children[u.node] :
            v = [node |-> children[u.node][i], walk |-> Append(u.walk, i)]
      BY <3>1
    <3>3. u \in Visit /\ u.walk \in Walk /\ u.node \in Node /\ (WithinLimit(u.walk) => u \in Browsed[l])
      BY <1>2 DEF Visit
    <3>4. children[u.node] \in Seq(Node) /\ i \in Nat \ {0} /\ children[u.node][i] \in Node
      BY <3>3 DEF TypeOK
    <3>5. PICK L \in Nat : L = Len(u.walk)
      BY <3>3 DEF Walk
    <3>6. PICK w : w = Append(u.walk, i)
      OBVIOUS
    <3>7. w \in Walk /\ Len(w) = L+1 /\ w[L+1] = i /\ \A k \in 1..L : w[k] = u.walk[k]
      BY <3>3, <3>4, <3>5, <3>6 DEF Walk
    <3>8. v \in Visit /\ v.walk = w
      BY <3>2, <3>4, <3>6, <3>7 DEF Visit
    <3>9. ASSUME WithinLimit(w) PROVE v \in Browsed[l+1]
      <4>1. WithinLimit(u.walk)
        <5>1. MaxNodePerParent > 0 => \A k \in 2..L+1 : w[k] <= MaxNodePerParent
          BY <3>7, <3>9 DEF WithinLimit
        <5>2. \A k \in 2..L : k \in 2..L+1 /\ k \in 1..L
          OBVIOUS
        <5>3. MaxNodePerParent > 0 => \A k \in 2..L : u.walk[k] <= MaxNodePerParent
          BY <3>7, <5>1, <5>2
        <5> QED
          BY <3>5, <5>3 DEF WithinLimit
      <4>2. L # 0
        BY <3>1, <3>3, <3>5, <4>1, ReachedType
      <4>3. MaxNodePerParent > 0 => i <= MaxNodePerParent
        BY <3>7, <3>9, <4>2 DEF WithinLimit
      <4>4. Within(children, u, i)
        BY <3>4, <4>3, NewAssumption DEF Within
      <4>5. Leads(children, u, v)
        BY <3>2, <4>4 DEF Leads, ChildOf
      <4>6. v \in Onward(children, Browsed[l])
        BY <3>3, <4>1, <4>5, OnwardElements
      <4> QED
        BY <4>6, ReachedEquation
    <3> QED
      BY <3>8, <3>9
  <2> QED
    BY <2>1
<1>3. \A l \in Nat : l \in P
  <2> HIDE DEF P
  <2> QED
    BY <1>1, <1>2, Induct
<1> QED
  BY <1>3

LEMMA SearchFinds == TypeOK /\ SearchInv => FindsWithinLimits
<1> SUFFICES ASSUME TypeOK, SearchInv, pc = "browse", Searched, MaxLevel > 0
             PROVE  /\ {v \in DataWithinLevels : WithinLimit(v.walk)} \subseteq Collected
                    /\ Collected \subseteq DataWithinLevels
  BY DEF FindsWithinLimits
<1>1. DataBrowsed = Collected
  BY SearchEnds
<1>2. \A l \in 0..MaxLevel : l \in Nat
  BY NewAssumption
<1>3. DataBrowsed \subseteq DataWithinLevels
  <2>1. \A l \in 0..MaxLevel : Browsed[l] \subseteq ReachedAt[l]
    BY <1>2, BrowsedReached
  <2> QED
    BY <2>1 DEF DataBrowsed, DataWithinLevels
<1>4. {v \in DataWithinLevels : WithinLimit(v.walk)} \subseteq DataBrowsed
  <2>1. \A l \in 0..MaxLevel : \A v \in ReachedAt[l] : WithinLimit(v.walk) => v \in Browsed[l]
    BY <1>2, AllowedBrowsed
  <2> QED
    BY <2>1 DEF DataBrowsed, DataWithinLevels
<1> QED
  BY <1>1, <1>3, <1>4

(* Browsing finds the node with data at the end of every walk that browse.maxLevel
   and browse.maxNodePerParent allow, and none beyond browse.maxLevel: for every
   graph, with cycles and with nodes referenced more than once, and with any
   requests failing. *)
THEOREM FindsAll == Spec => []FindsWithinLimits
<1>1. Init => SearchInv
  BY DEF Init, SearchInv
<1>2. WalkInv => TypeOK /\ StackInv
  BY DEF WalkInv
<1>3. TypeOK /\ StackInv /\ SearchInv /\ [Next]_vars => SearchInv'
  BY SearchNext
<1>4. TypeOK /\ SearchInv => FindsWithinLimits
  BY SearchFinds
<1> QED
  BY <1>1, <1>2, <1>3, <1>4, WalkInvariance, PTL DEF Spec

=============================================================================
