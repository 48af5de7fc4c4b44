--------------------------- MODULE Plc4xValue_proofs ---------------------------
(* What a Fetch of Plc4xValue reports, for any number of nodes. *)
EXTENDS Plc4xValue, TLAPS

(* The nodes from the first to the k-th. *)
FirstNodes(k) == [i \in 1..k |-> i]

(* While it runs, read has the values of the nodes before the one it reads, and
   nothing is reported before it returned. *)
ReadInv ==
  /\ retVal = FirstNodes(Len(retVal))
  /\ pc = "read" => Len(retVal) = next - 1
  /\ events = FirstNodes(Len(events))
  /\ pc \in {"read", "publish", "connect", "failed"} => events = <<>>
  /\ pc = "idle" /\ result = "error" => events = <<>>

IInv == TypeOK /\ ReadInv

(* A value more continues the prefix. *)
LEMMA PrefixGrows ==
  ASSUME NEW s \in Seq(1..NodeCount), s = FirstNodes(Len(s))
  PROVE  Append(s, Len(s) + 1) = FirstNodes(Len(s) + 1)
<1>1. Len(s) \in Nat /\ DOMAIN s = 1..Len(s)
  OBVIOUS
<1>2. \A i \in 1..Len(s) : s[i] = i
  BY DEF FirstNodes
<1>3. Append(s, Len(s) + 1) = [i \in 1..Len(s)+1 |-> IF i = Len(s) + 1 THEN Len(s) + 1 ELSE s[i]]
  BY <1>1
<1> QED
  BY <1>1, <1>2, <1>3 DEF FirstNodes

(* Before New connects nothing was read. *)
LEMMA ReadInit == Init => IInv
<1> SUFFICES ASSUME Init PROVE IInv
  OBVIOUS
<1>1. TypeOK
  <2>1. <<>> \in Seq(1..NodeCount) /\ Len(<<>>) <= NodeCount
    BY Plc4xAssumption DEF Plc4xAssumption
  <2>2. 1 \in 1..NodeCount+1
    BY Plc4xAssumption DEF Plc4xAssumption
  <2> QED
    BY <2>1, <2>2 DEF Init, TypeOK
<1>2. <<>> = FirstNodes(0) /\ Len(<<>>) = 0
  BY DEF FirstNodes
<1> QED
  BY <1>1, <1>2 DEF Init, IInv, ReadInv

(* Every step keeps what is read and reported a prefix of the nodes. *)
LEMMA ReadNext == IInv /\ [Next]_vars => IInv'
<1> SUFFICES ASSUME IInv, [Next]_vars PROVE IInv'
  OBVIOUS
<1> USE Plc4xAssumption DEF Plc4xAssumption, IInv, client, collected
<1>1. CASE ConnectOk
  BY <1>1 DEF ConnectOk, TypeOK, ReadInv
<1>2. CASE ConnectFails
  <2>1. tries' \in 0..RetryOnErrorCount \union {1}
    BY <1>2 DEF ConnectFails, TypeOK
  <2>2. link' \in BOOLEAN
    BY <1>2, Zenon DEF ConnectFails, TypeOK
  <2> QED
    BY <1>2, <2>1, <2>2 DEF ConnectFails, TypeOK, ReadInv
<1>3. CASE ConnectGivesUp
  BY <1>3 DEF ConnectGivesUp, TypeOK, ReadInv
<1>4. CASE FetchStart
  <2>1. TypeOK'
    BY <1>4 DEF FetchStart, TypeOK
  <2>2. retVal' = <<>> /\ events' = <<>> /\ next' = 1
    BY <1>4 DEF FetchStart
  <2>3. <<>> = FirstNodes(0) /\ Len(<<>>) = 0
    BY DEF FirstNodes
  <2>4. pc' # "idle"
    BY <1>4 DEF FetchStart
  <2> QED
    BY <2>1, <2>2, <2>3, <2>4 DEF ReadInv
<1>5. CASE ReadOk
  <2>1. /\ pc' = "read" /\ pc = "read" /\ next \in 1..NodeCount
        /\ retVal' = Append(retVal, next) /\ next' = next + 1
        /\ events' = events /\ UNCHANGED <<link, connected, tries, started, result>>
    BY <1>5 DEF ReadOk, TypeOK
  <2>2. /\ retVal \in Seq(1..NodeCount) /\ next = Len(retVal) + 1
        /\ retVal = FirstNodes(Len(retVal))
    BY <2>1 DEF TypeOK, ReadInv
  <2>3. retVal' = FirstNodes(next)
    BY <2>1, <2>2, PrefixGrows
  <2>4. Len(retVal') = next /\ retVal' \in Seq(1..NodeCount)
    BY <2>1, <2>2
  <2>5. TypeOK'
    BY <2>1, <2>4 DEF TypeOK
  <2> QED
    BY <2>1, <2>3, <2>4, <2>5 DEF ReadInv
<1>6. CASE ReadRefused
  BY <1>6 DEF ReadRefused, TypeOK, ReadInv
<1>7. CASE ReadFails
  BY <1>7 DEF ReadFails, TypeOK, ReadInv
<1>8. CASE ReadAll
  BY <1>8 DEF ReadAll, TypeOK, ReadInv
<1>9. CASE Publish
  BY <1>9 DEF Publish, TypeOK, ReadInv
<1>10. CASE LinkLost
  BY <1>10 DEF LinkLost, TypeOK, ReadInv
<1>11. CASE UNCHANGED vars
  BY <1>11 DEF vars, TypeOK, ReadInv
<1> QED
  BY <1>1, <1>2, <1>3, <1>4, <1>5, <1>6, <1>7, <1>8, <1>9, <1>10, <1>11
     DEF Next, establishConnection, Fetch

(* Type correctness: read returns at most one value of each node. *)
THEOREM ValueTypeCorrect == Spec => []TypeOK
<1>1. IInv => TypeOK
  BY DEF IInv
<1> QED
  BY <1>1, ReadInit, ReadNext, PTL DEF Spec

(* Whatever requests are refused or fail, a Fetch reports the first nodes in the
   order of the configuration, all read by itself, and nothing if it fails. *)
THEOREM FetchReportsAPrefix == Spec => []ReportsAPrefix
<1>1. IInv => ReportsAPrefix
  BY DEF IInv, ReadInv, ReportsAPrefix, FirstNodes
<1> QED
  BY <1>1, ReadInit, ReadNext, PTL DEF Spec
=============================================================================
