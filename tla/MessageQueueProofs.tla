------------------------- MODULE MessageQueueProofs -------------------------
(* Proofs about MessageQueue, for any number of messages.                  *)
EXTENDS MessageQueue, SequenceTheorems, TLAPS

\* What is handled is behind every message of the reader's that still waits
HandledFirst ==
  \A i \in 1..Len(handled) : \A n \in waiting \cap own : handled[i] < n

IInv == TypeOK /\ InOrder /\ HandledFirst /\ NothingLost

LEMMA InitIInv == Init => IInv
  BY SMT DEF Init, IInv, TypeOK, InOrder, HandledFirst, NothingLost

LEMMA ArriveIInv == IInv /\ Arrive => IInv'
<1> SUFFICES ASSUME IInv, Arrive
             PROVE  IInv'
  OBVIOUS
<1>a. /\ handled \in Seq(own)
      /\ own \subseteq 1..latest
      /\ latest \in Nat
  BY DEF IInv, TypeOK
<1>b. own \subseteq own' /\ handled' = handled
  BY DEF Arrive
<1>1. TypeOK'
  <2>1. handled' \in Seq(own')
    BY <1>a, <1>b, SeqMonotonic
  <2> QED BY <2>1 DEF IInv, TypeOK, Arrive
<1>2. InOrder'
  BY <1>b DEF IInv, InOrder
<1>3. HandledFirst'
  <2> SUFFICES ASSUME NEW i \in 1..Len(handled), NEW n \in (waiting \cap own)'
               PROVE  handled[i] < n
    BY <1>b DEF HandledFirst
  <2>1. handled[i] \in 1..latest
    <3>1. handled[i] \in own
      BY <1>a, ElementOfSeq
    <3> QED BY <1>a, <3>1
  <2>2. CASE n = latest + 1
    BY <1>a, <2>1, <2>2
  <2>3. CASE n # latest + 1
    <3>1. n \in waiting \cap own
      BY <2>3 DEF Arrive
    <3> QED BY <3>1 DEF IInv, HandledFirst
  <2> QED BY <2>2, <2>3
<1>4. NothingLost'
  BY DEF IInv, NothingLost, Arrive
<1> QED BY <1>1, <1>2, <1>3, <1>4 DEF IInv

LEMMA HandleIInv == ASSUME NEW n \in waiting, IInv, Handle(n) PROVE IInv'
<1> USE DEF IInv, Handle
<1> DEFINE k == Len(handled)
<1>1. /\ handled \in Seq(own)
      /\ n \in own
      /\ own \subseteq 1..latest
      /\ latest \in Nat
  BY DEF TypeOK
<1>2. /\ handled' \in Seq(own)
      /\ Len(handled') = k + 1
      /\ handled'[k + 1] = n
      /\ \A i \in 1..k : handled'[i] = handled[i]
  BY <1>1
<1>3. TypeOK'
  BY <1>2 DEF TypeOK
<1>4. \A i \in 1..k : handled[i] < n
  BY <1>1 DEF HandledFirst
<1>5. InOrder'
  <2> SUFFICES ASSUME NEW i \in 1..Len(handled'), NEW j \in 1..Len(handled'), i < j
               PROVE  handled'[i] < handled'[j]
    BY DEF InOrder
  <2>1. k \in Nat
    BY <1>1
  <2>2. i \in 1..k
    BY <1>2, <2>1
  <2>3. CASE j = k + 1
    BY <1>2, <1>4, <2>2, <2>3
  <2>4. CASE j # k + 1
    <3>1. j \in 1..k
      BY <1>2, <2>1, <2>4
    <3> QED BY <1>2, <2>2, <3>1 DEF InOrder
  <2> QED BY <2>3, <2>4
<1>6. HandledFirst'
  <2> SUFFICES ASSUME NEW i \in 1..Len(handled'), NEW m \in waiting' \cap own
               PROVE  handled'[i] < m
    BY DEF HandledFirst
  <2>1. m \in waiting \cap own /\ m # n /\ n <= m /\ m \in Nat /\ n \in Nat
    BY <1>1
  <2>2. CASE i = k + 1
    BY <1>2, <2>1, <2>2
  <2>3. CASE i # k + 1
    <3>1. i \in 1..k
      BY <1>1, <1>2, <2>3
    <3> QED BY <1>2, <2>1, <3>1 DEF HandledFirst
  <2> QED BY <2>2, <2>3
<1>7. NothingLost'
  <2> SUFFICES ASSUME NEW m \in own
               PROVE  m \in waiting' \/ \E i \in 1..Len(handled') : handled'[i] = m
    BY DEF NothingLost
  <2>1. CASE m = n
    BY <1>1, <1>2, <2>1
  <2>2. CASE m # n
    <3>1. m \in waiting' \/ \E i \in 1..k : handled[i] = m
      BY <2>2 DEF NothingLost
    <3>2. \A i \in 1..k : i \in 1..Len(handled')
      BY <1>1, <1>2
    <3> QED BY <1>2, <3>1, <3>2
  <2> QED BY <2>1, <2>2
<1> QED BY <1>3, <1>5, <1>6, <1>7

LEMMA DiscardIInv == ASSUME NEW n \in waiting, IInv, Discard(n) PROVE IInv'
<1> USE DEF IInv, Discard
<1>1. TypeOK'
  BY DEF TypeOK
<1>2. InOrder'
  BY DEF InOrder
<1>3. HandledFirst'
  BY DEF HandledFirst
<1>4. NothingLost'
  BY DEF NothingLost
<1> QED BY <1>1, <1>2, <1>3, <1>4

LEMMA PurgeIInv == IInv /\ Purge => IInv'
  BY DEF IInv, Purge, TypeOK, InOrder, HandledFirst, NothingLost

LEMMA Invariance == Spec => []IInv
<1>1. IInv /\ [Next]_vars => IInv'
  <2> SUFFICES ASSUME IInv, [Next]_vars
               PROVE  IInv'
    OBVIOUS
  <2>1. CASE Arrive
    BY <2>1, ArriveIInv
  <2>2. ASSUME NEW n \in waiting, Handle(n)
        PROVE  IInv'
    BY <2>2, HandleIInv
  <2>3. ASSUME NEW n \in waiting, Discard(n)
        PROVE  IInv'
    BY <2>3, DiscardIInv
  <2>4. CASE Purge
    BY <2>4, PurgeIInv
  <2>5. CASE UNCHANGED vars
    BY <2>5 DEF IInv, TypeOK, InOrder, HandledFirst, NothingLost, vars
  <2> QED BY <2>1, <2>2, <2>3, <2>4, <2>5 DEF Next
<1> QED BY <1>1, InitIInv, PTL DEF Spec

\* Whoever refines MessageQueue handles messages in the order in which they
\* came and none twice (the loop of agent_run, agent.c:1061), however many.
THEOREM HandledInOrder == Spec => []InOrder
<1>1. IInv => InOrder
  BY DEF IInv
<1> QED BY <1>1, Invariance, PTL

\* Whoever refines MessageQueue loses no message that is its own, unless it
\* purges (list_purge, list.c:272).
THEOREM OwnKept == Spec => []NothingLost
<1>1. IInv => NothingLost
  BY DEF IInv
<1> QED BY <1>1, Invariance, PTL
=============================================================================
