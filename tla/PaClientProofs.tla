--------------------------- MODULE PaClientProofs ---------------------------
(***************************************************************************)
(* What holds of the calls between the agents for every set of items and   *)
(* pumps, every choice of failures and queues of every length.             *)
(***************************************************************************)
EXTENDS PaClient, SequenceTheorems, TLAPS

-----------------------------------------------------------------------------
(* The queues.                                                             *)

LEMMA Tailed ==
  ASSUME NEW S, NEW q \in Seq(S), q # <<>>
  PROVE  /\ Tail(q) \in Seq(S)
         /\ Len(Tail(q)) = Len(q) - 1
         /\ Len(q) \in Nat /\ Len(q) >= 1
         /\ DOMAIN q = 1..Len(q) /\ DOMAIN Tail(q) = 1..(Len(q) - 1)
         /\ Head(q) \in S /\ Head(q) = q[1]
         /\ \A k \in DOMAIN Tail(q) : Tail(q)[k] = q[k + 1]
<1>1. Len(q) \in Nat \ {0} /\ DOMAIN q = 1..Len(q)
  BY EmptySeq, LenProperties
<1>2. Tail(q) \in Seq(S) /\ Len(Tail(q)) = Len(q) - 1
  BY HeadTailProperties
<1>3. DOMAIN Tail(q) = 1..Len(Tail(q))
  BY <1>2, LenProperties
<1>4. \A k \in 1..Len(Tail(q)) : Tail(q)[k] = q[k + 1]
  BY HeadTailProperties
<1>5. Head(q) \in S /\ Head(q) = q[1]
  BY HeadTailProperties
<1> QED
  BY <1>1, <1>2, <1>3, <1>4, <1>5

LEMMA Appended ==
  ASSUME NEW S, NEW q \in Seq(S), NEW e \in S
  PROVE  /\ Append(q, e) \in Seq(S)
         /\ Append(q, e) # <<>>
         /\ Len(q) \in Nat /\ Len(Append(q, e)) = Len(q) + 1
         /\ DOMAIN q = 1..Len(q) /\ DOMAIN Append(q, e) = 1..(Len(q) + 1)
         /\ \A k \in DOMAIN q : Append(q, e)[k] = q[k]
         /\ Append(q, e)[Len(q) + 1] = e
<1>1. Len(q) \in Nat /\ DOMAIN q = 1..Len(q)
  BY LenProperties
<1>2. Append(q, e) \in Seq(S) /\ Len(Append(q, e)) = Len(q) + 1
  BY AppendProperties
<1>3. DOMAIN Append(q, e) = 1..Len(Append(q, e))
  BY <1>2, LenProperties
<1> QED
  BY <1>1, <1>2, <1>3, AppendProperties

LEMMA Removed ==
  ASSUME NEW S, NEW q \in Seq(S), NEW j \in DOMAIN q
  PROVE  /\ RemoveAt(q, j) \in Seq(S)
         /\ Len(q) \in Nat /\ Len(q) >= 1
         /\ Len(RemoveAt(q, j)) = Len(q) - 1
         /\ DOMAIN q = 1..Len(q)
         /\ DOMAIN RemoveAt(q, j) = 1..(Len(q) - 1)
         /\ \A k \in DOMAIN RemoveAt(q, j) :
              RemoveAt(q, j)[k] = IF k < j THEN q[k] ELSE q[k + 1]
<1> DEFINE a == SubSeq(q, 1, j - 1)
           b == SubSeq(q, j + 1, Len(q))
<1>1. Len(q) \in Nat /\ DOMAIN q = 1..Len(q) /\ j \in 1..Len(q)
  BY LenProperties
<1>2. \A k \in 1..Len(q) : q[k] \in S
  BY ElementOfSeq
<1>3. /\ a \in Seq(S) /\ Len(a) = j - 1
      /\ \A k \in 1..(j - 1) : a[k] = q[k]
  <2>1. /\ a \in Seq(S)
        /\ Len(a) = IF 1 <= j - 1 THEN (j - 1) - 1 + 1 ELSE 0
        /\ \A k \in 1..((j - 1) - 1 + 1) : a[k] = q[1 + k - 1]
    <3>1. \A k \in 1..(j - 1) : q[k] \in S
      BY <1>1, <1>2
    <3>2. 1 \in Int /\ j - 1 \in Int
      BY <1>1
    <3> QED
      BY <3>1, <3>2, SubSeqProperties
  <2> QED
    BY <1>1, <2>1
<1>4. /\ b \in Seq(S) /\ Len(b) = Len(q) - j
      /\ \A k \in 1..(Len(q) - j) : b[k] = q[j + k]
  <2>1. /\ b \in Seq(S)
        /\ Len(b) = IF j + 1 <= Len(q) THEN Len(q) - (j + 1) + 1 ELSE 0
        /\ \A k \in 1..(Len(q) - (j + 1) + 1) : b[k] = q[(j + 1) + k - 1]
    <3>1. \A k \in (j + 1)..Len(q) : q[k] \in S
      BY <1>1, <1>2
    <3>2. j + 1 \in Int /\ Len(q) \in Int
      BY <1>1
    <3> QED
      BY <3>1, <3>2, SubSeqProperties
  <2> QED
    BY <1>1, <2>1
<1> HIDE DEF a, b
<1>5. RemoveAt(q, j) = a \o b
  BY DEF RemoveAt, a, b
<1>6. /\ a \o b \in Seq(S) /\ Len(a \o b) = Len(a) + Len(b)
      /\ \A k \in 1..(Len(a) + Len(b)) :
           (a \o b)[k] = IF k <= Len(a) THEN a[k] ELSE b[k - Len(a)]
  BY <1>3, <1>4, ConcatProperties
<1>7. Len(a \o b) = Len(q) - 1 /\ DOMAIN (a \o b) = 1..(Len(q) - 1)
  <2>1. Len(a \o b) = Len(q) - 1
    BY <1>1, <1>3, <1>4, <1>6
  <2>2. DOMAIN (a \o b) = 1..Len(a \o b)
    BY <1>6, LenProperties
  <2> QED
    BY <2>1, <2>2
<1>8. ASSUME NEW k \in 1..(Len(q) - 1)
      PROVE  (a \o b)[k] = IF k < j THEN q[k] ELSE q[k + 1]
  <2>1. CASE k < j
    <3>1. k \in 1..(Len(a) + Len(b)) /\ k <= Len(a) /\ k \in 1..(j - 1)
      BY <1>1, <1>3, <1>4, <2>1
    <3> QED
      BY <3>1, <1>3, <1>6, <2>1
  <2>2. CASE ~ (k < j)
    <3>1. /\ k \in 1..(Len(a) + Len(b)) /\ ~ (k <= Len(a))
          /\ k - Len(a) \in 1..(Len(q) - j) /\ j + (k - Len(a)) = k + 1
      BY <1>1, <1>3, <1>4, <2>2
    <3> QED
      BY <3>1, <1>4, <1>6, <2>2
  <2> QED
    BY <2>1, <2>2
<1>9. \A k \in DOMAIN (a \o b) :
        (a \o b)[k] = IF k < j THEN q[k] ELSE q[k + 1]
  BY <1>7, <1>8
<1>10. Len(q) >= 1
  BY <1>1
<1> QED
  BY <1>1, <1>5, <1>6, <1>7, <1>9, <1>10

LEMMA AgedIs ==
  ASSUME NEW q \in Seq(Request), NEW from, NEW age \in Ages
  PROVE  /\ Aged(q, from, age) \in Seq(Request)
         /\ Len(Aged(q, from, age)) = Len(q)
         /\ DOMAIN Aged(q, from, age) = DOMAIN q
         /\ \A k \in DOMAIN q :
              /\ Aged(q, from, age)[k].op = q[k].op
              /\ Aged(q, from, age)[k].item = q[k].item
              /\ Aged(q, from, age)[k].age =
                   IF q[k].age \in from THEN age ELSE q[k].age
<1>1. Len(q) \in Nat /\ DOMAIN q = 1..Len(q)
  BY LenProperties
<1>2. \A k \in 1..Len(q) : q[k] \in Request
  BY ElementOfSeq
<1>3. Aged(q, from, age) \in [1..Len(q) -> Request]
  BY <1>1, <1>2 DEF Aged, Request
<1>4. Aged(q, from, age) \in Seq(Request)
  BY <1>1, <1>3
<1>5. Len(Aged(q, from, age)) = Len(q)
  BY <1>1, <1>3, <1>4, LenProperties
<1> QED
  BY <1>1, <1>2, <1>4, <1>5 DEF Aged, Request

\* What is in a queue is in the range of it, and nothing else.
LEMMA RangeIs ==
  ASSUME NEW S, NEW q \in Seq(S)
  PROVE  /\ Range(q) \subseteq S
         /\ \A x : x \in Range(q) <=> \E k \in DOMAIN q : q[k] = x
BY RangeOfSeq DEF Range

LEMMA RangeOfTail ==
  ASSUME NEW S, NEW q \in Seq(S), q # <<>>
  PROVE  Range(q) = Range(Tail(q)) \cup {Head(q)}
<1>1. ASSUME NEW x \in Range(q)
      PROVE  x \in Range(Tail(q)) \cup {Head(q)}
  <2>1. PICK k \in DOMAIN q : q[k] = x
    BY <1>1 DEF Range
  <2>2. CASE k = 1
    BY <2>1, <2>2, Tailed
  <2>3. CASE k # 1
    <3>1. k - 1 \in DOMAIN Tail(q) /\ (k - 1) + 1 = k
      BY <2>1, <2>3, Tailed
    <3> QED
      BY <2>1, <3>1, Tailed DEF Range
  <2> QED
    BY <2>2, <2>3
<1>2. ASSUME NEW x \in Range(Tail(q))
      PROVE  x \in Range(q)
  <2>1. PICK k \in DOMAIN Tail(q) : Tail(q)[k] = x
    BY <1>2 DEF Range
  <2>2. k + 1 \in DOMAIN q /\ q[k + 1] = x
    BY <2>1, Tailed
  <2> QED
    BY <2>2 DEF Range
<1>3. Head(q) \in Range(q)
  <2>1. 1 \in DOMAIN q /\ q[1] = Head(q)
    BY Tailed
  <2> QED
    BY <2>1 DEF Range
<1> QED
  BY <1>1, <1>2, <1>3

LEMMA RangeOfAppend ==
  ASSUME NEW S, NEW q \in Seq(S), NEW e \in S
  PROVE  Range(Append(q, e)) = Range(q) \cup {e}
<1>1. ASSUME NEW x \in Range(Append(q, e))
      PROVE  x \in Range(q) \cup {e}
  <2>1. PICK k \in DOMAIN Append(q, e) : Append(q, e)[k] = x
    BY <1>1 DEF Range
  <2>2. k \in DOMAIN q \/ k = Len(q) + 1
    BY <2>1, Appended
  <2> QED
    BY <2>1, <2>2, Appended DEF Range
<1>2. ASSUME NEW x \in Range(q)
      PROVE  x \in Range(Append(q, e))
  <2>1. PICK k \in DOMAIN q : q[k] = x
    BY <1>2 DEF Range
  <2>2. k \in DOMAIN Append(q, e) /\ Append(q, e)[k] = x
    BY <2>1, Appended
  <2> QED
    BY <2>2 DEF Range
<1>3. e \in Range(Append(q, e))
  <2>1. Len(q) + 1 \in DOMAIN Append(q, e) /\ Append(q, e)[Len(q) + 1] = e
    BY Appended
  <2> QED
    BY <2>1 DEF Range
<1> QED
  BY <1>1, <1>2, <1>3

-----------------------------------------------------------------------------
(* Types.  A call adds one request to the PA's queue, which becomes at     *)
(* most one reply: the two queues share their bound.                       *)

Types == TypeOK /\ Len(toPa) + Len(replies) <= MaxQueue

\* The steps of the AC's loop that touch no queue (start, stop, cooldown).
ItemStep == \E i \in Items : Start(i) \/ WarmStart(i) \/ Stop(i) \/ Cooled(i)

LEMMA ItemTypes == Types /\ ItemStep => Types'
<1> SUFFICES ASSUME Types, NEW i \in Items,
                    Start(i) \/ WarmStart(i) \/ Stop(i) \/ Cooled(i)
             PROVE  Types'
  BY DEF ItemStep
<1>1. /\ item' \in [Items -> ItemStates] /\ blind' \in BOOLEAN
      /\ UNCHANGED <<call, replies, paVars, toPa, toAc, lostRequest>>
  BY DEF Types, TypeOK, Start, WarmStart, Stop, Cooled, Become, ItemStates
<1> QED
  BY <1>1 DEF Types, TypeOK, Idle, paVars

LEMMA CallTypes ==
  ASSUME Types, NEW i \in Items, NEW op \in Ops, Call(i, op)
  PROVE  Types'
<1> DEFINE e == [op |-> op, item |-> i, age |-> "live"]
<1>1. e \in Request /\ toPa \in Seq(Request)
  BY DEF Types, TypeOK, Request, Ages
<1> HIDE DEF e
<1>2. toPa' = Append(toPa, e) /\ Len(toPa) < MaxQueue /\ replies' = <<>>
  BY DEF Call, e
<1>3. toPa' \in Seq(Request) /\ Len(toPa') = Len(toPa) + 1 /\ Len(toPa) \in Nat
  BY <1>1, <1>2, Appended
<1>4. replies' \in Seq(Reply) /\ Len(replies') = 0
  BY <1>2, EmptySeq
<1>5. Len(toPa') <= MaxQueue /\ Len(toPa') + Len(replies') <= MaxQueue
  BY <1>2, <1>3, <1>4, QueueAssumption
<1>6. call' \in Calls
  BY DEF Call, Calls
<1>7. UNCHANGED <<item, held, recalled, busy, toAc, blind, lostRequest>>
  BY DEF Call, paVars
<1> QED
  BY <1>2, <1>3, <1>4, <1>5, <1>6, <1>7, QueueAssumption DEF Types, TypeOK, Idle

LEMMA CallItem ==
  ASSUME Types, ~Idle
  PROVE  call.item \in Items /\ call.op \in Ops /\ call = [op |-> call.op, item |-> call.item]
BY DEF Types, TypeOK, Idle, Calls, NoCall

LEMMA ReturnTypes ==
  ASSUME Types, ~Idle, NEW status \in 0..1, Return(status), blind' \in BOOLEAN
  PROVE  Types'
<1>1. call.item \in Items /\ call.op \in Ops
  BY CallItem
<1>2. item' \in [Items -> ItemStates]
  <2>1. Outcome(call.op, status) \in ItemStates
    BY <1>1 DEF Outcome, Ops, ItemStates
  <2> QED
    BY <1>1, <2>1 DEF Return, Become, Types, TypeOK
<1>3. toPa' \in Seq(Request) /\ Len(toPa') = Len(toPa) /\ Len(toPa) \in Nat
  BY AgedIs, LenProperties DEF Return, Types, TypeOK, Ages
<1>4. replies' = <<>> /\ replies' \in Seq(Reply) /\ Len(replies') = 0
  BY EmptySeq DEF Return
<1>5. call' \in Calls /\ UNCHANGED <<held, recalled, busy, toAc, lostRequest>>
  BY DEF Return, Calls, paVars
<1>6. Len(toPa) <= MaxQueue /\ MaxQueue \in Nat
  BY QueueAssumption DEF Types, TypeOK
<1> QED
  BY <1>2, <1>3, <1>4, <1>5, <1>6 DEF Types, TypeOK, Idle

LEMMA GetRevokeTypes == Types /\ GetRevoke => Types'
<1> SUFFICES ASSUME Types, GetRevoke PROVE Types'
  OBVIOUS
<1>1. toAc \in Seq(Items) /\ toAc # <<>>
  BY DEF Types, TypeOK, GetRevoke
<1>2. /\ Head(toAc) \in Items /\ toAc' \in Seq(Items)
      /\ Len(toAc') = Len(toAc) - 1 /\ Len(toAc) \in Nat
  BY <1>1, Tailed DEF GetRevoke
<1>3. Len(toAc') <= MaxRecalls
  BY <1>2, QueueAssumption DEF Types, TypeOK
<1>4. item' \in [Items -> ItemStates]
  BY <1>2 DEF GetRevoke, Become, Revoked, Types, TypeOK, ItemStates
<1>5. UNCHANGED <<call, replies, held, recalled, busy, toPa, blind, lostRequest>>
  BY DEF GetRevoke, paVars
<1> QED
  BY <1>2, <1>3, <1>4, <1>5 DEF Types, TypeOK, Idle

LEMMA AcRestartTypes == Types /\ AcRestart => Types'
<1> SUFFICES ASSUME Types, AcRestart PROVE Types'
  OBVIOUS
<1>1. item' \in [Items -> ItemStates]
  BY DEF AcRestart, ItemStates
<1>2. toPa' \in Seq(Request) /\ Len(toPa') = Len(toPa) /\ Len(toPa) \in Nat
  BY AgedIs, LenProperties DEF AcRestart, Types, TypeOK, Ages
<1>3. replies' = <<>> /\ replies' \in Seq(Reply) /\ Len(replies') = 0
  BY EmptySeq DEF AcRestart
<1>4. toAc' \in Seq(Items) /\ Len(toAc') = 0
  BY EmptySeq DEF AcRestart
<1>5. call' \in Calls /\ UNCHANGED <<held, recalled, busy, blind, lostRequest>>
  BY DEF AcRestart, Calls, paVars
<1>6. Len(toPa) <= MaxQueue /\ MaxQueue \in Nat /\ 0 <= MaxRecalls
  BY QueueAssumption DEF Types, TypeOK
<1> QED
  BY <1>1, <1>2, <1>3, <1>4, <1>5, <1>6 DEF Types, TypeOK, Idle

\* What serving one request does: the reservation of its item is granted,
\* deleted or left, a reply of its age may go out, and only a release or a
\* denied reserve deletes.
LEMMA ServeIs ==
  ASSUME Types, Serve
  PROVE  /\ toPa # <<>> /\ Head(toPa) \in Request /\ toPa' = Tail(toPa)
         /\ UNCHANGED <<item, call, recalled, toAc, busy, blind, lostRequest>>
         /\ \E status \in 0..1 :
              /\ Publish(Head(toPa), status)
              /\ \/ held' = held \cup {Head(toPa).item}
                 \/ held' = held
                 \/ held' = held \ {Head(toPa).item} /\ Head(toPa).op # "repri"
              /\ Head(toPa).op = "release" => held' = held \ {Head(toPa).item}
              /\ Head(toPa).op = "reserve" /\ status = 0 =>
                   held' = held \cup {Head(toPa).item}
<1> DEFINE r == Head(toPa)
<1>1. toPa # <<>> /\ r \in Request
  BY Tailed DEF Serve, Types, TypeOK
<1>2. r.op \in {"reserve", "release", "repri"}
  BY <1>1 DEF Request, Ops
<1>3. CASE r.op = "reserve"
  <2>1. ServeReserve(r)
    BY <1>3 DEF Serve
  <2> QED
    BY <1>1, <1>3, <2>1 DEF Serve, ServeReserve
<1>4. CASE r.op = "release"
  <2>1. ServeRelease(r)
    BY <1>4 DEF Serve
  <2> QED
    BY <1>1, <1>4, <2>1 DEF Serve, ServeRelease
<1>5. CASE r.op = "repri"
  <2>1. ServeRepri(r)
    BY <1>5 DEF Serve
  <2> QED
    BY <1>1, <1>5, <2>1 DEF Serve, ServeRepri
<1> QED
  BY <1>2, <1>3, <1>4, <1>5

\* The inbox of the AC grows by at most one reply, and only during a call.
LEMMA PublishIs ==
  ASSUME Types, NEW r \in Request, NEW status \in 0..1, Publish(r, status)
  PROVE  /\ replies' \in Seq(Reply)
         /\ Len(replies) \in Nat /\ Len(replies') \in Nat
         /\ \/ replies' = replies
            \/ /\ ~Idle /\ r.age # "dead"
               /\ Len(replies') = Len(replies) + 1
               /\ \A k \in DOMAIN replies' :
                    \/ k \in DOMAIN replies /\ replies'[k] = replies[k]
                    \/ k = Len(replies) + 1
                       /\ replies'[k] = [status |-> status, age |-> r.age]
<1> DEFINE e == [status |-> status, age |-> r.age]
<1>1. e \in Reply /\ replies \in Seq(Reply) /\ Len(replies) \in Nat
  BY LenProperties DEF Reply, Request, Types, TypeOK
<1>2. CASE Idle \/ r.age = "dead"
  BY <1>1, <1>2 DEF Publish
<1>3. CASE ~Idle /\ r.age # "dead"
  <2>1. replies' = Append(replies, e)
    BY <1>3 DEF Publish
  <2> HIDE DEF e
  <2>2. /\ replies' \in Seq(Reply) /\ Len(replies') = Len(replies) + 1
        /\ DOMAIN replies' = 1..(Len(replies) + 1)
        /\ DOMAIN replies = 1..Len(replies)
        /\ \A k \in DOMAIN replies : replies'[k] = replies[k]
        /\ replies'[Len(replies) + 1] = e
    BY <1>1, <2>1, Appended
  <2>3. ASSUME NEW k \in DOMAIN replies'
        PROVE  \/ k \in DOMAIN replies /\ replies'[k] = replies[k]
               \/ k = Len(replies) + 1 /\ replies'[k] = e
    BY <1>1, <2>2
  <2> QED
    BY <1>1, <1>3, <2>2, <2>3 DEF e
<1> QED
  BY <1>2, <1>3

LEMMA ServeTypes == Types /\ Serve => Types'
<1> SUFFICES ASSUME Types, Serve PROVE Types'
  OBVIOUS
<1>1. /\ toPa \in Seq(Request) /\ toPa # <<>> /\ Head(toPa) \in Request
      /\ toPa' = Tail(toPa)
  BY ServeIs DEF Types, TypeOK
<1>2. toPa' \in Seq(Request) /\ Len(toPa') = Len(toPa) - 1 /\ Len(toPa) \in Nat
  BY <1>1, Tailed
<1>3. PICK status \in 0..1 :
        /\ Publish(Head(toPa), status)
        /\ \/ held' = held \cup {Head(toPa).item}
           \/ held' = held
           \/ held' = held \ {Head(toPa).item}
  BY ServeIs
<1>4. /\ replies' \in Seq(Reply)
      /\ Len(replies) \in Nat /\ Len(replies') \in Nat
      /\ replies' = replies \/ (~Idle /\ Len(replies') = Len(replies) + 1)
  BY <1>1, <1>3, PublishIs
<1>5. /\ Len(toPa') + Len(replies') <= MaxQueue
      /\ Len(toPa') <= MaxQueue /\ Len(replies') <= MaxQueue
  BY <1>2, <1>4, QueueAssumption DEF Types, TypeOK
<1>6. held' \subseteq Items
  BY <1>1, <1>3 DEF Types, TypeOK, Request
<1>7. UNCHANGED <<item, call, recalled, toAc, busy, blind, lostRequest>>
  BY ServeIs
<1>8. Idle' => replies' = <<>>
  BY <1>4, <1>7 DEF Idle, Types, TypeOK
<1> QED
  BY <1>2, <1>4, <1>5, <1>6, <1>7, <1>8 DEF Types, TypeOK

LEMMA RevokeTypes ==
  ASSUME Types, NEW i \in Items, Revoke(i)
  PROVE  Types'
<1>1. toAc \in Seq(Items) /\ toAc' = Append(toAc, i) /\ Len(toAc) < MaxRecalls
  BY DEF Types, TypeOK, Revoke
<1>2. /\ toAc' \in Seq(Items)
      /\ Len(toAc') = Len(toAc) + 1 /\ Len(toAc) \in Nat
  BY <1>1, Appended
<1>3. Len(toAc') <= MaxRecalls
  BY <1>1, <1>2, QueueAssumption
<1> QED
  BY <1>2, <1>3 DEF Types, TypeOK, Revoke, acVars, Idle

LEMMA PaTypes == Types /\ (HardLimit \/ Resume \/ PaRestart) => Types'
<1>1. Types /\ (HardLimit \/ Resume) => Types'
  BY DEF Types, TypeOK, HardLimit, Resume, acVars, Idle
<1>2. ASSUME Types, PaRestart PROVE Types'
  <2>1. toPa' = <<>> /\ toPa' \in Seq(Request) /\ Len(toPa') = 0
    BY <1>2, EmptySeq DEF PaRestart
  <2>2. Len(replies) \in Nat /\ Len(replies) <= MaxQueue /\ MaxQueue \in Nat
    BY <1>2, LenProperties, QueueAssumption DEF Types, TypeOK
  <2>3. UNCHANGED <<item, call, replies, toAc, lostRequest>>
    BY <1>2 DEF PaRestart, acVars
  <2>4. Len(toPa') <= MaxQueue /\ Len(toPa') + Len(replies') <= MaxQueue
    BY <2>1, <2>2, <2>3
  <2>5. held' \subseteq Items /\ recalled' \subseteq Items
    BY <1>2 DEF PaRestart
  <2>6. busy' \in BOOLEAN /\ blind' \in BOOLEAN
    BY <1>2 DEF PaRestart
  <2> QED
    BY <1>2, <2>1, <2>3, <2>4, <2>5, <2>6 DEF Types, TypeOK, Idle
<1> QED
  BY <1>1, <1>2

LEMMA NetworkTypes == Types /\ Network => Types'
<1> SUFFICES ASSUME Types, Network PROVE Types'
  OBVIOUS
<1>0. /\ toPa \in Seq(Request) /\ replies \in Seq(Reply) /\ toAc \in Seq(Items)
      /\ Len(toPa) \in Nat /\ Len(replies) \in Nat /\ Len(toAc) \in Nat
      /\ MaxQueue \in Nat /\ MaxRecalls \in Nat
  BY LenProperties, QueueAssumption DEF Types, TypeOK
<1>1. CASE LoseRequest
  <2>1. PICK k \in DOMAIN toPa : toPa' = RemoveAt(toPa, k)
    BY <1>1 DEF LoseRequest
  <2>2. toPa' \in Seq(Request) /\ Len(toPa') = Len(toPa) - 1
    BY <1>0, <2>1, Removed
  <2>3. Len(toPa') <= MaxQueue /\ Len(toPa') + Len(replies) <= MaxQueue
    BY <1>0, <2>2 DEF Types, TypeOK
  <2> QED
    BY <1>1, <2>2, <2>3 DEF LoseRequest, Types, TypeOK, acVars, paVars, Idle
<1>2. CASE LoseReply
  <2>1. PICK k \in DOMAIN replies : replies' = RemoveAt(replies, k)
    BY <1>2 DEF LoseReply
  <2>2. /\ replies' \in Seq(Reply) /\ Len(replies') = Len(replies) - 1
        /\ Len(replies) >= 1
    BY <1>0, <2>1, Removed
  <2>3. Len(replies') <= MaxQueue /\ Len(toPa) + Len(replies') <= MaxQueue
    BY <1>0, <2>2 DEF Types, TypeOK
  <2>4. ~Idle
    <3>1. Len(<<>>) = 0
      BY EmptySeq
    <3> QED
      BY <2>2, <3>1 DEF Types, TypeOK
  <2> QED
    BY <1>2, <2>2, <2>3, <2>4 DEF LoseReply, Types, TypeOK, paVars, Idle
<1>3. CASE LoseRevoke
  <2>1. PICK k \in DOMAIN toAc : toAc' = RemoveAt(toAc, k)
    BY <1>3 DEF LoseRevoke
  <2>2. toAc' \in Seq(Items) /\ Len(toAc') = Len(toAc) - 1
    BY <1>0, <2>1, Removed
  <2>3. Len(toAc') <= MaxRecalls
    BY <1>0, <2>2 DEF Types, TypeOK
  <2> QED
    BY <1>3, <2>2, <2>3 DEF LoseRevoke, Types, TypeOK, acVars, paVars, Idle
<1> QED
  BY <1>1, <1>2, <1>3 DEF Network

LEMMA AcceptReply ==
  ASSUME Types, Accept
  PROVE  /\ ~Idle /\ Head(replies) \in Reply /\ Head(replies) = replies[1]
         /\ 1 \in DOMAIN replies
         /\ Head(replies).status \in 0..1 /\ Return(Head(replies).status)
<1>1. replies \in Seq(Reply) /\ replies # <<>>
  BY DEF Types, TypeOK, Accept
<1>2. Head(replies) \in Reply /\ Head(replies) = replies[1] /\ 1 \in DOMAIN replies
  BY <1>1, Tailed
<1> QED
  BY <1>2 DEF Accept, Reply

LEMMA InitTypes == Init => Types
<1> SUFFICES ASSUME Init PROVE Types
  OBVIOUS
<1>1. /\ <<>> \in Seq(Request) /\ <<>> \in Seq(Reply) /\ <<>> \in Seq(Items)
      /\ Len(<<>>) = 0
  BY EmptySeq
<1>2. 0 <= MaxQueue /\ 0 + 0 <= MaxQueue /\ 0 <= MaxRecalls
  BY QueueAssumption
<1>3. item \in [Items -> ItemStates] /\ call \in Calls
  BY DEF Init, ItemStates, Calls
<1> QED
  BY <1>1, <1>2, <1>3 DEF Init, Types, TypeOK

LEMMA NextTypes == Types /\ [Next]_vars => Types'
<1> SUFFICES ASSUME Types, [Next]_vars PROVE Types'
  OBVIOUS
<1>1. CASE ItemStep
  BY <1>1, ItemTypes
<1>2. ASSUME NEW i \in Items, NEW op \in Ops, Call(i, op) PROVE Types'
  BY <1>2, CallTypes
<1>3. CASE Accept
  <2>1. blind' \in BOOLEAN
    BY <1>3 DEF Accept
  <2> QED
    BY <1>3, <2>1, AcceptReply, ReturnTypes
<1>4. CASE GiveUp
  <2>1. ~Idle /\ 1 \in 0..1 /\ Return(1) /\ blind' \in BOOLEAN
    BY <1>4 DEF GiveUp, Types, TypeOK
  <2> QED
    BY <2>1, ReturnTypes
<1>5. CASE GetRevoke
  BY <1>5, GetRevokeTypes
<1>6. CASE AcRestart
  BY <1>6, AcRestartTypes
<1>7. CASE Serve
  BY <1>7, ServeTypes
<1>8. CASE HardLimit \/ Resume \/ PaRestart
  BY <1>8, PaTypes
<1>9. ASSUME NEW i \in Items, Revoke(i) PROVE Types'
  BY <1>9, RevokeTypes
<1>10. CASE Network
  BY <1>10, NetworkTypes
<1>11. CASE UNCHANGED vars
  BY <1>11 DEF Types, TypeOK, vars, acVars, paVars, Idle
<1> QED
  BY <1>1, <1>2, <1>3, <1>4, <1>5, <1>6, <1>7, <1>8, <1>9, <1>10, <1>11
     DEF Next, AcStep, PaStep, ItemStep

\* Every state of the call protocol is well typed, and neither queue exceeds
\* its bound (PaClient.TypeOK: pa_client.js, sdconfig.js, agent.c).
THEOREM TypeCorrect == Spec => []TypeOK
<1>1. Init => Types
  BY InitTypes
<1>2. Types /\ [Next]_vars => Types'
  BY NextTypes
<1>3. Types => TypeOK
  BY DEF Types
<1> QED
  BY <1>1, <1>2, <1>3, PTL DEF Spec

-----------------------------------------------------------------------------
(* Why the AC only runs what the PA counts.  Of the requests and replies   *)
(* under way at most one is live: the one of the call that is outstanding, *)
(* last in its queue.  So a live answer finds the PA's queue empty, and    *)
(* nothing that is still to be served can take away what it granted.       *)

\* The item of a call is in the state the call is made from.
CallMatches == Idle \/ call.op \in CallOf(item[call.item])

\* A live request is the last of its queue and is that of the call.
LiveRequest ==
  \A k \in DOMAIN toPa : toPa[k].age = "live" =>
    /\ ~Idle /\ k = Len(toPa)
    /\ toPa[k].op = call.op /\ toPa[k].item = call.item

\* When the live answer is there the PA's queue is empty; if it grants, the
\* item is known to the PA.
LiveReply ==
  \A k \in DOMAIN replies :
    /\ replies[k].age \in {"live", "stale"}
    /\ replies[k].age = "live" =>
         /\ toPa = <<>>
         /\ call.op = "reserve" /\ replies[k].status = 0 /\ ~blind =>
              call.item \in Known

\* What runs is known, and none of its requests under way can change that.
RunningKept ==
  ~blind => \A i \in Items : item[i] = "running" =>
    /\ i \in Known
    /\ \A k \in DOMAIN toPa : toPa[k].item = i => toPa[k].op = "repri"

Track == Types /\ CallMatches /\ LiveRequest /\ LiveReply /\ RunningKept

LEMMA Queues ==
  ASSUME Types
  PROVE  /\ toPa \in Seq(Request) /\ replies \in Seq(Reply) /\ toAc \in Seq(Items)
         /\ Len(toPa) \in Nat /\ Len(replies) \in Nat
         /\ DOMAIN toPa = 1..Len(toPa) /\ DOMAIN replies = 1..Len(replies)
         /\ toPa = <<>> <=> Len(toPa) = 0
BY LenProperties, EmptySeq DEF Types, TypeOK

\* Every step of Next leaves the call and the items alone, ends the call, or
\* opens one.
LEMMA CallMatchesNext == Types /\ CallMatches /\ [Next]_vars => CallMatches'
<1> SUFFICES ASSUME Types, CallMatches, [Next]_vars PROVE CallMatches'
  OBVIOUS
<1>1. CASE ItemStep
  BY <1>1 DEF ItemStep, Start, WarmStart, Stop, Cooled, CallMatches, Idle
<1>2. ASSUME NEW i \in Items, NEW op \in Ops, Call(i, op) PROVE CallMatches'
  BY <1>2 DEF Call, CallMatches
<1>3. CASE Accept \/ GiveUp \/ AcRestart
  BY <1>3 DEF Accept, GiveUp, Return, AcRestart, CallMatches, Idle
<1>4. CASE GetRevoke
  BY <1>4 DEF GetRevoke, CallMatches, Idle
<1>5. CASE PaStep \/ Network \/ UNCHANGED vars
  <2>1. UNCHANGED <<item, call>>
    BY <1>5 DEF PaStep, Serve, HardLimit, Resume, PaRestart, Revoke, Network,
                LoseRequest, LoseReply, LoseRevoke, vars, acVars
  <2> QED
    BY <2>1 DEF CallMatches, Idle
<1> QED
  BY <1>1, <1>2, <1>3, <1>4, <1>5 DEF Next, AcStep, ItemStep

LEMMA LiveRequestNext == Types /\ LiveRequest /\ [Next]_vars => LiveRequest'
<1> SUFFICES ASSUME Types, LiveRequest, [Next]_vars PROVE LiveRequest'
  OBVIOUS
<1>0. /\ toPa \in Seq(Request) /\ Len(toPa) \in Nat
      /\ DOMAIN toPa = 1..Len(toPa)
  BY Queues
<1>1. CASE UNCHANGED <<toPa, call>>
  BY <1>1 DEF LiveRequest, Idle
<1>2. ASSUME NEW i \in Items, NEW op \in Ops, Call(i, op) PROVE LiveRequest'
  <2> DEFINE e == [op |-> op, item |-> i, age |-> "live"]
  <2>1. e \in Request
    BY DEF Request, Ages
  <2>2. e.op = op /\ e.item = i
    OBVIOUS
  <2> HIDE DEF e
  <2>3. toPa' = Append(toPa, e) /\ Idle /\ call' = [op |-> op, item |-> i]
    BY <1>2 DEF Call, e
  <2>4. /\ DOMAIN toPa' = 1..(Len(toPa) + 1) /\ Len(toPa') = Len(toPa) + 1
        /\ \A k \in DOMAIN toPa : toPa'[k] = toPa[k]
        /\ toPa'[Len(toPa) + 1] = e
    BY <1>0, <2>1, <2>3, Appended
  <2>5. ASSUME NEW k \in DOMAIN toPa', toPa'[k].age = "live"
        PROVE  k = Len(toPa')
    <3>1. CASE k \in DOMAIN toPa
      BY <2>3, <2>4, <2>5, <3>1 DEF LiveRequest
    <3> QED
      BY <1>0, <2>4, <3>1
  <2>6. ~Idle'
    BY <2>2, <2>3 DEF Idle, NoCall, Ops
  <2> QED
    BY <2>2, <2>3, <2>4, <2>5, <2>6 DEF LiveRequest
<1>3. CASE Accept \/ GiveUp \/ AcRestart
  <2>1. toPa' = Aged(toPa, {"live"}, "stale") \/ toPa' = Aged(toPa, Ages, "dead")
    BY <1>3 DEF Accept, GiveUp, Return, AcRestart
  <2>2. \A k \in DOMAIN toPa : toPa[k].age \in Ages
    <3>1. \A k \in 1..Len(toPa) : toPa[k] \in Request
      BY <1>0, ElementOfSeq
    <3> QED
      BY <1>0, <3>1 DEF Request
  <2>3. \A k \in DOMAIN toPa' : toPa'[k].age # "live"
    <3>1. CASE toPa' = Aged(toPa, {"live"}, "stale")
      BY <1>0, <3>1, AgedIs DEF Ages
    <3>2. CASE toPa' = Aged(toPa, Ages, "dead")
      BY <1>0, <2>2, <3>2, AgedIs DEF Ages
    <3> QED
      BY <2>1, <3>1, <3>2
  <2> QED
    BY <2>3 DEF LiveRequest
<1>4. CASE Serve
  <2>1. toPa # <<>> /\ toPa' = Tail(toPa) /\ call' = call
    BY <1>4, ServeIs
  <2>2. /\ DOMAIN toPa' = 1..(Len(toPa) - 1) /\ Len(toPa') = Len(toPa) - 1
        /\ \A k \in DOMAIN toPa' : toPa'[k] = toPa[k + 1]
    BY <1>0, <2>1, Tailed
  <2>3. ASSUME NEW k \in DOMAIN toPa', toPa'[k].age = "live"
        PROVE  /\ ~Idle /\ k = Len(toPa')
               /\ toPa'[k].op = call.op /\ toPa'[k].item = call.item
    <3>1. k + 1 \in DOMAIN toPa /\ toPa[k + 1].age = "live" /\ k \in Int
      BY <1>0, <2>2, <2>3
    <3>2. /\ ~Idle /\ k + 1 = Len(toPa)
          /\ toPa[k + 1].op = call.op /\ toPa[k + 1].item = call.item
      BY <3>1 DEF LiveRequest
    <3> QED
      BY <1>0, <2>2, <3>1, <3>2
  <2> QED
    BY <2>1, <2>3 DEF LiveRequest, Idle
<1>5. CASE PaRestart
  <2>1. toPa' = <<>>
    BY <1>5 DEF PaRestart
  <2>2. DOMAIN toPa' = {}
    BY <2>1
  <2> QED
    BY <2>2 DEF LiveRequest
<1>6. CASE LoseRequest
  <2>1. PICK j \in DOMAIN toPa : toPa' = RemoveAt(toPa, j)
    BY <1>6 DEF LoseRequest
  <2>2. /\ DOMAIN toPa' = 1..(Len(toPa) - 1) /\ Len(toPa') = Len(toPa) - 1
        /\ \A k \in DOMAIN toPa' :
             toPa'[k] = IF k < j THEN toPa[k] ELSE toPa[k + 1]
    BY <1>0, <2>1, Removed
  <2>3. ASSUME NEW k \in DOMAIN toPa', toPa'[k].age = "live"
        PROVE  /\ ~Idle /\ k = Len(toPa')
               /\ toPa'[k].op = call.op /\ toPa'[k].item = call.item
    <3>1. k \in DOMAIN toPa /\ k + 1 \in DOMAIN toPa /\ k \in Int /\ k # Len(toPa)
      BY <1>0, <2>2
    <3>2. ~ (k < j)
      BY <2>2, <2>3, <3>1 DEF LiveRequest
    <3>3. /\ ~Idle /\ k + 1 = Len(toPa)
          /\ toPa[k + 1].op = call.op /\ toPa[k + 1].item = call.item
      BY <2>2, <2>3, <3>1, <3>2 DEF LiveRequest
    <3> QED
      BY <1>0, <2>2, <3>1, <3>2, <3>3
  <2>4. call' = call
    BY <1>6 DEF LoseRequest, acVars
  <2> QED
    BY <2>3, <2>4 DEF LiveRequest, Idle
<1>7. CASE ItemStep \/ GetRevoke
  <2>1. UNCHANGED <<toPa, call>>
    BY <1>7 DEF ItemStep, Start, WarmStart, Stop, Cooled, GetRevoke
  <2> QED
    BY <1>1, <2>1
<1>8. CASE HardLimit \/ Resume \/ (\E i \in Items : Revoke(i)) \/ LoseReply
             \/ LoseRevoke \/ UNCHANGED vars
  <2>1. UNCHANGED <<toPa, call>>
    BY <1>8 DEF HardLimit, Resume, Revoke, LoseReply, LoseRevoke, vars, acVars
  <2> QED
    BY <1>1, <2>1
<1> QED
  BY <1>2, <1>3, <1>4, <1>5, <1>6, <1>7, <1>8
     DEF Next, AcStep, PaStep, Network, ItemStep

\* What the PA does on its own account takes no item out of its knowledge.
LEMMA KnownKept ==
  ASSUME Types,
         \/ HardLimit \/ Resume \/ LoseRequest \/ LoseReply
         \/ \E i \in Items : Revoke(i)
  PROVE  Known \subseteq Known'
<1>1. CASE HardLimit
  BY <1>1 DEF HardLimit, Known
<1>2. CASE Resume
  BY <1>2 DEF Resume, Known
<1>3. CASE LoseRequest \/ LoseReply
  BY <1>3 DEF LoseRequest, LoseReply, Known, paVars
<1>4. ASSUME NEW i \in Items, Revoke(i) PROVE Known \subseteq Known'
  <2>1. toAc \in Seq(Items) /\ toAc' = Append(toAc, i)
    BY <1>4 DEF Revoke, Types, TypeOK
  <2>2. Range(toAc') = Range(toAc) \cup {i}
    BY <2>1, RangeOfAppend
  <2>3. held' = held /\ recalled' = recalled \ {i}
    BY <1>4 DEF Revoke
  <2> QED
    BY <2>2, <2>3 DEF Known
<1> QED
  BY <1>1, <1>2, <1>3, <1>4

\* Serving a request takes at most its own item out of the PA's knowledge, and
\* none by repri.
LEMMA KnownServed ==
  ASSUME Types, Serve
  PROVE  \A i \in Known : i \in Known' \/ (i = Head(toPa).item /\ Head(toPa).op # "repri")
<1>1. UNCHANGED <<recalled, toAc>>
  BY ServeIs
<1>2. \/ held' = held \cup {Head(toPa).item}
      \/ held' = held
      \/ held' = held \ {Head(toPa).item} /\ Head(toPa).op # "repri"
  BY ServeIs
<1> QED
  BY <1>1, <1>2 DEF Known

LEMMA LiveReplyNext ==
  Types /\ LiveRequest /\ LiveReply /\ Types' /\ [Next]_vars => LiveReply'
<1> SUFFICES ASSUME Types, LiveRequest, LiveReply, Types', [Next]_vars
             PROVE  LiveReply'
  OBVIOUS
<1>0. /\ toPa \in Seq(Request) /\ Len(toPa) \in Nat
      /\ DOMAIN toPa = 1..Len(toPa)
      /\ toPa = <<>> <=> Len(toPa) = 0
      /\ replies \in Seq(Reply) /\ Len(replies) \in Nat
      /\ DOMAIN replies = 1..Len(replies)
  BY Queues
<1>1. CASE replies' = <<>>
  <2>1. DOMAIN replies' = {}
    BY <1>1
  <2> QED
    BY <2>1 DEF LiveReply
<1>2. CASE ItemStep \/ GetRevoke \/ AcRestart \/ Accept \/ GiveUp
           \/ \E i \in Items, op \in Ops : Call(i, op)
  <2>1. Idle' \/ replies' = <<>>
    <3>1. ItemStep \/ GetRevoke => Idle'
      BY DEF ItemStep, Start, WarmStart, Stop, Cooled, GetRevoke, Idle
    <3>2. AcRestart \/ Accept \/ GiveUp => Idle'
      BY DEF AcRestart, Accept, GiveUp, Return, Idle
    <3>3. ASSUME NEW i \in Items, NEW op \in Ops, Call(i, op)
          PROVE  replies' = <<>>
      BY <3>3 DEF Call
    <3> QED
      BY <1>2, <3>1, <3>2, <3>3
  <2>2. replies' = <<>>
    BY <2>1 DEF Types, TypeOK
  <2> QED
    BY <1>1, <2>2
<1>3. CASE Serve
  <2> DEFINE r == Head(toPa)
  <2>1. /\ toPa # <<>> /\ toPa' = Tail(toPa) /\ r \in Request
        /\ UNCHANGED <<item, call, recalled, toAc, blind>>
    BY <1>3, ServeIs
  <2>2. PICK status \in 0..1 :
          /\ Publish(r, status)
          /\ r.op = "reserve" /\ status = 0 => held' = held \cup {r.item}
    BY <1>3, ServeIs
  <2>3. /\ r = toPa[1] /\ 1 \in DOMAIN toPa
        /\ Tail(toPa) \in Seq(Request) /\ Len(Tail(toPa)) = Len(toPa) - 1
    BY <1>0, <2>1, Tailed
  <2> HIDE DEF r
  <2>4. \A k \in DOMAIN replies : replies[k].age = "stale"
    BY <2>1 DEF LiveReply
  <2>5. ASSUME r.age = "live"
        PROVE  /\ toPa' = <<>>
               /\ r.op = call.op /\ r.item = call.item
    <3>1. 1 = Len(toPa) /\ r.op = call.op /\ r.item = call.item
      BY <2>3, <2>5 DEF LiveRequest
    <3>2. toPa' \in Seq(Request) /\ Len(toPa') = 0
      BY <2>1, <2>3, <3>1
    <3> QED
      BY <3>1, <3>2, EmptySeq
  <2>6. \/ replies' = replies
        \/ /\ r.age # "dead"
           /\ \A k \in DOMAIN replies' :
                \/ k \in DOMAIN replies /\ replies'[k] = replies[k]
                \/ replies'[k] = [status |-> status, age |-> r.age]
    BY <2>1, <2>2, PublishIs
  <2>7. ASSUME NEW k \in DOMAIN replies'
        PROVE  \/ replies'[k].age = "stale"
               \/ /\ r.age = "live" /\ replies'[k].age = "live"
                  /\ replies'[k].status = status
    <3>1. r.age \in {"live", "stale", "dead"}
      BY <2>1 DEF Request, Ages
    <3>2. CASE replies' = replies
      BY <2>4, <3>2
    <3>3. CASE /\ r.age # "dead"
               /\ \/ k \in DOMAIN replies /\ replies'[k] = replies[k]
                  \/ replies'[k] = [status |-> status, age |-> r.age]
      BY <2>4, <3>1, <3>3
    <3> QED
      BY <2>6, <3>2, <3>3
  <2>8. ASSUME r.age = "live", call.op = "reserve", status = 0
        PROVE  call.item \in Known'
    <3>1. held' = held \cup {call.item}
      BY <2>2, <2>5, <2>8
    <3> QED
      BY <3>1 DEF Known
  <2>9. call' = call
    BY <2>1
  <2> QED
    BY <2>5, <2>7, <2>8, <2>9 DEF LiveReply
<1>4. CASE HardLimit \/ Resume \/ \E i \in Items : Revoke(i)
  <2>1. UNCHANGED <<call, replies, toPa, blind>>
    BY <1>4 DEF HardLimit, Resume, Revoke, acVars
  <2>2. Known \subseteq Known'
    BY <1>4, KnownKept
  <2> QED
    BY <2>1, <2>2 DEF LiveReply
<1>5. CASE PaRestart
  <2>1. UNCHANGED replies /\ toPa' = <<>> /\ blind' = TRUE
    BY <1>5 DEF PaRestart, acVars
  <2> QED
    BY <2>1 DEF LiveReply
<1>6. CASE LoseRequest
  <2>1. PICK j \in DOMAIN toPa : TRUE
    BY <1>6 DEF LoseRequest
  <2>2. toPa # <<>> /\ replies' = replies
    BY <1>0, <1>6, <2>1 DEF LoseRequest, acVars
  <2> QED
    BY <2>2 DEF LiveReply
<1>7. CASE LoseReply
  <2>1. PICK j \in DOMAIN replies : replies' = RemoveAt(replies, j)
    BY <1>7 DEF LoseReply
  <2>2. ASSUME NEW k \in DOMAIN replies'
        PROVE  \E n \in DOMAIN replies : replies'[k] = replies[n]
    <3>1. /\ k \in 1..(Len(replies) - 1)
          /\ replies'[k] = IF k < j THEN replies[k] ELSE replies[k + 1]
      BY <1>0, <2>1, <2>2, Removed
    <3>2. k \in DOMAIN replies /\ k + 1 \in DOMAIN replies
      BY <1>0, <3>1
    <3> QED
      BY <3>1, <3>2
  <2>3. UNCHANGED <<call, toPa, blind, held, recalled, toAc>>
    BY <1>7 DEF LoseReply, paVars
  <2>4. Known' = Known
    BY <2>3 DEF Known
  <2> QED
    BY <2>2, <2>3, <2>4 DEF LiveReply
<1>8. CASE LoseRevoke
  <2>1. UNCHANGED <<replies, toPa, call>> /\ blind' = TRUE
    BY <1>8 DEF LoseRevoke, acVars
  <2> QED
    BY <2>1 DEF LiveReply
<1>9. CASE UNCHANGED vars
  BY <1>9 DEF LiveReply, Known, vars, acVars, paVars
<1> QED
  BY <1>2, <1>3, <1>4, <1>5, <1>6, <1>7, <1>8, <1>9
     DEF Next, AcStep, PaStep, Network, ItemStep

LEMMA RunningKeptNext ==
  Track /\ Types' /\ [Next]_vars => RunningKept'
<1> SUFFICES ASSUME Track, Types', [Next]_vars, ~blind',
                    NEW i \in Items, item'[i] = "running"
             PROVE  /\ i \in Known'
                    /\ \A k \in DOMAIN toPa' :
                         toPa'[k].item = i => toPa'[k].op = "repri"
  BY DEF RunningKept
<1> DEFINE Quiet(q) == \A k \in DOMAIN q : q[k].item = i => q[k].op = "repri"
<1>0. /\ Types /\ item \in [Items -> ItemStates]
      /\ toPa \in Seq(Request) /\ Len(toPa) \in Nat
      /\ DOMAIN toPa = 1..Len(toPa)
      /\ toPa = <<>> <=> Len(toPa) = 0
  BY Queues DEF Track, Types, TypeOK
<1>a. ~blind /\ item[i] = "running" => i \in Known /\ Quiet(toPa)
  BY DEF Track, RunningKept
<1>1. CASE ItemStep
  <2>1. PICK j \in Items : Start(j) \/ WarmStart(j) \/ Stop(j) \/ Cooled(j)
    BY <1>1 DEF ItemStep
  <2>2. UNCHANGED <<toPa, held, recalled, toAc>> /\ ~blind
    <3>1. CASE WarmStart(j)
      BY <3>1 DEF WarmStart, paVars
    <3>2. CASE Start(j) \/ Stop(j) \/ Cooled(j)
      BY <3>2 DEF Start, Stop, Cooled, paVars
    <3> QED
      BY <2>1, <3>1, <3>2
  <2>3. Known' = Known
    BY <2>2 DEF Known
  <2>4. CASE item[i] = "running"
    BY <1>a, <2>2, <2>3, <2>4
  <2>5. CASE item[i] # "running"
    <3>1. WarmStart(i)
      BY <1>0, <2>1, <2>5 DEF Start, WarmStart, Stop, Cooled, Become
    <3>2. i \in Known /\ ~Requested(i)
      BY <3>1 DEF WarmStart
    <3> QED
      BY <2>2, <2>3, <3>2 DEF Requested
  <2> QED
    BY <2>4, <2>5
<1>2. ASSUME NEW j \in Items, NEW op \in Ops, Call(j, op)
      PROVE  i \in Known' /\ Quiet(toPa')
  <2> DEFINE e == [op |-> op, item |-> j, age |-> "live"]
  <2>1. e \in Request /\ e.op = op /\ e.item = j
    BY DEF Request, Ages
  <2> HIDE DEF e
  <2>2. /\ toPa' = Append(toPa, e) /\ op \in CallOf(item[j])
        /\ UNCHANGED <<item, held, recalled, toAc, blind>>
    BY <1>2 DEF Call, e, paVars
  <2>3. i \in Known /\ Quiet(toPa)
    BY <1>a, <2>2
  <2>4. /\ DOMAIN toPa' = 1..(Len(toPa) + 1)
        /\ \A k \in DOMAIN toPa : toPa'[k] = toPa[k]
        /\ toPa'[Len(toPa) + 1] = e
    BY <1>0, <2>1, <2>2, Appended
  <2>5. j = i => op = "repri"
    BY <2>2 DEF CallOf
  <2>6. ASSUME NEW k \in DOMAIN toPa', toPa'[k].item = i
        PROVE  toPa'[k].op = "repri"
    <3>1. k \in DOMAIN toPa \/ k = Len(toPa) + 1
      BY <1>0, <2>4
    <3> QED
      BY <2>1, <2>3, <2>4, <2>5, <2>6, <3>1
  <2> QED
    BY <2>2, <2>3, <2>6 DEF Known
<1>3. CASE Accept \/ GiveUp
  <2> DEFINE c == call.item
  <2>1. PICK status \in 0..1 : Return(status) /\ (GiveUp => status = 1)
    BY <1>3, AcceptReply, <1>0 DEF GiveUp, Accept
  <2>2. ~Idle /\ call.op \in CallOf(item[c]) /\ c \in Items /\ call.op \in Ops
    BY <1>0, <1>3, CallItem DEF Accept, GiveUp, Track, CallMatches
  <2>3. /\ item' = [item EXCEPT ![c] = Outcome(call.op, status)]
        /\ toPa' = Aged(toPa, {"live"}, "stale")
        /\ UNCHANGED <<held, recalled, toAc>>
    BY <2>1 DEF Return, Become, paVars
  <2>4. ~blind
    BY <1>3 DEF Accept, GiveUp
  <2>5. Known' = Known
    BY <2>3 DEF Known
  <2>6. ASSUME i \in Known, Quiet(toPa)
        PROVE  i \in Known' /\ Quiet(toPa')
    <3>1. /\ DOMAIN toPa' = DOMAIN toPa
          /\ \A k \in DOMAIN toPa : /\ toPa'[k].op = toPa[k].op
                                    /\ toPa'[k].item = toPa[k].item
      BY <1>0, <2>3, AgedIs DEF Ages
    <3> QED
      BY <2>5, <2>6, <3>1
  <2>7. CASE item[i] = "running"
    BY <1>a, <2>4, <2>6, <2>7
  <2>8. CASE item[i] # "running"
    <3>1. i = c /\ Outcome(call.op, status) = "running"
      BY <1>0, <2>2, <2>3, <2>8
    <3>2. status = 0 /\ call.op = "reserve"
      <4>1. status = 0 /\ call.op \in {"reserve", "repri"}
        BY <2>2, <3>1 DEF Outcome, Ops
      <4>2. call.op # "repri"
        BY <2>2, <2>8, <3>1 DEF CallOf
      <4> QED
        BY <4>1, <4>2
    <3>3. Accept
      BY <1>3, <2>1, <3>2
    <3>4. /\ 1 \in DOMAIN replies /\ Head(replies) = replies[1]
          /\ Head(replies).status \in 0..1
      BY <1>0, <3>3, AcceptReply
    <3>5. Head(replies).status = 0
      <4>1. item' = [item EXCEPT ![c] = Outcome(call.op, Head(replies).status)]
        BY <3>3 DEF Accept, Return, Become
      <4>2. Outcome(call.op, Head(replies).status) = "running"
        BY <1>0, <2>2, <3>1, <4>1
      <4> QED
        BY <3>2, <3>4, <4>2 DEF Outcome
    <3>6. replies[1].age # "stale"
      BY <3>2, <3>3, <3>4, <3>5 DEF Accept
    <3>7. replies[1].age = "live"
      BY <3>4, <3>6 DEF Track, LiveReply
    <3>8. toPa = <<>> /\ i \in Known
      BY <2>4, <3>1, <3>2, <3>4, <3>5, <3>7 DEF Track, LiveReply
    <3>9. Quiet(toPa)
      <4>1. DOMAIN toPa = {}
        BY <1>0, <3>8
      <4> QED
        BY <4>1
    <3> QED
      BY <2>6, <3>8, <3>9
  <2> QED
    BY <2>7, <2>8
<1>4. CASE GetRevoke
  <2>1. /\ toAc \in Seq(Items) /\ toAc # <<>> /\ toAc' = Tail(toAc)
        /\ item' = [item EXCEPT ![Head(toAc)] = Revoked(Head(toAc))]
        /\ UNCHANGED <<held, recalled, toPa, blind>>
    BY <1>0, <1>4 DEF GetRevoke, Become, paVars, Types, TypeOK
  <2>2. Head(toAc) \in Items /\ Range(toAc) = Range(Tail(toAc)) \cup {Head(toAc)}
    BY <2>1, Tailed, RangeOfTail
  <2>3. i # Head(toAc) /\ item[i] = "running"
    BY <1>0, <2>1, <2>2 DEF Revoked
  <2>4. i \in Known /\ Quiet(toPa)
    BY <1>a, <2>1, <2>3
  <2> QED
    BY <2>1, <2>2, <2>3, <2>4 DEF Known
<1>5. CASE AcRestart
  BY <1>5 DEF AcRestart
<1>6. CASE Serve
  <2>1. /\ toPa # <<>> /\ toPa' = Tail(toPa) /\ UNCHANGED <<item, blind>>
    BY <1>0, <1>6, ServeIs
  <2>2. i \in Known /\ Quiet(toPa)
    BY <1>a, <2>1
  <2>3. /\ 1 \in DOMAIN toPa /\ Head(toPa) = toPa[1]
        /\ DOMAIN toPa' = 1..(Len(toPa) - 1)
        /\ \A k \in DOMAIN toPa' : toPa'[k] = toPa[k + 1]
    BY <1>0, <2>1, Tailed
  <2>4. i \in Known'
    BY <1>0, <1>6, <2>2, <2>3, KnownServed
  <2>5. Quiet(toPa')
    <3>1. \A k \in DOMAIN toPa' : k + 1 \in DOMAIN toPa
      BY <1>0, <2>3
    <3> QED
      BY <2>2, <2>3, <3>1
  <2> QED
    BY <2>4, <2>5
<1>7. CASE HardLimit \/ Resume \/ LoseReply \/ \E j \in Items : Revoke(j)
  <2>1. UNCHANGED <<item, toPa, blind>>
    BY <1>7 DEF HardLimit, Resume, LoseReply, Revoke, acVars
  <2>2. Known \subseteq Known'
    BY <1>0, <1>7, KnownKept
  <2> QED
    BY <1>a, <2>1, <2>2
<1>8. CASE PaRestart \/ LoseRevoke
  BY <1>8 DEF PaRestart, LoseRevoke
<1>9. CASE LoseRequest
  <2>1. UNCHANGED <<item, blind>>
    BY <1>9 DEF LoseRequest, acVars
  <2>2. i \in Known /\ Quiet(toPa)
    BY <1>a, <2>1
  <2>3. Known \subseteq Known'
    BY <1>0, <1>9, KnownKept
  <2>4. PICK j \in DOMAIN toPa : toPa' = RemoveAt(toPa, j)
    BY <1>9 DEF LoseRequest
  <2>5. /\ DOMAIN toPa' = 1..(Len(toPa) - 1)
        /\ \A k \in DOMAIN toPa' :
             toPa'[k] = IF k < j THEN toPa[k] ELSE toPa[k + 1]
    BY <1>0, <2>4, Removed
  <2>6. \A k \in DOMAIN toPa' : k \in DOMAIN toPa /\ k + 1 \in DOMAIN toPa
    BY <1>0, <2>5
  <2> QED
    BY <2>2, <2>3, <2>5, <2>6
<1>10. CASE UNCHANGED vars
  <2>1. UNCHANGED <<item, toPa, blind, held, recalled, toAc>>
    BY <1>10 DEF vars, acVars, paVars
  <2> QED
    BY <1>a, <2>1 DEF Known
<1> QED
  BY <1>1, <1>2, <1>3, <1>4, <1>5, <1>6, <1>7, <1>8, <1>9, <1>10
     DEF Next, AcStep, PaStep, Network, ItemStep

LEMMA InitTrack == Init => Track
<1> SUFFICES ASSUME Init PROVE Track
  OBVIOUS
<1>1. Types
  BY InitTypes
<1>2. DOMAIN toPa = {} /\ DOMAIN replies = {}
  BY DEF Init
<1>3. CallMatches /\ LiveRequest /\ LiveReply
  BY <1>2 DEF Init, CallMatches, LiveRequest, LiveReply, Idle
<1>4. RunningKept
  BY DEF Init, RunningKept
<1> QED
  BY <1>1, <1>3, <1>4 DEF Track

LEMMA NextTrack == Track /\ [Next]_vars => Track'
<1> SUFFICES ASSUME Track, [Next]_vars PROVE Track'
  OBVIOUS
<1>1. Types /\ CallMatches /\ LiveRequest /\ LiveReply
  BY DEF Track
<1>2. Types'
  BY <1>1, NextTypes
<1>3. CallMatches' /\ LiveRequest'
  BY <1>1, CallMatchesNext, LiveRequestNext
<1>4. LiveReply'
  BY <1>1, <1>2, LiveReplyNext
<1>5. RunningKept'
  BY <1>2, RunningKeptNext
<1> QED
  BY <1>2, <1>3, <1>4, <1>5 DEF Track

\* Unless a reply was taken for another call, a pump was restarted while it
\* cooled down, a revocation was lost or the PA restarted, what runs is counted
\* by the PA or the order to stop is on its way: for every order of calls,
\* give-ups, late requests, revocations and AC restarts.
THEOREM AwareTheorem == Spec => []AwareUnlessBlind
<1>1. Init => Track
  BY InitTrack
<1>2. Track /\ [Next]_vars => Track'
  BY NextTrack
<1>3. Track => AwareUnlessBlind
  BY DEF Track, RunningKept, AwareUnlessBlind, Aware
<1> QED
  BY <1>1, <1>2, <1>3, PTL DEF Spec

-----------------------------------------------------------------------------
(* Why the PA does not count what has stopped: the last request of a       *)
(* stopped item is its release, and while that call is outstanding the     *)
(* release is the last request of all, or has been served.                 *)

ReleaseTracked ==
  ~Idle /\ call.op = "release" /\ ~lostRequest =>
    \/ toPa = <<>> /\ call.item \notin held
    \/ toPa # <<>> /\ toPa[Len(toPa)].age = "live"

Released(i) ==
  \/ i \notin held /\ ~Requested(i)
  \/ \E k \in DOMAIN toPa :
       /\ toPa[k].item = i /\ toPa[k].op = "release"
       /\ \A m \in DOMAIN toPa : m > k => toPa[m].item # i

LastReleases ==
  ~lostRequest => \A i \in Items : item[i] = "stopped" => Released(i)

LEMMA ReleaseTrackedNext ==
  Types /\ LiveRequest /\ ReleaseTracked /\ [Next]_vars => ReleaseTracked'
<1> SUFFICES ASSUME Types, LiveRequest, ReleaseTracked, [Next]_vars
             PROVE  ReleaseTracked'
  OBVIOUS
<1>0. /\ toPa \in Seq(Request) /\ Len(toPa) \in Nat
      /\ DOMAIN toPa = 1..Len(toPa)
      /\ toPa = <<>> <=> Len(toPa) = 0
  BY Queues
<1>1. CASE ItemStep \/ GetRevoke \/ AcRestart \/ Accept \/ GiveUp
  <2>1. ItemStep \/ GetRevoke => Idle'
    BY DEF ItemStep, Start, WarmStart, Stop, Cooled, GetRevoke, Idle
  <2>2. AcRestart \/ Accept \/ GiveUp => Idle'
    BY DEF AcRestart, Accept, GiveUp, Return, Idle
  <2> QED
    BY <1>1, <2>1, <2>2 DEF ReleaseTracked
<1>2. ASSUME NEW i \in Items, NEW op \in Ops, Call(i, op) PROVE ReleaseTracked'
  <2> DEFINE e == [op |-> op, item |-> i, age |-> "live"]
  <2>1. e \in Request /\ e.age = "live"
    BY DEF Request, Ages
  <2> HIDE DEF e
  <2>2. toPa' = Append(toPa, e)
    BY <1>2 DEF Call, e
  <2>3. toPa' # <<>> /\ Len(toPa') = Len(toPa) + 1 /\ toPa'[Len(toPa) + 1] = e
    BY <1>0, <2>1, <2>2, Appended
  <2> QED
    BY <2>1, <2>3 DEF ReleaseTracked
<1>3. CASE Serve
  <2>1. /\ toPa # <<>> /\ toPa' = Tail(toPa)
        /\ UNCHANGED <<call, lostRequest>>
        /\ Head(toPa).op = "release" => held' = held \ {Head(toPa).item}
    BY <1>3, ServeIs
  <2>2. /\ Head(toPa) = toPa[1] /\ Len(toPa) \in DOMAIN toPa
        /\ toPa' \in Seq(Request) /\ Len(toPa') = Len(toPa) - 1
        /\ \A k \in 1..(Len(toPa) - 1) : toPa'[k] = toPa[k + 1]
    BY <1>0, <2>1, Tailed
  <2> SUFFICES ASSUME ~Idle, call.op = "release", ~lostRequest
               PROVE  \/ toPa' = <<>> /\ call.item \notin held'
                      \/ toPa' # <<>> /\ toPa'[Len(toPa')].age = "live"
    BY <2>1 DEF ReleaseTracked, Idle
  <2>3. toPa[Len(toPa)].age = "live"
    BY <2>1 DEF ReleaseTracked
  <2>4. CASE Len(toPa) = 1
    <3>1. toPa' = <<>>
      <4>1. Len(toPa') = 0
        BY <2>2, <2>4
      <4> QED
        BY <2>2, <4>1, EmptySeq
    <3>2. Head(toPa).op = "release" /\ Head(toPa).item = call.item
      BY <2>2, <2>3, <2>4 DEF LiveRequest
    <3> QED
      BY <2>1, <3>1, <3>2
  <2>5. CASE Len(toPa) # 1
    <3>1. Len(toPa) - 1 \in 1..(Len(toPa) - 1) /\ (Len(toPa) - 1) + 1 = Len(toPa)
      BY <1>0, <2>1, <2>5
    <3>2. toPa'[Len(toPa')] = toPa[Len(toPa)]
      BY <2>2, <3>1
    <3>3. toPa' # <<>>
      <4>1. Len(toPa') # 0
        BY <2>2, <3>1
      <4> QED
        BY <4>1, EmptySeq
    <3> QED
      BY <2>3, <3>2, <3>3
  <2> QED
    BY <2>4, <2>5
<1>4. CASE HardLimit \/ Resume \/ \E i \in Items : Revoke(i)
  <2>1. UNCHANGED <<call, lostRequest, toPa>> /\ held' \subseteq held
    BY <1>4 DEF HardLimit, Resume, Revoke, acVars
  <2> QED
    BY <2>1 DEF ReleaseTracked, Idle
<1>5. CASE PaRestart
  BY <1>5 DEF PaRestart, ReleaseTracked
<1>6. CASE LoseRequest
  BY <1>6 DEF LoseRequest, ReleaseTracked
<1>7. CASE LoseReply \/ LoseRevoke \/ UNCHANGED vars
  <2>1. UNCHANGED <<call, lostRequest, toPa, held>>
    BY <1>7 DEF LoseReply, LoseRevoke, vars, acVars, paVars
  <2> QED
    BY <2>1 DEF ReleaseTracked, Idle
<1> QED
  BY <1>1, <1>2, <1>3, <1>4, <1>5, <1>6, <1>7
     DEF Next, AcStep, PaStep, Network, ItemStep

LEMMA LastReleasesNext ==
  /\ Types /\ CallMatches /\ LiveRequest /\ ReleaseTracked /\ LastReleases
  /\ [Next]_vars
  => LastReleases'
<1> SUFFICES ASSUME Types, CallMatches, LiveRequest, ReleaseTracked, LastReleases,
                    [Next]_vars, ~lostRequest',
                    NEW i \in Items, item'[i] = "stopped"
             PROVE  Released(i)'
  BY DEF LastReleases
<1>0. /\ item \in [Items -> ItemStates] /\ lostRequest \in BOOLEAN
      /\ toPa \in Seq(Request) /\ Len(toPa) \in Nat
      /\ DOMAIN toPa = 1..Len(toPa)
      /\ toPa = <<>> <=> Len(toPa) = 0
  BY Queues DEF Types, TypeOK
<1>1. ASSUME UNCHANGED <<lostRequest, toPa>>, item[i] = "stopped", held' \subseteq held
      PROVE  Released(i)'
  <2>1. Released(i)
    BY <1>1 DEF LastReleases
  <2> QED
    BY <1>1, <2>1 DEF Released, Requested
<1>2. CASE ItemStep
  <2>1. PICK j \in Items : Start(j) \/ WarmStart(j) \/ Stop(j) \/ Cooled(j)
    BY <1>2 DEF ItemStep
  <2>2. UNCHANGED <<lostRequest, toPa, held>>
    BY <2>1 DEF Start, WarmStart, Stop, Cooled, paVars
  <2>3. item[i] = "stopped"
    BY <1>0, <2>1 DEF Start, WarmStart, Stop, Cooled, Become
  <2> QED
    BY <1>1, <2>2, <2>3
<1>3. ASSUME NEW j \in Items, NEW op \in Ops, Call(j, op) PROVE Released(i)'
  <2> DEFINE e == [op |-> op, item |-> j, age |-> "live"]
  <2>1. e \in Request /\ e.item = j
    BY DEF Request, Ages
  <2> HIDE DEF e
  <2>2. /\ toPa' = Append(toPa, e) /\ op \in CallOf(item[j])
        /\ UNCHANGED <<item, held, lostRequest>>
    BY <1>3 DEF Call, e, paVars
  <2>3. j # i
    BY <2>2 DEF CallOf
  <2>4. /\ DOMAIN toPa' = 1..(Len(toPa) + 1)
        /\ \A k \in DOMAIN toPa : toPa'[k] = toPa[k]
        /\ toPa'[Len(toPa) + 1] = e
    BY <1>0, <2>1, <2>2, Appended
  <2>5. \A k \in DOMAIN toPa' : k \in DOMAIN toPa \/ toPa'[k].item # i
    BY <1>0, <2>1, <2>3, <2>4
  <2>6. Released(i)
    BY <2>2 DEF LastReleases
  <2>7. CASE i \notin held /\ ~Requested(i)
    BY <2>2, <2>4, <2>5, <2>7 DEF Released, Requested
  <2>8. ASSUME NEW k \in DOMAIN toPa,
               toPa[k].item = i, toPa[k].op = "release",
               \A m \in DOMAIN toPa : m > k => toPa[m].item # i
        PROVE  Released(i)'
    <3>1. /\ k \in DOMAIN toPa' /\ toPa'[k] = toPa[k]
          /\ \A m \in DOMAIN toPa' : m > k => toPa'[m].item # i
      BY <1>0, <2>4, <2>5, <2>8
    <3> QED
      BY <2>8, <3>1 DEF Released
  <2> QED
    BY <2>6, <2>7, <2>8 DEF Released
<1>4. CASE Accept \/ GiveUp
  <2>1. PICK status \in 0..1 : Return(status)
    BY <1>4, AcceptReply DEF GiveUp
  <2>2. ~Idle /\ call.op \in CallOf(item[call.item]) /\ call.item \in Items /\ call.op \in Ops
    BY <1>4, CallItem DEF Accept, GiveUp, CallMatches
  <2>3. /\ item' = [item EXCEPT ![call.item] = Outcome(call.op, status)]
        /\ toPa' = Aged(toPa, {"live"}, "stale")
        /\ UNCHANGED <<held, lostRequest>>
    BY <2>1 DEF Return, Become, paVars
  <2>4. /\ DOMAIN toPa' = DOMAIN toPa
        /\ \A k \in DOMAIN toPa : /\ toPa'[k].op = toPa[k].op
                                  /\ toPa'[k].item = toPa[k].item
    BY <1>0, <2>3, AgedIs DEF Ages
  <2>5. Released(i)
    <3>1. CASE item[i] = "stopped"
      BY <2>3, <3>1 DEF LastReleases
    <3>2. CASE item[i] # "stopped"
      <4>1. i = call.item /\ Outcome(call.op, status) = "stopped"
        BY <1>0, <2>2, <2>3, <3>2
      <4>2. call.op = "release"
        BY <2>2, <4>1 DEF Outcome, Ops
      <4>3. \/ toPa = <<>> /\ i \notin held
            \/ toPa # <<>> /\ toPa[Len(toPa)].age = "live"
        BY <2>2, <2>3, <4>1, <4>2 DEF ReleaseTracked
      <4>4. CASE toPa = <<>> /\ i \notin held
        <5>1. DOMAIN toPa = {}
          BY <4>4
        <5> QED
          BY <4>4, <5>1 DEF Released, Requested
      <4>5. CASE toPa # <<>> /\ toPa[Len(toPa)].age = "live"
        <5>1. Len(toPa) \in DOMAIN toPa
          BY <1>0, <4>5
        <5>2. toPa[Len(toPa)].op = "release" /\ toPa[Len(toPa)].item = i
          BY <4>1, <4>2, <4>5, <5>1 DEF LiveRequest
        <5>3. \A m \in DOMAIN toPa : ~ (m > Len(toPa))
          BY <1>0
        <5> QED
          BY <5>1, <5>2, <5>3 DEF Released
      <4> QED
        BY <4>3, <4>4, <4>5
    <3> QED
      BY <3>1, <3>2
  <2> QED
    BY <2>3, <2>4, <2>5 DEF Released, Requested
<1>5. CASE GetRevoke
  <2>1. /\ UNCHANGED <<held, toPa, lostRequest>>
        /\ item' = [item EXCEPT ![Head(toAc)] = Revoked(Head(toAc))]
    BY <1>5 DEF GetRevoke, Become, paVars
  <2>2. item[i] = "stopped"
    BY <1>0, <2>1 DEF Revoked
  <2> QED
    BY <1>1, <2>1, <2>2
<1>6. CASE AcRestart
  BY <1>6 DEF AcRestart
<1>7. CASE Serve
  <2>1. /\ toPa # <<>> /\ toPa' = Tail(toPa)
        /\ UNCHANGED <<item, lostRequest>>
        /\ Head(toPa).op = "release" => held' = held \ {Head(toPa).item}
    BY <1>7, ServeIs
  <2>2. \/ held' = held \cup {Head(toPa).item}
        \/ held' = held
        \/ held' = held \ {Head(toPa).item}
    BY <1>7, ServeIs
  <2>3. /\ Head(toPa) = toPa[1] /\ 1 \in DOMAIN toPa
        /\ DOMAIN toPa' = 1..(Len(toPa) - 1)
        /\ \A k \in DOMAIN toPa' : toPa'[k] = toPa[k + 1]
    BY <1>0, <2>1, Tailed
  <2>4. \A k \in DOMAIN toPa' : k \in Int /\ k + 1 \in DOMAIN toPa
    BY <1>0, <2>3
  <2>5. Released(i)
    BY <2>1 DEF LastReleases
  <2>6. CASE i \notin held /\ ~Requested(i)
    <3>1. Head(toPa).item # i
      BY <2>3, <2>6 DEF Requested
    <3> QED
      BY <2>2, <2>3, <2>4, <2>6, <3>1 DEF Released, Requested
  <2>7. ASSUME NEW k \in DOMAIN toPa,
               toPa[k].item = i, toPa[k].op = "release",
               \A m \in DOMAIN toPa : m > k => toPa[m].item # i
        PROVE  Released(i)'
    <3>1. CASE k = 1
      <4>1. i \notin held'
        BY <2>1, <2>3, <2>7, <3>1
      <4>2. \A m \in DOMAIN toPa' : toPa'[m].item # i
        <5>1. ASSUME NEW m \in DOMAIN toPa' PROVE toPa'[m].item # i
          <6>1. m + 1 > k /\ m + 1 \in DOMAIN toPa
            BY <1>0, <2>3, <2>4, <3>1
          <6> QED
            BY <2>3, <2>7, <6>1
        <5> QED
          BY <5>1
      <4> QED
        BY <4>1, <4>2 DEF Released, Requested
    <3>2. CASE k # 1
      <4>1. k - 1 \in DOMAIN toPa' /\ (k - 1) + 1 = k
        BY <1>0, <2>3, <3>2
      <4>2. toPa'[k - 1].item = i /\ toPa'[k - 1].op = "release"
        BY <2>3, <2>7, <4>1
      <4>3. ASSUME NEW m \in DOMAIN toPa', m > k - 1
            PROVE  toPa'[m].item # i
        <5>1. m + 1 > k /\ m + 1 \in DOMAIN toPa
          BY <1>0, <2>4, <4>1, <4>3
        <5> QED
          BY <2>3, <2>7, <5>1
      <4> QED
        BY <4>1, <4>2, <4>3 DEF Released
    <3> QED
      BY <3>1, <3>2
  <2> QED
    BY <2>5, <2>6, <2>7 DEF Released
<1>8. CASE HardLimit \/ Resume \/ \E j \in Items : Revoke(j)
  <2>1. UNCHANGED <<item, lostRequest, toPa>> /\ held' \subseteq held
    BY <1>8 DEF HardLimit, Resume, Revoke, acVars
  <2> QED
    BY <1>1, <2>1
<1>9. CASE PaRestart
  <2>1. toPa' = <<>> /\ held' = {}
    BY <1>9 DEF PaRestart
  <2>2. DOMAIN toPa' = {}
    BY <2>1
  <2> QED
    BY <2>1, <2>2 DEF Released, Requested
<1>10. CASE LoseRequest
  BY <1>10 DEF LoseRequest
<1>11. CASE LoseReply \/ LoseRevoke \/ UNCHANGED vars
  <2>1. UNCHANGED <<item, lostRequest, toPa, held>>
    BY <1>11 DEF LoseReply, LoseRevoke, vars, acVars, paVars
  <2> QED
    BY <1>1, <2>1
<1> QED
  BY <1>2, <1>3, <1>4, <1>5, <1>6, <1>7, <1>8, <1>9, <1>10, <1>11
     DEF Next, AcStep, PaStep, Network, ItemStep

\* What the PA still holds for a stopped item is about to be released by a
\* request in its queue, whatever call was given up and whichever agent was
\* restarted, unless a request was lost.
THEOREM NoOrphanTheorem == Spec => []NoOrphan
<1> DEFINE IInv == Track /\ ReleaseTracked /\ LastReleases
<1>1. Init => IInv
  <2> SUFFICES ASSUME Init PROVE ReleaseTracked /\ LastReleases
    BY InitTrack
  <2>1. DOMAIN toPa = {} /\ held = {} /\ Idle
    BY DEF Init, Idle
  <2> QED
    BY <2>1 DEF ReleaseTracked, LastReleases, Released, Requested
<1>2. IInv /\ [Next]_vars => IInv'
  BY NextTrack, ReleaseTrackedNext, LastReleasesNext DEF Track
<1>3. IInv => NoOrphan
  <2> SUFFICES ASSUME LastReleases, NEW i \in Items,
                      i \in held, item[i] = "stopped", ~lostRequest
               PROVE  Requested(i)
    BY DEF NoOrphan
  <2> QED
    BY DEF LastReleases, Released, Requested
<1> QED
  BY <1>1, <1>2, <1>3, PTL DEF Spec

-----------------------------------------------------------------------------
(* The protocol implements PowerLease.                                     *)

LEMMA LeaseInit == Init => Lease!Init
<1> SUFFICES ASSUME Init PROVE Lease!Init
  OBVIOUS
<1>1. Range(toAc) = {}
  <2>1. DOMAIN toAc = {}
    BY DEF Init
  <2> QED
    BY <2>1 DEF Range
<1>2. {i \in Items : item[i] = "running"} = {}
  BY DEF Init
<1> QED
  BY <1>1, <1>2 DEF Init, Lease!Init

Using == {i \in Items : item[i] = "running"}
Coming == recalled \cup Range(toAc)

\* The mapped variables keep their types.
LEMMA LeaseTypes ==
  ASSUME Types
  PROVE  held \subseteq Items /\ Coming \subseteq Items /\ Using \subseteq Items
<1>1. toAc \in Seq(Items) /\ held \subseteq Items /\ recalled \subseteq Items
  BY DEF Types, TypeOK
<1>2. Range(toAc) \subseteq Items
  BY <1>1, RangeIs
<1> QED
  BY <1>1, <1>2 DEF Coming, Using

\* The steps of PowerLease, in the variables of the protocol.
LEMMA LeaseEnds ==
  ASSUME NEW i \in Items, Using' = Using \ {i}, UNCHANGED <<held, Coming, blind>>
  PROVE  Lease!Next
<1>1. Lease!End(i)
  BY DEF Lease!End, Using, Coming
<1> QED
  BY <1>1 DEF Lease!Next

LEMMA LeaseBegins ==
  ASSUME NEW i \in Items, i \in held \cup Coming,
         Using' = Using \cup {i}, UNCHANGED <<held, Coming, blind>>
  PROVE  Lease!Next
<1>1. Lease!Begin(i)
  BY DEF Lease!Begin, Using, Coming
<1> QED
  BY <1>1 DEF Lease!Next

LEMMA LeaseTells ==
  ASSUME NEW i \in Items, Using' = Using \ {i},
         Coming' \in {Coming, Coming \ {i}}, UNCHANGED <<held, blind>>
  PROVE  Lease!Next
<1>1. Lease!Told(i)
  BY DEF Lease!Told, Using, Coming
<1> QED
  BY <1>1 DEF Lease!Next

\* A step after which neither side may trust the other is Betray; every other
\* step is one of PowerLease or changes nothing of it.
LEMMA LeaseStep ==
  Track /\ Types' /\ [Next]_vars => Lease!Next \/ UNCHANGED <<held, Coming, Using, blind>>
<1> SUFFICES ASSUME Track, Types', [Next]_vars
             PROVE  Lease!Next \/ UNCHANGED <<held, Coming, Using, blind>>
  OBVIOUS
<1>0. /\ Types /\ item \in [Items -> ItemStates] /\ toPa \in Seq(Request)
      /\ blind \in BOOLEAN /\ blind' \in BOOLEAN
  BY DEF Track, Types, TypeOK
<1>a. /\ held \subseteq Items /\ Coming \subseteq Items /\ Using \subseteq Items
  BY <1>0, LeaseTypes
<1>1. CASE blind'
  <2>1. held' \subseteq Items /\ Coming' \subseteq Items /\ Using' \subseteq Items
    <3>1. toAc' \in Seq(Items) /\ held' \subseteq Items /\ recalled' \subseteq Items
      BY DEF Types, TypeOK
    <3>2. Range(toAc') \subseteq Items
      BY <3>1, RangeIs
    <3> QED
      BY <3>1, <3>2 DEF Coming, Using
  <2>2. (~blind)' = FALSE
    BY <1>1
  <2>3. Lease!Betray
    BY <2>1, <2>2 DEF Lease!Betray, Coming, Using
  <2> QED
    BY <2>3 DEF Lease!Next
<1>2. CASE ~blind'
  <2>1. CASE ItemStep
    <3>1. PICK j \in Items : Start(j) \/ WarmStart(j) \/ Stop(j) \/ Cooled(j)
      BY <2>1 DEF ItemStep
    <3>2. UNCHANGED <<held, recalled, toAc>>
      BY <3>1 DEF Start, WarmStart, Stop, Cooled, paVars
    <3>3. Coming' = Coming
      BY <3>2 DEF Coming
    <3>4. CASE Start(j) \/ Cooled(j)
      <4>1. Using' = Using /\ blind' = blind
        BY <1>0, <3>4 DEF Start, Cooled, Become, Using
      <4> QED
        BY <3>2, <3>3, <4>1
    <3>5. CASE Stop(j)
      <4>1. Using' = Using \ {j} /\ blind' = blind
        BY <1>0, <3>5 DEF Stop, Become, Using
      <4> QED
        BY <3>2, <3>3, <4>1, LeaseEnds
    <3>6. CASE WarmStart(j)
      <4>1. ~blind /\ j \in Known
        BY <1>2, <3>6 DEF WarmStart
      <4>2. blind' = blind
        BY <1>0, <1>2, <4>1
      <4>3. Using' = Using \cup {j}
        BY <1>0, <3>6 DEF WarmStart, Become, Using
      <4>4. j \in held \cup Coming
        BY <4>1 DEF Known, Coming
      <4> QED
        BY <3>2, <3>3, <4>2, <4>3, <4>4, LeaseBegins
    <3> QED
      BY <3>1, <3>4, <3>5, <3>6
  <2>2. ASSUME NEW j \in Items, NEW op \in Ops, Call(j, op)
        PROVE  UNCHANGED <<held, Coming, Using, blind>>
    BY <2>2 DEF Call, paVars, Coming, Using
  <2>3. CASE Accept \/ GiveUp
    <3> DEFINE c == call.item
    <3>1. PICK status \in 0..1 : Return(status)
      BY <2>3, <1>0, AcceptReply DEF GiveUp
    <3>2. ~Idle /\ call.op \in CallOf(item[c]) /\ c \in Items /\ call.op \in Ops
      BY <1>0, <2>3, CallItem DEF Accept, GiveUp, Track, CallMatches
    <3>3. /\ item' = [item EXCEPT ![c] = Outcome(call.op, status)]
          /\ UNCHANGED <<held, recalled, toAc>>
      BY <3>1 DEF Return, Become, paVars
    <3>4. Coming' = Coming
      BY <3>3 DEF Coming
    <3>5. blind' = blind
      <4>1. ~blind
        BY <1>2, <2>3 DEF Accept, GiveUp
      <4> QED
        BY <1>0, <1>2, <4>1
    <3>6. CASE Outcome(call.op, status) # "running"
      <4>1. Using' = Using \ {c}
        BY <1>0, <3>2, <3>3, <3>6 DEF Using
      <4> QED
        BY <3>2, <3>3, <3>4, <3>5, <4>1, LeaseEnds
    <3>7. CASE Outcome(call.op, status) = "running"
      <4>1. Using' = Using \cup {c}
        BY <1>0, <3>2, <3>3, <3>7 DEF Using
      <4>2. c \in held' \cup Coming'
        <5>1. item'[c] = "running"
          BY <1>0, <3>2, <3>3, <3>7
        <5>2. RunningKept'
          BY RunningKeptNext
        <5>3. c \in Known'
          BY <1>2, <3>2, <5>1, <5>2 DEF RunningKept
        <5> QED
          BY <5>3 DEF Known, Coming
      <4>3. c \in held \cup Coming
        BY <3>3, <3>4, <4>2
      <4> QED
        BY <3>2, <3>3, <3>4, <3>5, <4>1, <4>3, LeaseBegins
    <3> QED
      BY <3>6, <3>7
  <2>4. CASE GetRevoke
    <3> DEFINE h == Head(toAc)
    <3>1. /\ toAc \in Seq(Items) /\ toAc # <<>> /\ toAc' = Tail(toAc)
          /\ item' = [item EXCEPT ![h] = Revoked(h)]
          /\ UNCHANGED <<held, recalled, blind>>
      BY <1>0, <2>4 DEF GetRevoke, Become, paVars, Types, TypeOK
    <3>2. h \in Items /\ Range(toAc) = Range(toAc') \cup {h}
      BY <3>1, Tailed, RangeOfTail
    <3>3. Using' = Using \ {h}
      BY <1>0, <3>1, <3>2 DEF Using, Revoked
    <3>4. Coming' \in {Coming, Coming \ {h}}
      BY <3>1, <3>2 DEF Coming
    <3> QED
      BY <3>1, <3>2, <3>3, <3>4, LeaseTells
  <2>5. CASE AcRestart
    <3>1. Using' = {} /\ UNCHANGED <<held, recalled, blind>>
      BY <2>5 DEF AcRestart, Using, paVars
    <3>2. Range(toAc') = {}
      <4>1. toAc' = <<>>
        BY <2>5 DEF AcRestart
      <4>2. DOMAIN toAc' = {}
        BY <4>1
      <4> QED
        BY <4>2 DEF Range
    <3>3. Coming' \subseteq Coming
      BY <3>1, <3>2 DEF Coming
    <3>4. Lease!Halt
      BY <3>1, <3>3 DEF Lease!Halt, Using, Coming
    <3> QED
      BY <3>4 DEF Lease!Next
  <2>6. CASE Serve
    <3> DEFINE r == Head(toPa)
    <3>1. /\ toPa # <<>> /\ r \in Request
          /\ UNCHANGED <<item, recalled, toAc, blind>>
      BY <1>0, <2>6, ServeIs
    <3>2. Coming' = Coming /\ Using' = Using /\ r.item \in Items
      BY <3>1 DEF Coming, Using, Request
    <3>3. \/ held' = held \cup {r.item}
          \/ held' = held
          \/ held' = held \ {r.item} /\ r.op # "repri"
      BY <1>0, <2>6, ServeIs
    <3>4. CASE held' = held \cup {r.item}
      <4>1. Lease!Grant(r.item)
        BY <3>1, <3>2, <3>4 DEF Lease!Grant, Using, Coming
      <4> QED
        BY <3>2, <4>1 DEF Lease!Next
    <3>5. CASE held' = held
      BY <3>1, <3>2, <3>5
    <3>6. CASE held' = held \ {r.item} /\ r.op # "repri"
      <4>1. 1 \in DOMAIN toPa /\ r = toPa[1]
        BY <1>0, <3>1, Tailed
      <4>2. item[r.item] # "running"
        BY <1>2, <3>1, <3>2, <3>6, <4>1 DEF Track, RunningKept
      <4>3. r.item \notin Using
        BY <4>2 DEF Using
      <4>4. Lease!Free(r.item)
        BY <3>1, <3>2, <3>6, <4>3 DEF Lease!Free, Using, Coming
      <4> QED
        BY <3>2, <4>4 DEF Lease!Next
    <3> QED
      BY <3>3, <3>4, <3>5, <3>6
  <2>7. CASE HardLimit
    <3>1. /\ Using' = Using /\ blind' = blind
          /\ Coming' = Coming \cup held /\ held' = held \ held
      BY <2>7 DEF HardLimit, acVars, Using, Coming
    <3>2. held \in SUBSET Items
      BY <1>a
    <3>3. Lease!Recall(held)
      BY <3>1 DEF Lease!Recall, Using, Coming
    <3> QED
      BY <3>2, <3>3 DEF Lease!Next
  <2>8. ASSUME NEW j \in Items, Revoke(j)
        PROVE  Lease!Next
    <3>1. /\ UNCHANGED <<item, blind, held>>
          /\ toAc \in Seq(Items) /\ toAc' = Append(toAc, j)
          /\ recalled' = recalled \ {j}
      BY <1>0, <2>8 DEF Revoke, acVars, Types, TypeOK
    <3>2. Range(toAc') = Range(toAc) \cup {j}
      BY <3>1, RangeOfAppend
    <3>3. Coming' = Coming \cup {j}
      BY <3>1, <3>2 DEF Coming
    <3>4. Using' = Using
      BY <3>1 DEF Using
    <3>5. Lease!Recall({j})
      BY <3>1, <3>3, <3>4 DEF Lease!Recall, Using, Coming
    <3>6. {j} \in SUBSET Items
      OBVIOUS
    <3> QED
      BY <3>5, <3>6 DEF Lease!Next
  <2>9. CASE Resume \/ LoseRequest \/ LoseReply \/ UNCHANGED vars
    <3>1. UNCHANGED <<item, held, recalled, toAc, blind>>
      BY <2>9 DEF Resume, LoseRequest, LoseReply, vars, acVars, paVars
    <3> QED
      BY <3>1 DEF Coming, Using
  <2>10. CASE PaRestart \/ LoseRevoke
    BY <1>2, <2>10 DEF PaRestart, LoseRevoke
  <2> QED
    BY <2>1, <2>2, <2>3, <2>4, <2>5, <2>6, <2>7, <2>8, <2>9, <2>10
       DEF Next, AcStep, PaStep, Network, ItemStep
<1> QED
  BY <1>1, <1>2

\* Whatever the order of calls, timeouts, late or lost messages and restarts,
\* the agents keep the promise of PowerLease: every step of the call protocol
\* is a step of the abstract lease, and one after which the two sides may have
\* lost track of each other is its Betray.
THEOREM ImplementsLease == Spec => LeaseSpec
<1>1. Init => Lease!Init
  BY LeaseInit
<1>2. Track /\ Track' /\ [Next]_vars => [Lease!Next]_(Lease!vars)
  <2>1. Track /\ Track' /\ [Next]_vars =>
          Lease!Next \/ UNCHANGED <<held, Coming, Using, blind>>
    BY LeaseStep DEF Track
  <2>2. UNCHANGED <<held, Coming, Using, blind>> => UNCHANGED Lease!vars
    BY DEF Lease!vars, Coming, Using
  <2> QED
    BY <2>1, <2>2
<1>3. Init => Track
  BY InitTrack
<1>4. Track /\ [Next]_vars => Track'
  BY NextTrack
<1> QED
  BY <1>1, <1>2, <1>3, <1>4, PTL DEF Spec, LeaseSpec, Lease!Spec
=============================================================================
