-------------------------- MODULE AgentQueueProofs --------------------------
(* Proofs about AgentQueue, for any number of messages and either build.   *)
EXTENDS AgentQueue, SequenceTheorems, WellFoundedInduction, TLAPS

-----------------------------------------------------------------------------
(* The inductive invariant of the build with the mutex.  Instead of paths  *)
(* along links it says which node each link leads to: the next greater or  *)
(* smaller one of the list.                                                *)

\* The nodes in the list; the one being added joins them last
Items == IF mqtt.pc = "idle" THEN live ELSE live \ {new}

\* next of n, q, is the least of S beyond n
NextIn(S, n, q) ==
  IF q = NULL THEN \A m \in S : m <= n
              ELSE q \in S /\ n < q /\ \A m \in S : m <= n \/ q <= m

\* prev of n, p, is the greatest of S below n
PrevIn(S, n, p) ==
  IF p = NULL THEN \A m \in S : n <= m
              ELSE p \in S /\ p < n /\ \A m \in S : m <= p \/ n <= m

Least(S, f) == IF S = {} THEN f = NULL ELSE f \in S /\ \A m \in S : f <= m
Greatest(S, l) == IF S = {} THEN l = NULL ELSE l \in S /\ \A m \in S : m <= l

\* A list of the nodes S from f to l with the links k
ListOf(S, f, l, k) ==
  /\ Least(S, f)
  /\ Greatest(S, l)
  /\ \A n \in S : NextIn(S, n, k[n].next) /\ PrevIn(S, n, k[n].prev)

Unlinked == [next |-> NULL, prev |-> NULL]

\* Each thread is between lock and unlock exactly while it holds the mutex
Exclusion ==
  /\ lp.mutex = "mqtt" <=> mqtt.pc \in AddPlaces \ {"idle", "test"}
  /\ lp.mutex = "agent" <=>
       agent.pc \in {"advance", "check", "unlink", "ends", "free"}

\* Nodes are allocated as messages arrive, and come unlinked
Allocated ==
  /\ live \subseteq 1..arrived
  /\ mqtt.pc # "idle" => new \in live
  /\ \A n \in Node : n > arrived => links[n] = Unlinked
  /\ mqtt.pc # "idle" => links[new].next = NULL
  /\ mqtt.pc \notin {"idle", "end"} => links[new].prev = NULL
  /\ mqtt.pc = "end" => links[new].prev = mqtt.ip

Whole ==
  \/ lp.mutex = "free"
  \/ mqtt.pc \in {"tail", "link"}
  \/ agent.pc \in {"advance", "check", "unlink"}

WholeList == Whole => ListOf(Items, lp.first, lp.last, links)

\* The list while the MQTT thread appends to it
Adding ==
  /\ mqtt.pc \in {"next", "last", "first"} => Items = {} /\ lp.first = NULL
  /\ mqtt.pc = "first" => lp.last = new
  /\ mqtt.pc \in {"tail", "link", "back", "end"} => Items # {}
  /\ mqtt.pc \in {"link", "back", "end"} => mqtt.ip = lp.last
  /\ mqtt.pc \in {"back", "end"} =>
       /\ ListOf(Items, lp.first, lp.last, [links EXCEPT ![mqtt.ip].next = NULL])
       /\ links[mqtt.ip].next = new

\* The list while the agent's thread deletes from it
Removing ==
  /\ agent.pc = "unlink" =>
       agent.prev = links[agent.ip].prev /\ agent.next = links[agent.ip].next
  /\ agent.pc = "ends" =>
       /\ agent.next \in (Items \ {agent.ip}) \cup {NULL}
       /\ ListOf(Items \ {agent.ip},
                 IF lp.first = agent.ip THEN agent.next ELSE lp.first,
                 IF lp.last = agent.ip THEN agent.prev ELSE lp.last, links)

\* The nodes that are left while the agent's thread purges the list
Purging ==
  agent.pc = "free" =>
    /\ Least(Items, agent.ip)
    /\ \A n \in Items : NextIn(Items, n, links[n].next)

\* Where the agent's pointers and the cursor lead
Pointers ==
  /\ agent.pc \in {"advance", "handle", "delete", "check", "unlink", "ends"} =>
       agent.msg \in Items
  /\ agent.pc \in {"set", "check"} => agent.ip \in Items \cup {NULL}
  /\ agent.pc \in {"unlink", "ends"} => agent.ip = agent.msg
  /\ agent.pc # "free" =>
       lp.next \in Items \cup {NULL}
                  \cup (IF mqtt.pc \in {"last", "first"} THEN {new} ELSE {})

Safe ==
  /\ fault = "none"
  /\ Exclusion
  /\ Allocated
  /\ WholeList
  /\ Adding
  /\ Removing
  /\ Purging
  /\ Pointers

\* In either build a message that list_get_next is about to return exists
Found == agent.pc = "advance" => agent.msg # NULL

IInv == TypeOK /\ Found /\ (build = "THREAD_SAFE" => Safe)

-----------------------------------------------------------------------------

LEMMA InitTypeOK == Init => TypeOK
  BY NAssumption, BuildsAssumption
     DEF Init, TypeOK, Pointer, Node, NULL, AddPlaces, ReadPlaces, Phases, Readers

\* What the two threads' steps leave alone
Rest == UNCHANGED <<build, reader>>

LEMMA ArriveTypeOK == TypeOK /\ Arrive /\ Rest => TypeOK'
<1> SUFFICES ASSUME TypeOK, Arrive, Rest
             PROVE  TypeOK'
  OBVIOUS
<1>1. arrived + 1 \in Node /\ arrived + 1 \in Pointer
  BY NAssumption DEF TypeOK, Arrive, Pointer, Node
<1>2. handled' \in Seq(own')
  BY SeqMonotonic DEF TypeOK, Arrive
<1>3. mqtt' \in [pc : AddPlaces, ip : Pointer]
  BY DEF TypeOK, Arrive, MqttAt, AddPlaces
<1> QED BY <1>1, <1>2, <1>3 DEF TypeOK, Arrive, Rest

LEMMA MqttTypeOK == TypeOK /\ MqttStep /\ Rest => TypeOK'
<1> SUFFICES ASSUME TypeOK, MqttStep, Rest
             PROVE  TypeOK'
  OBVIOUS
<1> USE DEF TypeOK, Rest, NULL
<1>1. CASE AddTest
  <2>1. mqtt' \in [pc : AddPlaces, ip : Pointer]
    BY <1>1 DEF AddTest, MqttAt, AddPlaces
  <2>2. lp' \in [first : Pointer, last : Pointer, next : Pointer,
                 mutex : {"free", "mqtt", "agent"}]
    BY <1>1 DEF AddTest, Lock
  <2> QED BY <1>1, <2>1, <2>2 DEF AddTest
<1>2. CASE AddOnly
  <2>1. mqtt' \in [pc : AddPlaces, ip : Pointer]
    BY <1>2 DEF AddOnly, MqttAt, AddPlaces
  <2>2. lp' \in [first : Pointer, last : Pointer, next : Pointer,
                 mutex : {"free", "mqtt", "agent"}]
    BY <1>2 DEF AddOnly, Unlock, new
  <2> QED BY <1>2, <2>1, <2>2 DEF AddOnly
<1>3. CASE AddTail
  BY <1>3 DEF AddTail, AddPlaces
<1>4. CASE AddLink
  <2>1. mqtt' \in [pc : AddPlaces, ip : Pointer]
    BY <1>4 DEF AddLink, MqttAt, AddPlaces
  <2>2. links' \in [Node -> [next : Pointer, prev : Pointer]]
    BY <1>4 DEF AddLink, new
  <2> QED BY <1>4, <2>1, <2>2 DEF AddLink, Follow
<1>5. CASE AddBack
  <2>1. mqtt' \in [pc : AddPlaces, ip : Pointer]
    BY <1>5 DEF AddBack, MqttAt, AddPlaces
  <2>2. links' \in [Node -> [next : Pointer, prev : Pointer]]
    BY <1>5 DEF AddBack, new
  <2> QED BY <1>5, <2>1, <2>2 DEF AddBack, Follow
<1>6. CASE AddEnd
  <2>1. mqtt' \in [pc : AddPlaces, ip : Pointer]
    BY <1>6 DEF AddEnd, MqttAt, AddPlaces
  <2>2. lp' \in [first : Pointer, last : Pointer, next : Pointer,
                 mutex : {"free", "mqtt", "agent"}]
    BY <1>6 DEF AddEnd, Unlock, new
  <2> QED BY <1>6, <2>1, <2>2 DEF AddEnd
<1> QED BY <1>1, <1>2, <1>3, <1>4, <1>5, <1>6 DEF MqttStep

LEMMA AgentTypeOK == TypeOK /\ Found /\ AgentStep /\ Rest => TypeOK'
<1> SUFFICES ASSUME TypeOK, Found, AgentStep, Rest
             PROVE  TypeOK'
  OBVIOUS
<1> DEFINE List == [first : Pointer, last : Pointer, next : Pointer,
                    mutex : {"free", "mqtt", "agent"}]
           Thread == [pc : ReadPlaces, phase : Phases, msg : Pointer, ip : Pointer,
                      prev : Pointer, next : Pointer]
<1>a. NULL \in Pointer /\ Node \subseteq Pointer /\ \A q \in Pointer : q # NULL => q \in Node
  BY NAssumption DEF NULL, Pointer, Node
<1>b. \A n \in Node : links[n].next \in Pointer /\ links[n].prev \in Pointer
  BY DEF TypeOK
<1> USE DEF TypeOK, Rest
<1>1. CASE Begin
  <2>1. agent' \in Thread
    BY <1>1 DEF Begin, ReadPlaces, Phases
  <2> QED BY <1>1, <2>1 DEF Begin, AgentStep
<1>2. CASE ResetRead
  BY <1>2 DEF ResetRead, ReadPlaces, AgentStep
<1>3. CASE ResetWrite
  <2>1. agent' \in Thread /\ lp' \in List
    BY <1>3 DEF ResetWrite, AgentAt, ReadPlaces
  <2> QED BY <1>3, <2>1 DEF ResetWrite, AgentStep
<1>4. CASE GetNext
  <2>1. agent' \in Thread /\ lp' \in List
    BY <1>4 DEF GetNext, Lock, ReadPlaces
  <2> QED BY <1>4, <2>1 DEF GetNext, AgentStep
<1>5. CASE GetEnd
  <2>1. agent' \in Thread
    BY <1>5 DEF GetEnd, ReadPlaces, Phases
  <2> QED BY <1>5, <2>1 DEF GetEnd, AgentStep
<1>6. CASE Advance
  <2>1. agent' \in Thread
    BY <1>6 DEF Advance, AgentAt, ReadPlaces
  <2>2. agent.msg \in Node
    BY <1>6, <1>a DEF Advance, AgentAt, Found
  <2>3. lp' \in List
    BY <1>6, <1>b, <2>2 DEF Advance, Unlock
  <2> QED BY <1>6, <2>1, <2>3 DEF Advance, Follow, AgentStep
<1>7. CASE Handle
  <2>1. agent' \in Thread
    BY <1>7 DEF Handle, AgentAt, ReadPlaces
  <2>2. own' = own
    BY DEF AgentStep
  <2>3. handled' \in Seq(own)
    <3>1. agent.msg \in own => Append(handled, agent.msg) \in Seq(own)
      OBVIOUS
    <3> QED BY <1>7, <3>1 DEF Handle
  <2> QED BY <1>7, <2>1, <2>2, <2>3 DEF Handle, AgentStep
<1>8. CASE DeleteStart
  <2>1. agent' \in Thread /\ lp' \in List
    BY <1>8 DEF DeleteStart, Lock, ReadPlaces
  <2> QED BY <1>8, <2>1 DEF DeleteStart, AgentStep
<1>9. CASE DeleteCheck
  <2>1. agent' \in Thread
    BY <1>9, <1>a, <1>b DEF DeleteCheck, ReadPlaces
  <2> QED BY <1>9, <2>1 DEF DeleteCheck, AgentStep
<1>10. CASE DeleteNotFound
  <2>1. agent' \in Thread /\ lp' \in List
    BY <1>10 DEF DeleteNotFound, AgentAt, Unlock, ReadPlaces
  <2> QED BY <1>10, <2>1 DEF DeleteNotFound, AgentStep
<1>11. CASE Unlink
  <2>1. agent' \in Thread
    BY <1>11 DEF Unlink, AgentAt, ReadPlaces
  <2>2. links' \in [Node -> [next : Pointer, prev : Pointer]]
    BY <1>11, <1>b DEF Unlink
  <2> QED BY <1>11, <2>1, <2>2 DEF Unlink, AgentStep
<1>12. CASE DeleteEnds
  <2>1. agent' \in Thread /\ lp' \in List
    BY <1>12 DEF DeleteEnds, AgentAt, Unlock, ReadPlaces
  <2> QED BY <1>12, <2>1 DEF DeleteEnds, AgentStep
<1>13. CASE PurgeStart
  <2>1. agent' \in Thread /\ lp' \in List
    BY <1>13 DEF PurgeStart, Lock, ReadPlaces
  <2> QED BY <1>13, <2>1 DEF PurgeStart, AgentStep
<1>14. CASE PurgeFree
  <2>1. agent' \in Thread
    BY <1>14, <1>a, <1>b DEF PurgeFree, ReadPlaces
  <2> QED BY <1>14, <2>1 DEF PurgeFree, Follow, AgentStep
<1>15. CASE PurgeClear
  <2>1. agent' \in Thread /\ lp' \in List
    BY <1>15, <1>a DEF PurgeClear, AgentAt, Unlock, ReadPlaces
  <2> QED BY <1>15, <2>1 DEF PurgeClear, AgentStep
<1> QED BY <1>1, <1>2, <1>3, <1>4, <1>5, <1>6, <1>7, <1>8, <1>9, <1>10, <1>11,
           <1>12, <1>13, <1>14, <1>15 DEF AgentStep

LEMMA FoundStays == TypeOK /\ Found /\ (AgentStep \/ MqttStep \/ Arrive) => Found'
<1> SUFFICES ASSUME TypeOK, Found, AgentStep \/ MqttStep \/ Arrive
             PROVE  Found'
  OBVIOUS
<1>1. CASE AgentStep
  BY <1>1 DEF AgentStep, TypeOK, Found, AgentAt, Begin, ResetRead, ResetWrite, GetNext,
     GetEnd, Advance, Handle, DeleteStart, DeleteCheck, DeleteNotFound, Unlink,
     DeleteEnds, PurgeStart, PurgeFree, PurgeClear
<1>2. CASE MqttStep \/ Arrive
  BY <1>2 DEF MqttStep, Arrive, Found, AddTest, AddOnly, AddTail, AddLink, AddBack, AddEnd
<1> QED BY <1>1, <1>2

\* Where the nodes of the list are
LEMMA ItemsAre ==
  ASSUME TypeOK, Allocated
  PROVE  /\ N \in Nat
         /\ arrived \in 0..N
         /\ live \subseteq Node
         /\ links \in [Node -> [next : Pointer, prev : Pointer]]
         /\ Items \subseteq live
         /\ \A n \in Items : n \in Node /\ n \in Nat /\ n # NULL /\ n <= arrived
         /\ mqtt.pc # "idle" =>
              /\ new \in Node /\ new \notin Items /\ live = Items \cup {new}
              /\ \A n \in Items : n < new
         /\ mqtt.pc = "idle" => live = Items
<1>1. N \in Nat /\ Node = 1..N /\ Pointer = 0..N /\ NULL = 0
  BY NAssumption DEF Node, Pointer, NULL
<1>2. arrived \in 0..N /\ live \subseteq Node
  BY <1>1 DEF TypeOK
<1>3. links \in [Node -> [next : Pointer, prev : Pointer]]
  BY DEF TypeOK
<1>4. live \subseteq 1..arrived /\ (mqtt.pc # "idle" => new \in live)
  BY DEF Allocated
<1>5. Items \subseteq live
  BY DEF Items
<1>6. \A n \in Items : n \in Node /\ n \in Nat /\ n # NULL /\ n <= arrived
  BY <1>1, <1>2, <1>4, <1>5
<1>7. ASSUME mqtt.pc # "idle"
      PROVE  /\ new \in Node /\ new \notin Items /\ live = Items \cup {new}
             /\ \A n \in Items : n < new
  <2>1. new \in Node /\ new \notin Items /\ live = Items \cup {new}
    BY <1>2, <1>4, <1>7 DEF Items
  <2>2. \A n \in Items : n < new
    BY <1>1, <1>2, <1>6, <2>1 DEF new
  <2> QED BY <2>1, <2>2
<1>8. mqtt.pc = "idle" => live = Items
  BY DEF Items
<1> QED BY <1>1, <1>2, <1>3, <1>5, <1>6, <1>7, <1>8

LEMMA ArriveSafe ==
  ASSUME TypeOK, TypeOK', Safe, build = "THREAD_SAFE", Arrive, Rest
  PROVE  Safe'
<1> USE DEF Safe, Arrive, MqttAt, Rest
<1>a. arrived \in Nat /\ arrived + 1 \in Node /\ arrived + 1 \notin live
  BY ItemsAre DEF Node, Allocated
<1>b. Items' = Items /\ mqtt.pc = "idle" /\ mqtt'.pc = "test"
  BY <1>a DEF Items, new, MqttAt, TypeOK
<1>1. fault' = "none"
  BY DEF Pointers, Allocated, Items, Adding, Whole, Exclusion
<1>2. Exclusion'
  BY DEF Exclusion, AddPlaces, ReadPlaces, TypeOK
<1>3. Allocated'
  <2>1. live' \subseteq 1..arrived' /\ new' \in live'
    BY <1>a DEF Allocated, new
  <2>2. links'[new'] = Unlinked
    BY <1>a DEF Allocated, new
  <2>3. \A n \in Node : n > arrived' => links'[n] = Unlinked
    BY <1>a DEF Allocated, Node
  <2> QED BY <1>b, <2>1, <2>2, <2>3 DEF Allocated, Unlinked
<1>4. WholeList'
  BY <1>b DEF WholeList, Whole
<1>5. Adding'
  BY DEF Adding, Items, Exclusion, Allocated, TypeOK, new
<1>6. Removing'
  BY <1>b DEF Removing
<1>7. Purging'
  BY <1>b DEF Purging
<1>8. Pointers'
  BY <1>b DEF Pointers
<1> QED BY <1>1, <1>2, <1>3, <1>4, <1>5, <1>6, <1>7, <1>8

LEMMA AddTestSafe ==
  ASSUME TypeOK, TypeOK', Safe, build = "THREAD_SAFE", AddTest, Rest, UNCHANGED <<arrived, own>>
  PROVE  Safe'
<1> USE DEF Safe, AddTest, MqttAt, Lock, Rest
<1>1. fault' = "none"
  BY DEF Pointers, Allocated, Items, Adding, Whole, Exclusion
<1>2. Exclusion'
  BY DEF Exclusion, AddPlaces, ReadPlaces, TypeOK
<1>3. Allocated'
  BY DEF Allocated, TypeOK, new, Unlinked, Items
<1>4. WholeList'
  BY DEF WholeList, Whole, Items, Exclusion, Allocated, TypeOK, new
<1>5. Adding'
  <2>1. Least(Items, lp.first)
    BY DEF WholeList, Whole, ListOf
  <2>2. Items' = Items
    BY DEF Items, new, TypeOK
  <2>3. /\ mqtt'.pc = IF lp.first = NULL THEN "next" ELSE "tail"
        /\ lp'.first = lp.first
    BY DEF TypeOK
  <2>4. CASE lp.first = NULL
    <3>1. Items = {} /\ mqtt'.pc = "next"
      BY <2>1, <2>3, <2>4, ItemsAre DEF Least
    <3> QED BY <2>2, <2>3, <2>4, <3>1 DEF Adding
  <2>5. CASE lp.first # NULL
    <3>1. Items # {} /\ mqtt'.pc = "tail"
      BY <2>1, <2>3, <2>5 DEF Least
    <3> QED BY <2>2, <3>1 DEF Adding
  <2> QED BY <2>4, <2>5
<1>6. Removing'
  BY DEF Removing, Items, Exclusion, Allocated, TypeOK, new
<1>7. Purging'
  BY DEF Purging, Items, Exclusion, Allocated, TypeOK, new
<1>8. Pointers'
  BY DEF Pointers, Items, Exclusion, Allocated, TypeOK, new
<1> QED BY <1>1, <1>2, <1>3, <1>4, <1>5, <1>6, <1>7, <1>8

LEMMA AddOnlySafe ==
  ASSUME TypeOK, TypeOK', Safe, build = "THREAD_SAFE", AddOnly, Rest, UNCHANGED <<arrived, own>>
  PROVE  Safe'
<1> USE DEF Safe, AddOnly, MqttAt, Unlock, Rest
<1>1. fault' = "none"
  BY DEF Pointers, Allocated, Items, Adding, Whole, Exclusion
<1>2. Exclusion'
  BY DEF Exclusion, AddPlaces, ReadPlaces, TypeOK
<1>3. Allocated'
  BY DEF Allocated, TypeOK, new, Unlinked, Items
<1>4. WholeList'
  <2>1. CASE mqtt.pc = "first"
    <3>1. Items' = {new}
      BY <2>1, ItemsAre DEF Items, Adding, new, TypeOK
    <3>2. lp'.first = new /\ lp'.last = new
      BY <2>1 DEF Adding, TypeOK
    <3>3. links'[new].next = NULL /\ links'[new].prev = NULL
      BY <2>1 DEF Allocated
    <3>4. new \in Nat
      BY ItemsAre, <2>1 DEF Node
    <3> QED BY <3>1, <3>2, <3>3, <3>4 DEF WholeList, ListOf, Least, Greatest, NextIn, PrevIn
  <2>2. CASE mqtt.pc # "first"
    BY <2>2 DEF WholeList, Whole, Exclusion, AddPlaces, TypeOK
  <2> QED BY <2>1, <2>2
<1>5. Adding'
  BY DEF Adding, Items, Exclusion, Allocated, TypeOK, new
<1>6. Removing'
  BY DEF Removing, Items, Exclusion, Allocated, TypeOK, new
<1>7. Purging'
  BY DEF Purging, Items, Exclusion, Allocated, TypeOK, new
<1>8. Pointers'
  BY DEF Pointers, Items, Exclusion, Allocated, TypeOK, new
<1> QED BY <1>1, <1>2, <1>3, <1>4, <1>5, <1>6, <1>7, <1>8

LEMMA AddTailSafe ==
  ASSUME TypeOK, TypeOK', Safe, build = "THREAD_SAFE", AddTail, Rest, UNCHANGED <<arrived, own>>
  PROVE  Safe'
<1> USE DEF Safe, AddTail, Rest
<1>1. fault' = "none"
  BY DEF Pointers, Allocated, Items, Adding, Whole, Exclusion
<1>2. Exclusion'
  BY DEF Exclusion, AddPlaces, ReadPlaces, TypeOK
<1>3. Allocated'
  BY DEF Allocated, TypeOK, new, Unlinked, Items
<1>4. WholeList'
  BY DEF WholeList, Whole, Items, Exclusion, Allocated, TypeOK, new
<1>5. Adding'
  BY DEF Adding, Items, Exclusion, Allocated, TypeOK, new
<1>6. Removing'
  BY DEF Removing, Items, Exclusion, Allocated, TypeOK, new
<1>7. Purging'
  BY DEF Purging, Items, Exclusion, Allocated, TypeOK, new
<1>8. Pointers'
  BY DEF Pointers, Items, Exclusion, Allocated, TypeOK, new
<1> QED BY <1>1, <1>2, <1>3, <1>4, <1>5, <1>6, <1>7, <1>8

LEMMA AddLinkSafe ==
  ASSUME TypeOK, TypeOK', Safe, build = "THREAD_SAFE", AddLink, Rest, UNCHANGED <<arrived, own>>
  PROVE  Safe'
<1> USE DEF Safe, AddLink, MqttAt, Follow, Rest
<1>a. ListOf(Items, lp.first, lp.last, links) /\ mqtt.ip = lp.last /\ mqtt.ip \in Items
  BY DEF WholeList, Whole, Adding, ListOf, Greatest
<1>b. /\ mqtt.ip \in live /\ mqtt.ip \in Node /\ mqtt.ip # new
      /\ mqtt.ip <= arrived /\ mqtt.ip \in Nat /\ Items' = Items
  BY <1>a, ItemsAre DEF Items, new, TypeOK
<1>1. fault' = "none"
  BY <1>b
<1>2. Exclusion'
  BY DEF Exclusion, AddPlaces, ReadPlaces, TypeOK
<1>3. Allocated'
  <2>1. \A n \in Node : n # mqtt.ip => links'[n] = links[n]
    OBVIOUS
  <2>2. new \in Node /\ arrived \in Nat
    BY ItemsAre
  <2>3. \A n \in Node : n > arrived => links'[n] = Unlinked
    BY <1>b, <2>1, <2>2 DEF Allocated, Node
  <2> QED BY <1>b, <2>1, <2>2, <2>3 DEF Allocated, new, TypeOK
<1>4. WholeList'
  BY DEF WholeList, Whole, Items, Exclusion, Allocated, TypeOK, new
<1>5. Adding'
  <2>1. links[mqtt.ip].next = NULL
    BY <1>a, ItemsAre DEF ListOf, Greatest, NextIn
  <2>2. \A n \in Items : [links' EXCEPT ![mqtt.ip].next = NULL][n] = links[n]
    BY <1>b, <2>1, ItemsAre
  <2>3. ListOf(Items, lp.first, lp.last, [links' EXCEPT ![mqtt.ip].next = NULL])
    BY <1>a, <2>2 DEF ListOf
  <2>4. links'[mqtt.ip].next = new
    BY <1>b, ItemsAre
  <2>5. mqtt'.pc = "back" /\ mqtt'.ip = mqtt.ip
    BY DEF TypeOK
  <2> QED BY <1>a, <1>b, <2>3, <2>4, <2>5 DEF Adding, new
<1>6. Removing'
  BY DEF Removing, Items, Exclusion, Allocated, TypeOK, new
<1>7. Purging'
  BY DEF Purging, Items, Exclusion, Allocated, TypeOK, new
<1>8. Pointers'
  BY DEF Pointers, Items, Exclusion, Allocated, TypeOK, new
<1> QED BY <1>1, <1>2, <1>3, <1>4, <1>5, <1>6, <1>7, <1>8

LEMMA AddBackSafe ==
  ASSUME TypeOK, TypeOK', Safe, build = "THREAD_SAFE", AddBack, Rest, UNCHANGED <<arrived, own>>
  PROVE  Safe'
<1> USE DEF Safe, AddBack, MqttAt, Follow, Rest
<1>1. fault' = "none"
  BY DEF Pointers, Allocated, Items, Adding, Whole, Exclusion
<1>2. Exclusion'
  BY DEF Exclusion, AddPlaces, ReadPlaces, TypeOK
<1>3. Allocated'
  BY DEF Allocated, TypeOK, new, Unlinked, Items
<1>4. WholeList'
  BY DEF WholeList, Whole, Items, Exclusion, Allocated, TypeOK, new
<1>5. Adding'
  <2>1. Items' = Items /\ mqtt'.pc = "end" /\ mqtt'.ip = mqtt.ip
    BY DEF Items, new, TypeOK
  <2>2. Items # {} /\ mqtt.ip = lp.last /\ links[mqtt.ip].next = new
        /\ ListOf(Items, lp.first, lp.last, [links EXCEPT ![mqtt.ip].next = NULL])
    BY DEF Adding
  <2>3. mqtt.ip \in Items /\ mqtt.ip \in Node /\ mqtt.ip # new /\ new \in Node
    BY <2>2, ItemsAre DEF ListOf, Greatest
  <2>4. \A n \in Items : [links' EXCEPT ![mqtt.ip].next = NULL][n]
                           = [links EXCEPT ![mqtt.ip].next = NULL][n]
    BY <2>3, ItemsAre
  <2>5. ListOf(Items, lp.first, lp.last, [links' EXCEPT ![mqtt.ip].next = NULL])
    BY <2>2, <2>4 DEF ListOf
  <2>6. links'[mqtt.ip].next = new
    BY <2>2, <2>3, ItemsAre
  <2> QED BY <2>1, <2>2, <2>5, <2>6 DEF Adding, new
<1>6. Removing'
  BY DEF Removing, Items, Exclusion, Allocated, TypeOK, new
<1>7. Purging'
  BY DEF Purging, Items, Exclusion, Allocated, TypeOK, new
<1>8. Pointers'
  BY DEF Pointers, Items, Exclusion, Allocated, TypeOK, new
<1> QED BY <1>1, <1>2, <1>3, <1>4, <1>5, <1>6, <1>7, <1>8

LEMMA AddEndSafe ==
  ASSUME TypeOK, TypeOK', Safe, build = "THREAD_SAFE", AddEnd, Rest, UNCHANGED <<arrived, own>>
  PROVE  Safe'
<1> USE DEF Safe, AddEnd, MqttAt, Unlock, Rest
<1>1. fault' = "none"
  BY DEF Pointers, Allocated, Items, Adding, Whole, Exclusion
<1>2. Exclusion'
  BY DEF Exclusion, AddPlaces, ReadPlaces, TypeOK
<1>3. Allocated'
  BY DEF Allocated, TypeOK, new, Unlinked, Items
<1>4. WholeList'
  <2> DEFINE k == [links EXCEPT ![mqtt.ip].next = NULL]
  <2>1. /\ Items # {} /\ mqtt.ip = lp.last /\ links[mqtt.ip].next = new
        /\ ListOf(Items, lp.first, lp.last, k)
    BY DEF Adding
  <2>2. mqtt.ip \in Items /\ \A m \in Items : m <= mqtt.ip
    BY <2>1 DEF ListOf, Greatest
  <2>3. links[new].next = NULL /\ links[new].prev = mqtt.ip
    BY DEF Allocated
  <2>4. /\ Items' = Items \cup {new} /\ new \in Nat /\ new \notin Items
        /\ \A n \in Items : n \in Nat /\ n < new /\ n # NULL /\ n \in Node
        /\ new # NULL
    BY ItemsAre DEF Items, new, TypeOK, Node, NULL
  <2>5. \A n \in Items : /\ n # mqtt.ip => links[n].next = k[n].next
                         /\ links[n].prev = k[n].prev
    BY <2>4, ItemsAre
  <2> HIDE DEF k
  <2>6. lp'.first = lp.first /\ lp'.last = new /\ links' = links
    BY DEF TypeOK
  <2>7. Least(Items', lp'.first) /\ Greatest(Items', lp'.last)
    BY <2>1, <2>4, <2>6 DEF ListOf, Least, Greatest
  <2>8. ASSUME NEW n \in Items'
        PROVE  NextIn(Items', n, links[n].next)
    <3>1. CASE n = new
      BY <2>3, <2>4, <3>1 DEF NextIn
    <3>2. CASE n = mqtt.ip
      BY <2>1, <2>2, <2>4, <3>2 DEF NextIn
    <3>3. CASE n # new /\ n # mqtt.ip
      <4>1. n \in Items /\ NextIn(Items, n, links[n].next)
        BY <2>1, <2>4, <2>5, <3>3 DEF ListOf
      <4>2. links[n].next # NULL
        BY <2>2, <2>4, <3>3, <4>1 DEF NextIn
      <4> QED BY <2>4, <4>1, <4>2 DEF NextIn
    <3> QED BY <3>1, <3>2, <3>3
  <2>9. ASSUME NEW n \in Items'
        PROVE  PrevIn(Items', n, links[n].prev)
    <3>1. CASE n = new
      BY <2>2, <2>3, <2>4, <3>1 DEF PrevIn
    <3>2. CASE n # new
      BY <2>1, <2>4, <2>5, <3>2 DEF ListOf, PrevIn
    <3> QED BY <3>1, <3>2
  <2> QED BY <2>6, <2>7, <2>8, <2>9 DEF WholeList, ListOf
<1>5. Adding'
  BY DEF Adding, Items, Exclusion, Allocated, TypeOK, new
<1>6. Removing'
  BY DEF Removing, Items, Exclusion, Allocated, TypeOK, new
<1>7. Purging'
  BY DEF Purging, Items, Exclusion, Allocated, TypeOK, new
<1>8. Pointers'
  BY DEF Pointers, Items, Exclusion, Allocated, TypeOK, new
<1> QED BY <1>1, <1>2, <1>3, <1>4, <1>5, <1>6, <1>7, <1>8

LEMMA BeginSafe ==
  ASSUME TypeOK, TypeOK', Safe, build = "THREAD_SAFE", Begin, Rest, UNCHANGED <<arrived, own>>
  PROVE  Safe'
<1> USE DEF Safe, Begin, Rest
<1>1. fault' = "none"
  BY DEF Pointers, Allocated, Items, Adding, Whole, Exclusion
<1>2. Exclusion'
  BY DEF Exclusion, AddPlaces, ReadPlaces, TypeOK
<1>3. Allocated'
  BY DEF Allocated, TypeOK, new, Unlinked, Items
<1>4. WholeList'
  BY DEF WholeList, Whole, Items, Exclusion, Allocated, TypeOK, new
<1>5. Adding'
  BY DEF Adding, Items, Exclusion, Allocated, TypeOK, new
<1>6. Removing'
  BY DEF Removing, Items, Exclusion, Allocated, TypeOK, new
<1>7. Purging'
  BY DEF Purging, Items, Exclusion, Allocated, TypeOK, new
<1>8. Pointers'
  BY DEF Pointers, Items, Exclusion, Allocated, TypeOK, new
<1> QED BY <1>1, <1>2, <1>3, <1>4, <1>5, <1>6, <1>7, <1>8

LEMMA ResetReadSafe ==
  ASSUME TypeOK, TypeOK', Safe, build = "THREAD_SAFE", ResetRead, Rest, UNCHANGED <<arrived, own>>
  PROVE  Safe'
<1> USE DEF Safe, ResetRead, Rest
<1>1. fault' = "none"
  BY DEF Pointers, Allocated, Items, Adding, Whole, Exclusion
<1>2. Exclusion'
  BY DEF Exclusion, AddPlaces, ReadPlaces, TypeOK
<1>3. Allocated'
  BY DEF Allocated, TypeOK, new, Unlinked, Items
<1>4. WholeList'
  BY DEF WholeList, Whole, Items, Exclusion, Allocated, TypeOK, new
<1>5. Adding'
  BY DEF Adding, Items, Exclusion, Allocated, TypeOK, new
<1>6. Removing'
  BY DEF Removing, Items, Exclusion, Allocated, TypeOK, new
<1>7. Purging'
  BY DEF Purging, Items, Exclusion, Allocated, TypeOK, new
<1>8. Pointers'
  <2>1. Items' = Items
    BY DEF Items, new
  <2>2. lp.first \in Items \cup {NULL}
    <3>1. CASE lp.mutex = "mqtt"
      BY <3>1 DEF Exclusion, AddPlaces, WholeList, Whole, Adding, ListOf, Least
    <3>2. CASE lp.mutex # "mqtt"
      BY <3>2 DEF Exclusion, WholeList, Whole, ListOf, Least, TypeOK
    <3> QED BY <3>1, <3>2
  <2> QED BY <2>1, <2>2 DEF Pointers, new, TypeOK
<1> QED BY <1>1, <1>2, <1>3, <1>4, <1>5, <1>6, <1>7, <1>8

LEMMA ResetWriteSafe ==
  ASSUME TypeOK, TypeOK', Safe, build = "THREAD_SAFE", ResetWrite, Rest, UNCHANGED <<arrived, own>>
  PROVE  Safe'
<1> USE DEF Safe, ResetWrite, AgentAt, Rest
<1>1. fault' = "none"
  BY DEF Pointers, Allocated, Items, Adding, Whole, Exclusion
<1>2. Exclusion'
  BY DEF Exclusion, AddPlaces, ReadPlaces, TypeOK
<1>3. Allocated'
  BY DEF Allocated, TypeOK, new, Unlinked, Items
<1>4. WholeList'
  BY DEF WholeList, Whole, Items, Exclusion, Allocated, TypeOK, new
<1>5. Adding'
  BY DEF Adding, Items, Exclusion, Allocated, TypeOK, new
<1>6. Removing'
  BY DEF Removing, Items, Exclusion, Allocated, TypeOK, new
<1>7. Purging'
  BY DEF Purging, Items, Exclusion, Allocated, TypeOK, new
<1>8. Pointers'
  BY DEF Pointers, Items, Exclusion, Allocated, TypeOK, new
<1> QED BY <1>1, <1>2, <1>3, <1>4, <1>5, <1>6, <1>7, <1>8

LEMMA GetNextSafe ==
  ASSUME TypeOK, TypeOK', Safe, build = "THREAD_SAFE", GetNext, Rest, UNCHANGED <<arrived, own>>
  PROVE  Safe'
<1> USE DEF Safe, GetNext, Lock, Rest
<1>1. fault' = "none"
  BY DEF Pointers, Allocated, Items, Adding, Whole, Exclusion
<1>2. Exclusion'
  BY DEF Exclusion, AddPlaces, ReadPlaces, TypeOK
<1>3. Allocated'
  BY DEF Allocated, TypeOK, new, Unlinked, Items
<1>4. WholeList'
  BY DEF WholeList, Whole, Items, Exclusion, Allocated, TypeOK, new
<1>5. Adding'
  BY DEF Adding, Items, Exclusion, Allocated, TypeOK, new
<1>6. Removing'
  BY DEF Removing, Items, Exclusion, Allocated, TypeOK, new
<1>7. Purging'
  BY DEF Purging, Items, Exclusion, Allocated, TypeOK, new
<1>8. Pointers'
  BY DEF Pointers, Items, Exclusion, Allocated, TypeOK, new
<1> QED BY <1>1, <1>2, <1>3, <1>4, <1>5, <1>6, <1>7, <1>8

LEMMA GetEndSafe ==
  ASSUME TypeOK, TypeOK', Safe, build = "THREAD_SAFE", GetEnd, Rest, UNCHANGED <<arrived, own>>
  PROVE  Safe'
<1> USE DEF Safe, GetEnd, Rest
<1>1. fault' = "none"
  BY DEF Pointers, Allocated, Items, Adding, Whole, Exclusion
<1>2. Exclusion'
  BY DEF Exclusion, AddPlaces, ReadPlaces, TypeOK
<1>3. Allocated'
  BY DEF Allocated, TypeOK, new, Unlinked, Items
<1>4. WholeList'
  BY DEF WholeList, Whole, Items, Exclusion, Allocated, TypeOK, new
<1>5. Adding'
  BY DEF Adding, Items, Exclusion, Allocated, TypeOK, new
<1>6. Removing'
  BY DEF Removing, Items, Exclusion, Allocated, TypeOK, new
<1>7. Purging'
  BY DEF Purging, Items, Exclusion, Allocated, TypeOK, new
<1>8. Pointers'
  BY DEF Pointers, Items, Exclusion, Allocated, TypeOK, new
<1> QED BY <1>1, <1>2, <1>3, <1>4, <1>5, <1>6, <1>7, <1>8

LEMMA AdvanceSafe ==
  ASSUME TypeOK, TypeOK', Safe, build = "THREAD_SAFE", Advance, Rest, UNCHANGED <<arrived, own>>
  PROVE  Safe'
<1> USE DEF Safe, Advance, AgentAt, Follow, Unlock, Rest
<1>1. fault' = "none"
  BY DEF Pointers, Allocated, Items, Adding, Whole, Exclusion
<1>2. Exclusion'
  BY DEF Exclusion, AddPlaces, ReadPlaces, TypeOK
<1>3. Allocated'
  BY DEF Allocated, TypeOK, new, Unlinked, Items
<1>4. WholeList'
  BY DEF WholeList, Whole, Items, Exclusion, Allocated, TypeOK, new
<1>5. Adding'
  BY DEF Adding, Items, Exclusion, Allocated, TypeOK, new
<1>6. Removing'
  BY DEF Removing, Items, Exclusion, Allocated, TypeOK, new
<1>7. Purging'
  BY DEF Purging, Items, Exclusion, Allocated, TypeOK, new
<1>8. Pointers'
  <2>1. Items' = Items /\ agent.msg \in Items
    BY DEF Items, new, Pointers
  <2>2. links[agent.msg].next \in Items \cup {NULL}
    BY <2>1 DEF WholeList, Whole, ListOf, NextIn
  <2> QED BY <2>1, <2>2 DEF Pointers, new, TypeOK
<1> QED BY <1>1, <1>2, <1>3, <1>4, <1>5, <1>6, <1>7, <1>8

LEMMA HandleSafe ==
  ASSUME TypeOK, TypeOK', Safe, build = "THREAD_SAFE", Handle, Rest, UNCHANGED <<arrived, own>>
  PROVE  Safe'
<1> USE DEF Safe, Handle, AgentAt, Rest
<1>1. fault' = "none"
  BY DEF Pointers, Allocated, Items, Adding, Whole, Exclusion
<1>2. Exclusion'
  BY DEF Exclusion, AddPlaces, ReadPlaces, TypeOK
<1>3. Allocated'
  BY DEF Allocated, TypeOK, new, Unlinked, Items
<1>4. WholeList'
  BY DEF WholeList, Whole, Items, Exclusion, Allocated, TypeOK, new
<1>5. Adding'
  BY DEF Adding, Items, Exclusion, Allocated, TypeOK, new
<1>6. Removing'
  BY DEF Removing, Items, Exclusion, Allocated, TypeOK, new
<1>7. Purging'
  BY DEF Purging, Items, Exclusion, Allocated, TypeOK, new
<1>8. Pointers'
  BY DEF Pointers, Items, Exclusion, Allocated, TypeOK, new
<1> QED BY <1>1, <1>2, <1>3, <1>4, <1>5, <1>6, <1>7, <1>8

LEMMA DeleteStartSafe ==
  ASSUME TypeOK, TypeOK', Safe, build = "THREAD_SAFE", DeleteStart, Rest, UNCHANGED <<arrived, own>>
  PROVE  Safe'
<1> USE DEF Safe, DeleteStart, Lock, Rest
<1>1. fault' = "none"
  BY DEF Pointers, Allocated, Items, Adding, Whole, Exclusion
<1>2. Exclusion'
  BY DEF Exclusion, AddPlaces, ReadPlaces, TypeOK
<1>3. Allocated'
  BY DEF Allocated, TypeOK, new, Unlinked, Items
<1>4. WholeList'
  BY DEF WholeList, Whole, Items, Exclusion, Allocated, TypeOK, new
<1>5. Adding'
  BY DEF Adding, Items, Exclusion, Allocated, TypeOK, new
<1>6. Removing'
  BY DEF Removing, Items, Exclusion, Allocated, TypeOK, new
<1>7. Purging'
  BY DEF Purging, Items, Exclusion, Allocated, TypeOK, new
<1>8. Pointers'
  <2>1. Items' = Items
    BY DEF Items, new
  <2>2. lp.first \in Items \cup {NULL}
    BY DEF WholeList, Whole, ListOf, Least
  <2> QED BY <2>1, <2>2 DEF Pointers, new, TypeOK
<1> QED BY <1>1, <1>2, <1>3, <1>4, <1>5, <1>6, <1>7, <1>8

LEMMA DeleteCheckSafe ==
  ASSUME TypeOK, TypeOK', Safe, build = "THREAD_SAFE", DeleteCheck, Rest, UNCHANGED <<arrived, own>>
  PROVE  Safe'
<1> USE DEF Safe, DeleteCheck, Rest
<1>a. ListOf(Items, lp.first, lp.last, links) /\ agent.ip \in Items /\ Items' = Items
  BY DEF WholeList, Whole, Pointers, Items, new
<1>1. fault' = "none"
  <2>1. Consistent(agent.ip)
    <3> DEFINE n == agent.ip
               p == links[n].prev
               q == links[n].next
    <3>1. NextIn(Items, n, q) /\ PrevIn(Items, n, p)
      BY <1>a DEF ListOf
    <3>2. \A m \in Items : m \in Nat /\ m # NULL
      BY ItemsAre
    <3>3. ASSUME p # NULL
          PROVE  links[p].prev # n /\ links[p].next = n
      <4>1. p \in Items /\ NextIn(Items, p, links[p].next) /\ PrevIn(Items, p, links[p].prev)
        BY <1>a, <3>1, <3>3 DEF ListOf, PrevIn
      <4>2. p < n /\ \A m \in Items : m <= p \/ n <= m
        BY <3>1, <3>3 DEF PrevIn
      <4> HIDE DEF n, p, q
      <4>3. n \in Items
        BY <1>a DEF n
      <4>4. links[p].next # NULL
        BY <3>2, <4>1, <4>2, <4>3 DEF NextIn
      <4>5. links[p].next = n
        BY <3>2, <4>1, <4>2, <4>3, <4>4 DEF NextIn
      <4>6. links[p].prev # n
        BY <3>2, <4>1, <4>2, <4>3 DEF PrevIn
      <4> QED BY <4>5, <4>6
    <3>4. ASSUME q # NULL
          PROVE  links[q].prev = n /\ links[q].next # n
      <4>1. q \in Items /\ NextIn(Items, q, links[q].next) /\ PrevIn(Items, q, links[q].prev)
        BY <1>a, <3>1, <3>4 DEF ListOf, NextIn
      <4>2. n < q /\ \A m \in Items : m <= n \/ q <= m
        BY <3>1, <3>4 DEF NextIn
      <4> HIDE DEF n, p, q
      <4>3. n \in Items
        BY <1>a DEF n
      <4>4. links[q].prev # NULL
        BY <3>2, <4>1, <4>2, <4>3 DEF PrevIn
      <4>5. links[q].prev = n
        BY <3>2, <4>1, <4>2, <4>3, <4>4 DEF PrevIn
      <4>6. links[q].next # n
        BY <3>2, <4>1, <4>2, <4>3 DEF NextIn
      <4> QED BY <4>5, <4>6
    <3>5. p # n /\ q # n
      BY <1>a, <3>1, <3>2 DEF NextIn, PrevIn
    <3> QED BY <3>3, <3>4, <3>5 DEF Consistent
  <2> QED BY <1>a, <2>1, ItemsAre
<1>2. Exclusion'
  BY DEF Exclusion, AddPlaces, ReadPlaces, TypeOK
<1>3. Allocated'
  BY DEF Allocated, TypeOK, new, Unlinked, Items
<1>4. WholeList'
  BY DEF WholeList, Whole, Items, Exclusion, Allocated, TypeOK, new
<1>5. Adding'
  BY DEF Adding, Items, Exclusion, Allocated, TypeOK, new
<1>6. Removing'
  BY DEF Removing, Items, Exclusion, Allocated, TypeOK, new
<1>7. Purging'
  BY DEF Purging, Items, Exclusion, Allocated, TypeOK, new
<1>8. Pointers'
  <2>1. links[agent.ip].next \in Items \cup {NULL}
    BY <1>a DEF ListOf, NextIn
  <2> QED BY <1>a, <2>1 DEF Pointers, new, TypeOK
<1> QED BY <1>1, <1>2, <1>3, <1>4, <1>5, <1>6, <1>7, <1>8

LEMMA DeleteNotFoundSafe ==
  ASSUME TypeOK, TypeOK', Safe, build = "THREAD_SAFE", DeleteNotFound, Rest, UNCHANGED <<arrived, own>>
  PROVE  Safe'
<1> USE DEF Safe, DeleteNotFound, AgentAt, Unlock, Rest
<1>1. fault' = "none"
  BY DEF Pointers, Allocated, Items, Adding, Whole, Exclusion
<1>2. Exclusion'
  BY DEF Exclusion, AddPlaces, ReadPlaces, TypeOK
<1>3. Allocated'
  BY DEF Allocated, TypeOK, new, Unlinked, Items
<1>4. WholeList'
  BY DEF WholeList, Whole, Items, Exclusion, Allocated, TypeOK, new
<1>5. Adding'
  BY DEF Adding, Items, Exclusion, Allocated, TypeOK, new
<1>6. Removing'
  BY DEF Removing, Items, Exclusion, Allocated, TypeOK, new
<1>7. Purging'
  BY DEF Purging, Items, Exclusion, Allocated, TypeOK, new
<1>8. Pointers'
  BY DEF Pointers, Items, Exclusion, Allocated, TypeOK, new
<1> QED BY <1>1, <1>2, <1>3, <1>4, <1>5, <1>6, <1>7, <1>8

LEMMA UnlinkSafe ==
  ASSUME TypeOK, TypeOK', Safe, build = "THREAD_SAFE", Unlink, Rest, UNCHANGED <<arrived, own>>
  PROVE  Safe'
<1> USE DEF Safe, Unlink, AgentAt, Rest
<1> DEFINE n == agent.ip
           p == agent.prev
           q == agent.next
<1>a. /\ ListOf(Items, lp.first, lp.last, links) /\ n \in Items /\ Items' = Items
      /\ p = links[n].prev /\ q = links[n].next
  BY DEF WholeList, Whole, Pointers, Removing, Items, new
<1>b. NextIn(Items, n, q) /\ PrevIn(Items, n, p)
  BY <1>a DEF ListOf
<1>c. p \in Items \cup {NULL} /\ q \in Items \cup {NULL} /\ p # n /\ q # n
  BY <1>a, <1>b, ItemsAre DEF NextIn, PrevIn
<1>1. fault' = "none"
  BY DEF Pointers, Allocated, Items, Adding, Whole, Exclusion
<1>2. Exclusion'
  BY DEF Exclusion, AddPlaces, ReadPlaces, TypeOK
<1>3. Allocated'
  <2>1. \A m \in Node : m \notin Items => links'[m] = links[m]
    BY <1>c, ItemsAre DEF NULL, Node
  <2>2. \A m \in Node : m > arrived => m \notin Items
    BY ItemsAre DEF Node
  <2> QED BY <2>1, <2>2, ItemsAre DEF Allocated, new
<1>4. WholeList'
  BY DEF WholeList, Whole, Items, Exclusion, Allocated, TypeOK, new
<1>5. Adding'
  BY DEF Adding, Items, Exclusion, Allocated, TypeOK, new
<1>6. Removing'
  <2> DEFINE S == Items \ {n}
             f == IF lp.first = n THEN q ELSE lp.first
             l == IF lp.last = n THEN p ELSE lp.last
  <2>1. \A m \in Items : m \in Nat /\ m # NULL /\ m \in Node
    BY ItemsAre
  <2>2. \A m \in S : /\ links'[m].next = IF m = p THEN q ELSE links[m].next
                     /\ links'[m].prev = IF m = q THEN p ELSE links[m].prev
    BY <2>1
  <2>3. Least(Items, lp.first) /\ Greatest(Items, lp.last)
    BY <1>a DEF ListOf
  <2>4. \A m \in Items : NextIn(Items, m, links[m].next) /\ PrevIn(Items, m, links[m].prev)
    BY <1>a DEF ListOf
  <2>5. agent'.pc = "ends" /\ agent'.ip = n /\ agent'.prev = p /\ agent'.next = q
        /\ lp' = lp
    BY DEF TypeOK
  <2>a. n \in Items
    BY <1>a
  <2> HIDE DEF n, p, q
  <2>6. Least(S, f)
    BY <1>b, <1>c, <2>a, <2>1, <2>3 DEF Least, NextIn
  <2>7. Greatest(S, l)
    BY <1>b, <1>c, <2>a, <2>1, <2>3 DEF Greatest, PrevIn
  <2>8. ASSUME NEW m \in S
        PROVE  NextIn(S, m, links'[m].next)
    <3>1. CASE m = p
      <4>1. links'[m].next = q /\ p \in Items /\ p # NULL
        BY <2>1, <2>2, <3>1
      <4>2. p < n /\ \A x \in Items : x <= p \/ n <= x
        BY <1>b, <4>1 DEF PrevIn
      <4>3. CASE q = NULL
        BY <1>b, <2>a, <2>1, <3>1, <4>1, <4>2, <4>3 DEF NextIn
      <4>4. CASE q # NULL
        <5>1. /\ q \in S /\ n < q /\ n \in Nat /\ p \in Nat /\ q \in Nat
              /\ \A x \in Items : x <= n \/ q <= x
          BY <1>b, <1>c, <2>a, <2>1, <4>1, <4>4 DEF NextIn
        <5>2. \A x \in S : x <= p \/ q <= x
          BY <2>1, <4>2, <5>1
        <5>3. p < q
          BY <4>2, <5>1
        <5> HIDE DEF S
        <5> QED BY <3>1, <4>1, <4>4, <5>1, <5>2, <5>3 DEF NextIn
      <4> QED BY <4>3, <4>4
    <3>2. CASE m # p
      <4>1. links'[m].next = links[m].next /\ NextIn(Items, m, links[m].next)
        BY <2>2, <2>4, <3>2
      <4>2. links[m].next # n
        BY <1>b, <1>c, <2>a, <2>1, <3>2, <4>1 DEF NextIn, PrevIn
      <4> QED BY <2>1, <2>a, <4>1, <4>2 DEF NextIn
    <3> QED BY <3>1, <3>2
  <2>9. ASSUME NEW m \in S
        PROVE  PrevIn(S, m, links'[m].prev)
    <3>1. CASE m = q
      <4>1. links'[m].prev = p /\ q \in Items /\ q # NULL
        BY <2>1, <2>2, <3>1
      <4>2. n < q /\ \A x \in Items : x <= n \/ q <= x
        BY <1>b, <4>1 DEF NextIn
      <4>3. CASE p = NULL
        BY <1>b, <2>a, <2>1, <3>1, <4>1, <4>2, <4>3 DEF PrevIn
      <4>4. CASE p # NULL
        <5>1. /\ p \in S /\ p < n /\ n \in Nat /\ p \in Nat /\ q \in Nat
              /\ \A x \in Items : x <= p \/ n <= x
          BY <1>b, <1>c, <2>a, <2>1, <4>1, <4>4 DEF PrevIn
        <5>2. \A x \in S : x <= p \/ q <= x
          BY <2>1, <4>2, <5>1
        <5>3. p < q
          BY <4>2, <5>1
        <5> HIDE DEF S
        <5> QED BY <3>1, <4>1, <4>4, <5>1, <5>2, <5>3 DEF PrevIn
      <4> QED BY <4>3, <4>4
    <3>2. CASE m # q
      <4>1. links'[m].prev = links[m].prev /\ PrevIn(Items, m, links[m].prev)
        BY <2>2, <2>4, <3>2
      <4>2. links[m].prev # n
        BY <1>b, <1>c, <2>a, <2>1, <3>2, <4>1 DEF NextIn, PrevIn
      <4> QED BY <2>1, <2>a, <4>1, <4>2 DEF PrevIn
    <3> QED BY <3>1, <3>2
  <2>10. ListOf(S, f, l, links')
    BY <2>6, <2>7, <2>8, <2>9 DEF ListOf
  <2>11. ListOf(Items' \ {agent'.ip},
                IF lp'.first = agent'.ip THEN agent'.next ELSE lp'.first,
                IF lp'.last = agent'.ip THEN agent'.prev ELSE lp'.last, links')
    BY <1>a, <2>5, <2>10
  <2>12. agent'.next \in (Items' \ {agent'.ip}) \cup {NULL}
    BY <1>a, <1>c, <2>5
  <2> QED BY <2>5, <2>11, <2>12 DEF Removing
<1>7. Purging'
  BY DEF Purging, Items, Exclusion, Allocated, TypeOK, new
<1>8. Pointers'
  BY DEF Pointers, Items, Exclusion, Allocated, TypeOK, new
<1> QED BY <1>1, <1>2, <1>3, <1>4, <1>5, <1>6, <1>7, <1>8

LEMMA DeleteEndsSafe ==
  ASSUME TypeOK, TypeOK', Safe, build = "THREAD_SAFE", DeleteEnds, Rest, UNCHANGED <<arrived, own>>
  PROVE  Safe'
<1> USE DEF Safe, DeleteEnds, AgentAt, Unlock, Rest
<1>a. agent.ip \in Items /\ lp.mutex = "agent" /\ mqtt.pc \in {"idle", "test"}
  BY DEF Pointers, Exclusion, TypeOK, AddPlaces
<1>b. Items' = Items \ {agent.ip} /\ (mqtt.pc = "test" => agent.ip # new)
  BY <1>a, ItemsAre DEF Items, new
<1>1. fault' = "none"
  BY DEF Pointers, Allocated, Items, Adding, Whole, Exclusion
<1>2. Exclusion'
  BY DEF Exclusion, AddPlaces, ReadPlaces, TypeOK
<1>3. Allocated'
  BY <1>a, <1>b DEF Allocated, new
<1>4. WholeList'
  <2>1. ListOf(Items', lp'.first, lp'.last, links')
    BY <1>b DEF Removing, TypeOK
  <2> QED BY <2>1 DEF WholeList
<1>5. Adding'
  BY DEF Adding, Items, Exclusion, Allocated, TypeOK, new
<1>6. Removing'
  BY DEF Removing, Items, Exclusion, Allocated, TypeOK, new
<1>7. Purging'
  BY DEF Purging, Items, Exclusion, Allocated, TypeOK, new
<1>8. Pointers'
  <2>1. lp'.next \in Items' \cup {NULL}
    <3>1. lp.next \in Items \cup {NULL}
      BY <1>a DEF Pointers
    <3>2. agent.next \in Items' \cup {NULL}
      BY <1>b DEF Removing
    <3>3. lp'.next = IF lp.next = agent.ip THEN agent.next ELSE lp.next
      BY DEF TypeOK
    <3> QED BY <1>b, <3>1, <3>2, <3>3
  <2>2. agent'.pc = "get"
    BY DEF TypeOK
  <2> QED BY <2>1, <2>2 DEF Pointers
<1> QED BY <1>1, <1>2, <1>3, <1>4, <1>5, <1>6, <1>7, <1>8

LEMMA PurgeStartSafe ==
  ASSUME TypeOK, TypeOK', Safe, build = "THREAD_SAFE", PurgeStart, Rest, UNCHANGED <<arrived, own>>
  PROVE  Safe'
<1> USE DEF Safe, PurgeStart, Lock, Rest
<1>1. fault' = "none"
  BY DEF Pointers, Allocated, Items, Adding, Whole, Exclusion
<1>2. Exclusion'
  BY DEF Exclusion, AddPlaces, ReadPlaces, TypeOK
<1>3. Allocated'
  BY DEF Allocated, TypeOK, new, Unlinked, Items
<1>4. WholeList'
  BY DEF WholeList, Whole, Items, Exclusion, Allocated, TypeOK, new
<1>5. Adding'
  BY DEF Adding, Items, Exclusion, Allocated, TypeOK, new
<1>6. Removing'
  BY DEF Removing, Items, Exclusion, Allocated, TypeOK, new
<1>7. Purging'
  <2>1. ListOf(Items, lp.first, lp.last, links) /\ Items' = Items
    BY DEF WholeList, Whole, Items, new
  <2>2. agent'.ip = lp.first
    BY DEF TypeOK
  <2> QED BY <2>1, <2>2 DEF Purging, ListOf
<1>8. Pointers'
  BY DEF Pointers, Items, Exclusion, Allocated, TypeOK, new
<1> QED BY <1>1, <1>2, <1>3, <1>4, <1>5, <1>6, <1>7, <1>8

LEMMA PurgeFreeSafe ==
  ASSUME TypeOK, TypeOK', Safe, build = "THREAD_SAFE", PurgeFree, Rest, UNCHANGED <<arrived, own>>
  PROVE  Safe'
<1> USE DEF Safe, PurgeFree, Follow, Rest
<1>a. /\ Least(Items, agent.ip) /\ agent.ip \in Items
      /\ \A n \in Items : NextIn(Items, n, links[n].next)
  BY DEF Purging, Least
<1>b. mqtt.pc \in {"idle", "test"} /\ agent.ip \in live
  BY <1>a, ItemsAre DEF Exclusion, AddPlaces, TypeOK
<1>c. Items' = Items \ {agent.ip} /\ (mqtt.pc = "test" => agent.ip # new)
  BY <1>a, <1>b, ItemsAre DEF Items, new
<1>1. fault' = "none"
  BY <1>b
<1>2. Exclusion'
  BY DEF Exclusion, AddPlaces, ReadPlaces, TypeOK
<1>3. Allocated'
  BY <1>b, <1>c DEF Allocated, new
<1>4. WholeList'
  BY DEF WholeList, Whole, Items, Exclusion, Allocated, TypeOK, new
<1>5. Adding'
  BY DEF Adding, Items, Exclusion, Allocated, TypeOK, new
<1>6. Removing'
  BY DEF Removing, Items, Exclusion, Allocated, TypeOK, new
<1>7. Purging'
  <2> DEFINE n == agent.ip
             q == links[n].next
  <2>1. \A m \in Items : m \in Nat /\ m # NULL
    BY ItemsAre
  <2>2. agent'.ip = q /\ links' = links
    BY DEF TypeOK
  <2>3. NextIn(Items, n, q) /\ n \in Items /\ \A m \in Items : n <= m
    BY <1>a DEF Least
  <2>4. Items' = Items \ {n}
    BY <1>c
  <2> HIDE DEF n, q
  <2>5. Least(Items', q)
    BY <2>1, <2>3, <2>4 DEF Least, NextIn
  <2>6. ASSUME NEW m \in Items'
        PROVE  NextIn(Items', m, links[m].next)
    <3>1. NextIn(Items, m, links[m].next) /\ m \in Items
      BY <1>a, <2>4
    <3>2. links[m].next # n
      BY <2>1, <2>3, <3>1 DEF NextIn
    <3> QED BY <2>1, <2>4, <3>1, <3>2 DEF NextIn
  <2> QED BY <2>2, <2>5, <2>6 DEF Purging
<1>8. Pointers'
  BY DEF Pointers, Items, Exclusion, Allocated, TypeOK, new
<1> QED BY <1>1, <1>2, <1>3, <1>4, <1>5, <1>6, <1>7, <1>8

LEMMA PurgeClearSafe ==
  ASSUME TypeOK, TypeOK', Safe, build = "THREAD_SAFE", PurgeClear, Rest, UNCHANGED <<arrived, own>>
  PROVE  Safe'
<1> USE DEF Safe, PurgeClear, AgentAt, Unlock, Rest
<1>1. fault' = "none"
  BY DEF Pointers, Allocated, Items, Adding, Whole, Exclusion
<1>2. Exclusion'
  BY DEF Exclusion, AddPlaces, ReadPlaces, TypeOK
<1>3. Allocated'
  BY DEF Allocated, TypeOK, new, Unlinked, Items
<1>4. WholeList'
  <2>1. Items' = Items /\ Items = {}
    BY ItemsAre DEF Purging, Least, Items, new
  <2>2. lp'.first = NULL /\ lp'.last = NULL
    BY DEF TypeOK
  <2> QED BY <2>1, <2>2 DEF WholeList, ListOf, Least, Greatest
<1>5. Adding'
  BY DEF Adding, Items, Exclusion, Allocated, TypeOK, new
<1>6. Removing'
  BY DEF Removing, Items, Exclusion, Allocated, TypeOK, new
<1>7. Purging'
  BY DEF Purging, Items, Exclusion, Allocated, TypeOK, new
<1>8. Pointers'
  BY DEF Pointers, Items, Exclusion, Allocated, TypeOK, new
<1> QED BY <1>1, <1>2, <1>3, <1>4, <1>5, <1>6, <1>7, <1>8

-----------------------------------------------------------------------------

LEMMA StepSafe ==
  ASSUME TypeOK, TypeOK', Safe, build = "THREAD_SAFE", Rest, Arrive \/ MqttStep \/ AgentStep
  PROVE  Safe'
<1>1. CASE Arrive
  BY <1>1, ArriveSafe
<1>2. CASE MqttStep
  <2>1. UNCHANGED <<arrived, own>>
    BY <1>2 DEF MqttStep, AddTest, AddOnly, AddTail, AddLink, AddBack, AddEnd
  <2> QED BY <1>2, <2>1, AddTestSafe, AddOnlySafe, AddTailSafe, AddLinkSafe, AddBackSafe,
             AddEndSafe DEF MqttStep
<1>3. CASE AgentStep
  BY <1>3, BeginSafe, ResetReadSafe, ResetWriteSafe, GetNextSafe, GetEndSafe, AdvanceSafe,
     HandleSafe, DeleteStartSafe, DeleteCheckSafe, DeleteNotFoundSafe, UnlinkSafe,
     DeleteEndsSafe, PurgeStartSafe, PurgeFreeSafe, PurgeClearSafe DEF AgentStep
<1> QED BY <1>1, <1>2, <1>3

LEMMA InitIInv == Init => IInv
<1> SUFFICES ASSUME Init
             PROVE  IInv
  OBVIOUS
<1>1. TypeOK
  BY InitTypeOK
<1>2. Found
  BY DEF Init, Found
<1>3. Safe
  <2>1. Items = {}
    BY DEF Init, Items
  <2>2. Exclusion
    BY DEF Init, Exclusion, AddPlaces
  <2>3. Allocated
    BY DEF Init, Allocated, Unlinked
  <2>4. WholeList
    BY <2>1 DEF Init, WholeList, ListOf, Least, Greatest
  <2>5. Adding /\ Removing /\ Purging
    BY DEF Init, Adding, Removing, Purging
  <2>6. Pointers
    BY DEF Init, Pointers
  <2> QED BY <2>2, <2>3, <2>4, <2>5, <2>6 DEF Safe, Init
<1> QED BY <1>1, <1>2, <1>3 DEF IInv

LEMMA NextIInv == IInv /\ [Next]_vars => IInv'
<1> SUFFICES ASSUME IInv, [Next]_vars
             PROVE  IInv'
  OBVIOUS
<1>1. CASE Runs /\ (Arrive \/ MqttStep \/ AgentStep)
  <2>1. Rest
    BY <1>1 DEF Runs, Rest
  <2>2. TypeOK' /\ Found'
    BY <1>1, <2>1, ArriveTypeOK, MqttTypeOK, AgentTypeOK, FoundStays DEF IInv
  <2>3. build = "THREAD_SAFE" => Safe'
    BY <1>1, <2>1, <2>2, StepSafe DEF IInv
  <2> QED BY <2>1, <2>2, <2>3 DEF IInv, Rest
<1>2. CASE UNCHANGED vars
  <2>1. TypeOK' /\ Found'
    BY <1>2 DEF IInv, TypeOK, Found, vars
  <2>2. Safe => Safe'
    BY <1>2 DEF vars, Safe, Exclusion, Allocated, WholeList, Whole, Adding, Removing,
       Purging, Pointers, Items, new, ListOf, Least, Greatest, NextIn, PrevIn
  <2> QED BY <1>2, <2>1, <2>2 DEF IInv, vars
<1> QED BY <1>1, <1>2 DEF Next, Dead

\* No step of either thread takes a variable out of its type, in either build:
\* above all, nobody else's message is ever processed (agent.c:171).
THEOREM TypeCorrect == Spec => []TypeOK
<1>1. IInv => TypeOK
  BY DEF IInv
<1> QED BY <1>1, InitIInv, NextIInv, PTL DEF Spec

\* However many messages come: with its mutex the list never follows a NULL or
\* freed pointer and no assertion of list_checkitem fails (list.c:72-89).
THEOREM LockIsEnough == Spec => []LockSuffices
<1>1. IInv => LockSuffices
  BY DEF IInv, Safe, LockSuffices
<1> QED BY <1>1, InitIInv, NextIInv, PTL DEF Spec

-----------------------------------------------------------------------------
(* The links lead through the list: Chain, by the least number of steps    *)
(* for which it would be otherwise.                                        *)

\* A set of naturals has a least element: induction, where no theorem of the
\* library can be cited that takes an operator.
LEMMA LeastNat ==
  ASSUME NEW T \in SUBSET Nat, T # {}
  PROVE  \E x \in T : \A y \in T : x <= y
<1> DEFINE R == {p \in Nat \X Nat : p[1] < p[2]}
<1>1. OpToRel(<, Nat) = R
  BY DEF OpToRel
<1>2. IsWellFoundedOn(R, Nat)
  BY <1>1, NatLessThanWellFounded
<1>3. \E x \in T : \A y \in T : ~ (<<y, x>> \in R)
  <2> HIDE DEF R
  <2> QED BY <1>2, WFMin
<1>4. ASSUME NEW x \in T, NEW y \in T, ~ (<<y, x>> \in R)
      PROVE  x <= y
  <2>1. x \in Nat /\ y \in Nat
    OBVIOUS
  <2>2. ~ (y < x)
    BY <1>4, <2>1
  <2> QED BY <2>1, <2>2
<1> QED BY <1>3, <1>4

\* The nodes on the way from f with the links k, as Chain defines them
ChainOf(f, k) ==
  LET reached[j \in Pointer] ==
        IF j = 0 THEN {f} \ {NULL}
        ELSE reached[j - 1] \cup ({k[n].next : n \in reached[j - 1]} \ {NULL})
  IN reached[N]

LEMMA ChainFrom == Chain = ChainOf(lp.first, links)
  BY DEF Chain, ChainOf

\* r[j] holds what the first j steps from f reach, up to b steps
Walk(r, b, f, k) ==
  r = [j \in 0..b |-> IF j = 0 THEN {f} \ {NULL}
                      ELSE r[j - 1] \cup ({k[n].next : n \in r[j - 1]} \ {NULL})]

LEMMA WalkExists ==
  ASSUME NEW f, NEW k, NEW b \in Nat
  PROVE  \E r : Walk(r, b, f, k)
<1> DEFINE T == {x \in Nat : ~ \E r : Walk(r, x, f, k)}
<1>1. SUFFICES ASSUME T # {} PROVE FALSE
  OBVIOUS
<1>2. PICK x \in T : \A y \in T : x <= y
  BY <1>1, LeastNat
<1>3. CASE x = 0
  <2> DEFINE r == [j \in 0..0 |-> {f} \ {NULL}]
  <2>1. Walk(r, 0, f, k)
    BY DEF Walk
  <2> QED BY <1>3, <2>1
<1>4. CASE x # 0
  <2>1. x - 1 \in Nat /\ x - 1 \notin T
    BY <1>2, <1>4
  <2>2. PICK q : Walk(q, x - 1, f, k)
    BY <2>1
  <2> DEFINE r == [j \in 0..x |->
                     IF j = x THEN q[x - 1] \cup ({k[n].next : n \in q[x - 1]} \ {NULL})
                     ELSE q[j]]
  <2>3. \A j \in 0..(x - 1) : r[j] = q[j]
    BY <1>2
  <2>4. ASSUME NEW j \in 0..x
        PROVE  r[j] = IF j = 0 THEN {f} \ {NULL}
                      ELSE r[j - 1] \cup ({k[n].next : n \in r[j - 1]} \ {NULL})
    <3>1. CASE j = x
      <4>1. r[j - 1] = q[x - 1]
        BY <1>4, <2>1, <2>3, <3>1
      <4>2. r[j] = q[x - 1] \cup ({k[n].next : n \in q[x - 1]} \ {NULL})
        BY <3>1
      <4> QED BY <1>4, <3>1, <4>1, <4>2
    <3>2. CASE j # x
      <4>1. j \in 0..(x - 1) /\ (j # 0 => j - 1 \in 0..(x - 1))
        BY <1>2, <3>2
      <4>2. r[j] = q[j] /\ (j # 0 => r[j - 1] = q[j - 1])
        BY <2>3, <4>1
      <4> HIDE DEF r
      <4>3. q[j] = IF j = 0 THEN {f} \ {NULL}
                   ELSE q[j - 1] \cup ({k[n].next : n \in q[j - 1]} \ {NULL})
        BY <2>2, <4>1 DEF Walk
      <4> QED BY <4>2, <4>3
    <3> QED BY <3>1, <3>2
  <2>5. Walk(r, x, f, k)
    <3>1. r = [j \in 0..x |-> r[j]]
      OBVIOUS
    <3> HIDE DEF r
    <3> QED BY <2>4, <3>1 DEF Walk
  <2> QED BY <2>5
<1> QED BY <1>3, <1>4

LEMMA WalkSteps ==
  ASSUME NEW b \in Nat, NEW f, NEW k, NEW r, Walk(r, b, f, k)
  PROVE  /\ r[0] = {f} \ {NULL}
         /\ \A j \in 0..b : j # 0 =>
              r[j] = r[j - 1] \cup ({k[n].next : n \in r[j - 1]} \ {NULL})
<1> DEFINE step(j) == IF j = 0 THEN {f} \ {NULL}
                      ELSE r[j - 1] \cup ({k[n].next : n \in r[j - 1]} \ {NULL})
<1>1. r = [j \in 0..b |-> step(j)]
  BY DEF Walk
<1> HIDE DEF step
<1>2. \A j \in 0..b : r[j] = step(j)
  BY <1>1
<1>3. 0 \in 0..b
  OBVIOUS
<1> QED BY <1>2, <1>3 DEF step

LEMMA ChainIsWalk ==
  ASSUME NEW f, NEW k
  PROVE  \E r : Walk(r, N, f, k) /\ ChainOf(f, k) = r[N]
<1> DEFINE W(r) == r = [j \in Pointer |->
                    IF j = 0 THEN {f} \ {NULL}
                    ELSE r[j - 1] \cup ({k[n].next : n \in r[j - 1]} \ {NULL})]
           w == CHOOSE r : W(r)
<1>1. \A r : W(r) <=> Walk(r, N, f, k)
  BY DEF Walk, Pointer
<1>2. ChainOf(f, k) = w[N]
  BY DEF ChainOf
<1>3. \E r : W(r)
  BY <1>1, WalkExists, NAssumption
<1>4. W(w)
  <2> HIDE DEF W
  <2> QED BY <1>3
<1> HIDE DEF W, w
<1> QED BY <1>1, <1>2, <1>4

\* From the least of S, with links to the next in S, the way leads through S.
LEMMA ChainOfList ==
  ASSUME NEW S \in SUBSET Node, NEW f, NEW k,
         Least(S, f), \A n \in S : NextIn(S, n, k[n].next)
  PROVE  ChainOf(f, k) = S
<1>a. N \in Nat /\ Node = 1..N /\ NULL = 0
  BY NAssumption DEF Node, NULL
<1>b. S \in SUBSET Nat /\ \A n \in S : n \in 1..N /\ n \in Nat
  BY <1>a
<1>1. PICK r : Walk(r, N, f, k) /\ ChainOf(f, k) = r[N]
  BY ChainIsWalk
<1>2. /\ r[0] = {f} \ {NULL}
      /\ \A j \in 0..N : j # 0 =>
           r[j] = r[j - 1] \cup ({k[n].next : n \in r[j - 1]} \ {NULL})
  <2>1. N \in Nat /\ Walk(r, N, f, k)
    BY <1>1, <1>a
  <2> QED BY <2>1, WalkSteps
<1>3. \A j \in 0..N : r[j] \subseteq S
  <2> DEFINE T == {j \in 0..N : ~ (r[j] \subseteq S)}
  <2>1. SUFFICES ASSUME T # {} PROVE FALSE
    OBVIOUS
  <2>2. T \in SUBSET Nat
    BY <1>a
  <2>3. PICK x \in T : \A y \in T : x <= y
    BY <2>1, <2>2, LeastNat
  <2>4. CASE x = 0
    BY <1>2, <2>3, <2>4 DEF Least
  <2>5. CASE x # 0
    <3>1. x \in 0..N /\ x - 1 \in 0..N /\ x - 1 \notin T
      BY <1>a, <2>3, <2>5
    <3>2. r[x - 1] \subseteq S
      BY <3>1
    <3>3. \A n \in r[x - 1] : k[n].next \in S \cup {NULL}
      BY <3>2 DEF NextIn
    <3>4. r[x] = r[x - 1] \cup ({k[n].next : n \in r[x - 1]} \ {NULL})
      BY <1>2, <2>5, <3>1
    <3> QED BY <3>2, <3>3, <3>4
  <2> QED BY <2>4, <2>5
\* Whoever is not first has one before it
<1>4. ASSUME NEW n \in S, n # f
      PROVE  \E p \in S : p < n /\ k[p].next = n
  <2> DEFINE B == {m \in S : m < n}
             D == {n - m : m \in B}
  <2>1. f \in B
    <3>1. f \in S /\ f <= n /\ n \in Nat
      BY <1>b DEF Least
    <3>2. f \in Nat
      BY <1>b, <3>1
    <3> QED BY <1>4, <3>1, <3>2
  <2>2. D \in SUBSET Nat /\ D # {}
    BY <1>b, <2>1
  <2>3. PICK x \in D : \A y \in D : x <= y
    BY <2>2, LeastNat
  <2>4. PICK p \in B : x = n - p
    BY <2>3
  <2>5. \A m \in B : m <= p
    BY <1>b, <2>3, <2>4
  <2>6. p \in S /\ p < n /\ NextIn(S, p, k[p].next)
    BY <2>4
  <2>7. k[p].next # NULL
    <3>1. SUFFICES ASSUME k[p].next = NULL PROVE FALSE
      OBVIOUS
    <3>2. n <= p
      BY <2>6, <3>1 DEF NextIn
    <3> QED BY <1>b, <2>6, <3>2
  <2>8. k[p].next \in S /\ p < k[p].next /\ (n <= p \/ k[p].next <= n)
    BY <2>6, <2>7 DEF NextIn
  <2>9. k[p].next \notin B
    <3>1. k[p].next \in Nat /\ p \in Nat
      BY <1>b, <2>6, <2>8
    <3> HIDE DEF B
    <3> QED BY <2>5, <2>8, <3>1
  <2>10. k[p].next = n
    <3>1. k[p].next \in Nat /\ n \in Nat /\ p \in Nat
      BY <1>b, <2>6, <2>8
    <3>2. ~ (k[p].next < n)
      BY <2>8, <2>9
    <3> QED BY <2>6, <2>8, <3>1, <3>2
  <2> QED BY <2>6, <2>10
<1>5. \A j \in 0..N : \A n \in S : n <= j + 1 \/ n = f => n \in r[j]
  <2> DEFINE T == {j \in 0..N : ~ \A n \in S : n <= j + 1 \/ n = f => n \in r[j]}
  <2>1. SUFFICES ASSUME T # {} PROVE FALSE
    OBVIOUS
  <2>2. T \in SUBSET Nat
    BY <1>a
  <2>3. PICK x \in T : \A y \in T : x <= y
    BY <2>1, <2>2, LeastNat
  <2>4. PICK n \in S : (n <= x + 1 \/ n = f) /\ n \notin r[x]
    BY <2>3
  <2>5. CASE x = 0
    <3>1. f \in S /\ f <= n
      BY DEF Least
    <3>2. n = f
      BY <1>b, <2>4, <2>5, <3>1
    <3> QED BY <1>2, <1>a, <1>b, <2>4, <2>5, <3>2
  <2>6. CASE x # 0
    <3>1. x \in 0..N /\ x - 1 \in 0..N /\ x - 1 \notin T
      BY <1>a, <2>3, <2>6
    <3>2. \A m \in S : m <= x \/ m = f => m \in r[x - 1]
      BY <3>1
    <3>3. r[x] = r[x - 1] \cup ({k[m].next : m \in r[x - 1]} \ {NULL})
      BY <1>2, <2>6, <3>1
    <3>4. n # f
      BY <2>4, <3>2, <3>3
    <3>5. PICK p \in S : p < n /\ k[p].next = n
      BY <1>4, <3>4
    <3>6. p <= x
      BY <1>b, <2>4, <3>1, <3>4, <3>5
    <3>7. p \in r[x - 1]
      BY <3>2, <3>6
    <3>8. n # NULL
      BY <1>a, <1>b
    <3> QED BY <2>4, <3>3, <3>5, <3>7, <3>8
  <2> QED BY <2>5, <2>6
<1>6. N \in 0..N /\ \A n \in S : n <= N + 1
  BY <1>a, <1>b
<1>7. S \subseteq r[N]
  BY <1>5, <1>6
<1>8. r[N] \subseteq S
  BY <1>3, <1>6
<1> QED BY <1>1, <1>7, <1>8

-----------------------------------------------------------------------------
(* What more the order of messages needs: the walk that serves them passes *)
(* over no message of the reader's, and what was handled leaves the list.  *)

Deleting == {"delete", "check", "unlink", "ends"}

\* Who looks, purges, handles and deletes
Roles ==
  /\ agent.pc \in {"purge", "free"} => reader = "session"
  /\ agent.pc \in {"handle"} \cup Deleting => reader # "session" /\ agent.phase = "serve"
  /\ reader = "session" /\ agent.pc \in {"reset", "set", "get", "advance"} =>
       agent.phase = "look"

\* What was handled is gone, or just being deleted
Past ==
  /\ own \subseteq 1..arrived
  /\ \A i \in DOMAIN handled :
       /\ handled[i] <= arrived
       /\ handled[i] \in live => agent.pc \in Deleting /\ handled[i] = agent.msg
  /\ agent.pc \in Deleting /\ agent.msg \in own =>
       \E i \in DOMAIN handled : handled[i] = agent.msg

\* Nothing of S is before q, save perhaps x
NoneBefore(S, q, x) == q = NULL \/ \A m \in S : m = x \/ q <= m

\* A walk that serves has no message of the reader's behind it
InTurn ==
  /\ agent.pc = "set" => NoneBefore(Items, agent.ip, NULL)
  /\ agent.pc = "get" /\ agent.phase = "serve" => NoneBefore(Items \cap own, lp.next, NULL)
  /\ agent.pc = "advance" /\ agent.phase = "serve" =>
       NoneBefore(Items \cap own, agent.msg, NULL)
  /\ agent.pc \in {"handle"} \cup Deleting =>
       /\ NoneBefore(Items \cap own, agent.msg, NULL)
       /\ NoneBefore(Items \cap own, lp.next, agent.msg)
       /\ lp.next = NULL \/ agent.msg < lp.next

\* list_delete finds its item, which stays linked until the list's ends are set
Finding ==
  /\ agent.pc = "check" => agent.ip # NULL /\ agent.ip <= agent.msg
  /\ agent.pc = "ends" =>
       /\ links[agent.ip].next = agent.next
       /\ lp.first = agent.ip => \A m \in Items : agent.ip <= m

Order == Past /\ InTurn /\ Finding

LEMMA RolesStep ==
  ASSUME TypeOK, Roles, Rest, Arrive \/ MqttStep \/ AgentStep
  PROVE  Roles'
<1> USE DEF Roles, Rest, Deleting
<1>1. CASE Arrive \/ MqttStep
  <2>1. agent' = agent
    BY <1>1 DEF Arrive, MqttStep, AddTest, AddOnly, AddTail, AddLink, AddBack, AddEnd
  <2> QED BY <2>1
<1>2. CASE AgentStep
  <2> USE DEF TypeOK, AgentAt
  <2>1. CASE Begin
    BY <2>1 DEF Begin
  <2>2. CASE ResetRead \/ ResetWrite \/ GetNext
    BY <2>2 DEF ResetRead, ResetWrite, GetNext
  <2>3. CASE GetEnd
    BY <2>3 DEF GetEnd
  <2>4. CASE Advance
    BY <2>4 DEF Advance, Phases
  <2>5. CASE Handle
    BY <2>5 DEF Handle
  <2>6. CASE DeleteStart \/ DeleteCheck \/ DeleteNotFound \/ Unlink \/ DeleteEnds
    BY <2>6 DEF DeleteStart, DeleteCheck, DeleteNotFound, Unlink, DeleteEnds
  <2>7. CASE PurgeStart \/ PurgeFree \/ PurgeClear
    BY <2>7 DEF PurgeStart, PurgeFree, PurgeClear
  <2> QED BY <1>2, <2>1, <2>2, <2>3, <2>4, <2>5, <2>6, <2>7 DEF AgentStep
<1> QED BY <1>1, <1>2

LEMMA HandledOwn ==
  ASSUME TypeOK
  PROVE  \A i \in DOMAIN handled : handled[i] \in own
<1>1. handled \in Seq(own)
  BY DEF TypeOK
<1>2. DOMAIN handled = 1..Len(handled)
  BY <1>1
<1> QED BY <1>1, <1>2, ElementOfSeq

LEMMA PastArrive ==
  ASSUME TypeOK, Safe, Past, Arrive
  PROVE  Past'
<1>1. arrived \in Nat /\ own \subseteq 1..arrived /\ arrived' = arrived + 1
  BY NAssumption DEF TypeOK, Past, Arrive, Pointer
<1>2. own' \subseteq 1..arrived'
  BY <1>1 DEF Arrive
<1>3. handled' = handled /\ agent' = agent /\ live' = live \cup {arrived + 1}
  BY DEF Arrive
<1>5. \A i \in DOMAIN handled : handled[i] \in 1..arrived
  BY <1>1, HandledOwn
<1>6. ASSUME NEW i \in DOMAIN handled'
      PROVE  /\ handled'[i] <= arrived'
             /\ handled'[i] \in live' => agent'.pc \in Deleting /\ handled'[i] = agent'.msg
  <2>1. handled'[i] \in 1..arrived /\ handled'[i] # arrived + 1
    BY <1>1, <1>3, <1>5
  <2> QED BY <1>1, <1>3, <2>1 DEF Past
<1>7. agent.pc \in Deleting => agent.msg \in Items
  BY DEF Safe, Pointers, Deleting
<1>8. ASSUME agent'.pc \in Deleting, agent'.msg \in own'
      PROVE  \E i \in DOMAIN handled' : handled'[i] = agent'.msg
  <2>1. agent.msg \in Items /\ agent.msg <= arrived /\ agent.msg \in Nat
    BY <1>3, <1>7, <1>8, ItemsAre DEF Safe
  <2>2. agent.msg \in own
    BY <1>1, <1>3, <1>8, <2>1 DEF Arrive
  <2> QED BY <1>3, <1>8, <2>2 DEF Past
<1> QED BY <1>2, <1>6, <1>8 DEF Past

\* A step that handles nothing and deletes at most the message handled
LEMMA PastKept ==
  ASSUME Past, UNCHANGED <<arrived, own, handled>>, live' \subseteq live,
         \/ agent'.pc \in Deleting /\ agent.pc \in Deleting /\ agent'.msg = agent.msg
         \/ /\ agent'.pc \notin Deleting
            /\ agent.pc \in Deleting => agent.msg \notin live'
  PROVE  Past'
<1>1. /\ own' = own /\ arrived' = arrived /\ handled' = handled
      /\ own' \subseteq 1..arrived'
  BY DEF Past
<1>2. ASSUME NEW i \in DOMAIN handled
      PROVE  handled[i] <= arrived /\
             (handled[i] \in live' => agent'.pc \in Deleting /\ handled[i] = agent'.msg)
  <2>1. /\ handled[i] <= arrived
        /\ handled[i] \in live' => agent.pc \in Deleting /\ handled[i] = agent.msg
    BY DEF Past
  <2> QED BY <2>1
<1>3. agent'.pc \in Deleting /\ agent'.msg \in own =>
        \E i \in DOMAIN handled : handled[i] = agent'.msg
  BY DEF Past
<1> QED BY <1>1, <1>2, <1>3 DEF Past

LEMMA PastStep ==
  ASSUME TypeOK, TypeOK', Safe, Past, Finding, build = "THREAD_SAFE", Rest,
         MqttStep \/ AgentStep
  PROVE  Past'
<1>1. CASE MqttStep
  <2>1. UNCHANGED <<arrived, own, handled, live, agent>>
    BY <1>1 DEF MqttStep, AddTest, AddOnly, AddTail, AddLink, AddBack, AddEnd
  <2> QED BY <2>1 DEF Past
<1>2. CASE AgentStep
  <2>1. UNCHANGED <<arrived, own>>
    BY <1>2 DEF AgentStep
  <2> USE DEF TypeOK, AgentAt, Deleting
  <2>2. CASE Begin
    <3>1. agent'.pc = "reset" /\ UNCHANGED <<handled, live>>
      BY <2>2 DEF Begin
    <3> QED BY <2>1, <2>2, <3>1, PastKept DEF Begin
  <2>3. CASE ResetRead \/ ResetWrite \/ GetNext
    <3>1. /\ agent'.pc \in {"set", "get", "advance"} /\ UNCHANGED <<handled, live>>
          /\ agent.pc \in {"reset", "set", "get"}
      BY <2>3 DEF ResetRead, ResetWrite, GetNext
    <3> QED BY <2>1, <3>1, PastKept
  <2>4. CASE GetEnd
    <3>1. /\ agent'.pc \in {"idle", "purge", "reset"} /\ UNCHANGED <<handled, live>>
          /\ agent.pc = "get"
      BY <2>4 DEF GetEnd
    <3> QED BY <2>1, <3>1, PastKept
  <2>5. CASE Advance
    <3>1. /\ agent'.pc \in {"get", "handle"} /\ UNCHANGED <<handled, live>>
          /\ agent.pc = "advance"
      BY <2>5 DEF Advance
    <3> QED BY <2>1, <3>1, PastKept
  <2>6. CASE Handle
    <3>1. /\ agent.pc = "handle" /\ agent'.msg = agent.msg /\ live' = live
          /\ agent'.pc = IF agent.msg \in own \/ reader = "purging" THEN "delete" ELSE "get"
      BY <2>6 DEF Handle
    <3>2. \A i \in DOMAIN handled : handled[i] <= arrived /\ handled[i] \notin live
      BY <3>1 DEF Past
    <3>3. CASE agent.msg \notin own
      <4>1. handled' = handled
        BY <2>6, <3>3 DEF Handle
      <4> QED BY <2>1, <3>1, <3>2, <3>3, <4>1 DEF Past
    <3>4. CASE agent.msg \in own
      <4>1. handled' = Append(handled, agent.msg) /\ agent'.pc = "delete"
        BY <2>6, <3>1, <3>4 DEF Handle
      <4>2. handled \in Seq(own)
        OBVIOUS
      <4>3. /\ DOMAIN handled' = DOMAIN handled \cup {Len(handled) + 1}
            /\ \A i \in DOMAIN handled : handled'[i] = handled[i]
            /\ handled'[Len(handled) + 1] = agent.msg
        BY <3>4, <4>1, <4>2
      <4>4. agent.msg <= arrived
        BY <3>1, ItemsAre DEF Safe, Pointers
      <4> QED BY <2>1, <3>1, <3>2, <4>1, <4>3, <4>4 DEF Past
    <3> QED BY <3>3, <3>4
  <2>7. CASE DeleteStart \/ DeleteCheck \/ Unlink
    <3>1. /\ agent.pc \in Deleting /\ agent'.pc \in Deleting
          /\ agent'.msg = agent.msg /\ UNCHANGED <<handled, live>>
      BY <2>7 DEF DeleteStart, DeleteCheck, Unlink
    <3> QED BY <2>1, <3>1, PastKept
  <2>8. CASE DeleteNotFound
    BY <2>8 DEF DeleteNotFound, Finding
  <2>9. CASE DeleteEnds
    <3>1. /\ agent'.pc = "get" /\ agent.pc = "ends" /\ handled' = handled
          /\ live' = live \ {agent.ip}
      BY <2>9 DEF DeleteEnds
    <3>2. agent.ip = agent.msg
      BY <3>1 DEF Safe, Pointers
    <3> QED BY <2>1, <3>1, <3>2, PastKept
  <2>10. CASE PurgeStart \/ PurgeFree \/ PurgeClear
    <3>1. /\ agent'.pc \in {"free", "idle"} /\ handled' = handled
          /\ agent.pc \in {"purge", "free"} /\ live' \subseteq live
      BY <2>10 DEF PurgeStart, PurgeFree, PurgeClear
    <3> QED BY <2>1, <3>1, PastKept
  <2> QED BY <1>2, <2>2, <2>3, <2>4, <2>5, <2>6, <2>7, <2>8, <2>9, <2>10 DEF AgentStep
<1> QED BY <1>1, <1>2

LEMMA FindingStep ==
  ASSUME TypeOK, TypeOK', Safe, Finding, build = "THREAD_SAFE", Rest,
         Arrive \/ MqttStep \/ AgentStep
  PROVE  Finding'
<1>1. CASE Arrive
  <2>1. Items' = Items /\ UNCHANGED <<agent, lp, links>>
    BY <1>1, ItemsAre DEF Arrive, MqttAt, Items, new, TypeOK, Safe, Allocated
  <2> QED BY <2>1 DEF Finding
<1>2. CASE MqttStep
  <2>1. agent' = agent
    BY <1>2 DEF MqttStep, AddTest, AddOnly, AddTail, AddLink, AddBack, AddEnd
  <2>2. CASE AddTest
    <3>1. lp.mutex = "free"
      BY <2>2 DEF AddTest, Lock
    <3>2. agent.pc \notin {"check", "ends"}
      BY <3>1 DEF Safe, Exclusion
    <3> QED BY <2>1, <3>2 DEF Finding
  <2>3. CASE ~ AddTest
    <3>1. mqtt.pc \in AddPlaces \ {"idle", "test"}
      BY <1>2, <2>3 DEF MqttStep, AddOnly, AddTail, AddLink, AddBack, AddEnd, MqttAt, AddPlaces
    <3>2. lp.mutex = "mqtt"
      BY <3>1 DEF Safe, Exclusion
    <3>3. agent.pc \notin {"check", "ends"}
      BY <3>2 DEF Safe, Exclusion
    <3> QED BY <2>1, <3>3 DEF Finding
  <2> QED BY <2>2, <2>3
<1>3. CASE AgentStep
  <2> USE DEF TypeOK, AgentAt
  <2>1. CASE DeleteStart
    <3>1. lp.mutex = "free" /\ agent.pc = "delete" /\ agent.msg \in Items
      BY <2>1 DEF DeleteStart, Lock, Safe, Pointers
    <3>2. Least(Items, lp.first)
      BY <3>1 DEF Safe, WholeList, Whole, ListOf
    <3>3. lp.first \in Items /\ lp.first <= agent.msg
      BY <3>1, <3>2 DEF Least
    <3>4. agent'.pc = "check" /\ agent'.ip = lp.first /\ agent'.msg = agent.msg
      BY <2>1 DEF DeleteStart
    <3> QED BY <3>3, <3>4, ItemsAre DEF Finding, Safe
  <2>2. CASE DeleteCheck
    <3>1. agent.pc = "check" /\ agent.ip # NULL /\ agent.msg \in Items /\ agent.ip \in Items
      BY <2>2 DEF DeleteCheck, Safe, Pointers
    <3>2. agent.ip <= agent.msg /\ NextIn(Items, agent.ip, links[agent.ip].next)
      BY <3>1 DEF Finding, Safe, WholeList, Whole, ListOf
    <3>3. CASE agent.ip = agent.msg
      BY <2>2, <3>3 DEF DeleteCheck, Finding
    <3>4. CASE agent.ip # agent.msg
      <4>1. /\ agent'.pc = "check" /\ agent'.ip = links[agent.ip].next
            /\ agent'.msg = agent.msg
        BY <2>2, <3>1, <3>4 DEF DeleteCheck
      <4>2. agent.ip \in Nat /\ agent.msg \in Nat /\ agent.ip < agent.msg
        BY <3>1, <3>2, <3>4, ItemsAre DEF Safe
      <4>3. links[agent.ip].next # NULL
        BY <3>1, <3>2, <4>2 DEF NextIn
      <4>4. links[agent.ip].next <= agent.msg
        BY <3>1, <3>2, <4>2, <4>3 DEF NextIn
      <4> QED BY <4>1, <4>3, <4>4 DEF Finding
    <3> QED BY <3>3, <3>4
  <2>3. CASE Unlink
    <3>1. /\ agent.pc = "unlink" /\ agent.msg \in Items /\ agent.ip = agent.msg
          /\ agent.next = links[agent.ip].next /\ agent.prev = links[agent.ip].prev
      BY <2>3 DEF Unlink, Safe, Pointers, Removing
    <3>2. ListOf(Items, lp.first, lp.last, links)
      BY <3>1 DEF Safe, WholeList, Whole
    <3>3. /\ agent'.pc = "ends" /\ agent'.ip = agent.ip /\ agent'.next = agent.next
          /\ lp' = lp /\ live' = live /\ mqtt' = mqtt /\ arrived' = arrived
      BY <1>3, <2>3 DEF Unlink, AgentStep
    <3>4. Items' = Items
      BY <3>3 DEF Items, new
    <3>5. agent.prev # agent.ip
      <4>1. agent.ip \in Node /\ agent.ip \in Nat /\ agent.ip # NULL
        BY <3>1, ItemsAre DEF Safe
      <4>2. PrevIn(Items, agent.ip, agent.prev)
        BY <3>1, <3>2 DEF ListOf
      <4> QED BY <4>1, <4>2 DEF PrevIn
    <3>6. links'[agent.ip].next = agent.next
      <4>1. agent.ip \in Node
        BY <3>1, ItemsAre DEF Safe
      <4> QED BY <2>3, <3>1, <3>5, <4>1 DEF Unlink
    <3>7. lp.first = agent.ip => \A m \in Items : agent.ip <= m
      BY <3>1, <3>2 DEF ListOf, Least
    <3> QED BY <3>3, <3>4, <3>6, <3>7 DEF Finding
  <2>4. CASE ~ (DeleteStart \/ DeleteCheck \/ Unlink)
    <3>1. agent'.pc \notin {"check", "ends"}
      BY <1>3, <2>4 DEF AgentStep, Begin, ResetRead, ResetWrite, GetNext, GetEnd, Advance,
         Handle, DeleteNotFound, DeleteEnds, PurgeStart, PurgeFree, PurgeClear
    <3> QED BY <3>1 DEF Finding
  <2> QED BY <2>1, <2>2, <2>3, <2>4
<1> QED BY <1>1, <1>2, <1>3

\* Except in a deletion's last step and a purge the list begins with its least node.
LEMMA FirstIs ==
  ASSUME TypeOK, Safe, agent.pc \notin {"ends", "free"}
  PROVE  Least(Items, lp.first)
<1> USE DEF Safe
<1>1. CASE mqtt.pc \in {"next", "last", "first"}
  BY <1>1 DEF Adding, Least
<1>2. CASE mqtt.pc \in {"back", "end"}
  BY <1>2 DEF Adding, ListOf
<1>3. CASE mqtt.pc \in {"idle", "test", "tail", "link"}
  <2>1. Whole
    BY <1>3 DEF Whole, Exclusion, TypeOK, AddPlaces
  <2> QED BY <2>1 DEF WholeList, ListOf
<1> QED BY <1>1, <1>2, <1>3 DEF TypeOK, AddPlaces

LEMMA InTurnArrive ==
  ASSUME TypeOK, Safe, InTurn, Arrive
  PROVE  InTurn'
<1>1. Items' = Items
  BY ItemsAre DEF Arrive, MqttAt, Items, new, TypeOK, Safe, Allocated
<1>2. Items' \cap own' = Items \cap own
  <2>1. \A n \in Items : n <= arrived /\ n \in Nat /\ arrived \in Nat
    BY ItemsAre DEF Safe
  <2>2. own' \subseteq own \cup {arrived + 1} /\ own \subseteq own'
    BY DEF Arrive
  <2>3. arrived + 1 \notin Items
    BY <2>1
  <2> QED BY <1>1, <2>2, <2>3
<1>3. UNCHANGED <<agent, lp>>
  BY DEF Arrive
<1> QED BY <1>1, <1>2, <1>3 DEF InTurn

LEMMA Grown ==
  ASSUME NEW S, NEW T, NEW n, T \subseteq S \cup {n}, NEW q, NEW x,
         NoneBefore(S, q, x), q = NULL \/ q <= n
  PROVE  NoneBefore(T, q, x)
BY DEF NoneBefore

LEMMA InTurnMqtt ==
  ASSUME TypeOK, Safe, InTurn, MqttStep, UNCHANGED <<arrived, own>>
  PROVE  InTurn'
<1>1. agent' = agent /\ live' = live
  BY DEF MqttStep, AddTest, AddOnly, AddTail, AddLink, AddBack, AddEnd
<1>2. CASE mqtt.pc \notin {"next", "first", "end"}
  <2>1. Items' = Items /\ lp'.next = lp.next
    BY <1>1, <1>2 DEF MqttStep, AddTest, AddOnly, AddTail, AddLink, AddBack, AddEnd, MqttAt,
       Lock, Items, new, TypeOK
  <2> QED BY <1>1, <2>1 DEF InTurn
<1>3. CASE mqtt.pc = "next"
  <2>1. Items = {}
    BY <1>3 DEF Safe, Adding
  <2>2. Items' = {}
    BY <1>1, <1>3, <2>1 DEF MqttStep, AddTest, AddOnly, AddTail, AddLink, AddBack, AddEnd,
       MqttAt, Items, new, TypeOK
  <2>3. agent.pc \notin {"advance", "handle"} \cup Deleting
    BY <2>1 DEF Safe, Pointers, Deleting
  <2> QED BY <1>1, <2>1, <2>2, <2>3 DEF InTurn, NoneBefore
<1>4. CASE mqtt.pc \in {"first", "end"}
  <2>1. Items' = Items \cup {new} /\ lp'.next = lp.next
    BY <1>1, <1>4, ItemsAre DEF MqttStep, AddTest, AddOnly, AddTail, AddLink, AddBack, AddEnd,
       MqttAt, Unlock, Items, new, TypeOK, Safe
  <2>2. /\ agent.pc = "set" => agent.ip \in Items \cup {NULL}
        /\ agent.pc \in {"advance", "handle"} \cup Deleting => agent.msg \in Items
        /\ agent.pc # "free" => lp.next \in Items \cup {NULL, new}
    BY DEF Safe, Pointers, Deleting
  <2>3. new \in Nat /\ \A n \in Items : n <= new
    BY <1>4, ItemsAre DEF Safe, Node
  <2>4. agent.pc # "free" => lp.next = NULL \/ lp.next <= new
    BY <2>2, <2>3
  <2>5. agent.pc \in {"get", "advance", "handle"} \cup Deleting => agent.pc # "free"
    BY DEF Deleting
  <2>6. agent.pc = "set" => NoneBefore(Items', agent.ip, NULL)
    <3>1. agent.pc = "set" => agent.ip = NULL \/ agent.ip <= new
      BY <2>2, <2>3
    <3> QED BY <2>1, <3>1, Grown DEF InTurn
  <2> DEFINE S == Items \cap own
             T == Items' \cap own'
  <2>7. T \subseteq S \cup {new}
    BY <2>1
  <2> HIDE DEF S, T
  <2>8. agent.pc = "get" /\ agent.phase = "serve" => NoneBefore(T, lp.next, NULL)
    BY <2>4, <2>5, <2>7, Grown DEF InTurn, S
  <2>9. agent.pc \in {"advance", "handle"} \cup Deleting => agent.msg <= new
    BY <2>2, <2>3
  <2>10. agent.pc = "advance" /\ agent.phase = "serve" => NoneBefore(T, agent.msg, NULL)
    BY <2>7, <2>9, Grown DEF InTurn, S
  <2>11. agent.pc \in {"handle"} \cup Deleting =>
           /\ NoneBefore(T, agent.msg, NULL)
           /\ NoneBefore(T, lp.next, agent.msg)
           /\ lp.next = NULL \/ agent.msg < lp.next
    BY <2>4, <2>5, <2>7, <2>9, Grown DEF InTurn, S
  <2> QED BY <1>1, <2>1, <2>6, <2>8, <2>10, <2>11 DEF InTurn, T
<1> QED BY <1>2, <1>3, <1>4

LEMMA InTurnAgent ==
  ASSUME TypeOK, TypeOK', Safe, Finding, InTurn, build = "THREAD_SAFE", Rest, AgentStep
  PROVE  InTurn'
<1> USE DEF AgentAt, Deleting
<1>a. /\ UNCHANGED <<arrived, own>> /\ agent.phase \in Phases
      /\ \A n \in Items : n \in Nat /\ n # NULL
  BY ItemsAre DEF AgentStep, TypeOK, Safe
<1>1. CASE Begin \/ GetEnd \/ PurgeStart \/ PurgeFree \/ PurgeClear
  <2>1. agent'.pc \in {"idle", "purge", "reset", "free"}
    BY <1>1 DEF Begin, GetEnd, PurgeStart, PurgeFree, PurgeClear, TypeOK
  <2> QED BY <2>1 DEF InTurn
<1>2. CASE ~ (DeleteEnds \/ PurgeFree)
  <2>1. live' = live /\ mqtt' = mqtt /\ arrived' = arrived
    BY <1>2 DEF AgentStep, Begin, ResetRead, ResetWrite, GetNext, GetEnd, Advance, Handle,
       DeleteStart, DeleteCheck, DeleteNotFound, Unlink, PurgeStart, PurgeClear
  <2>2. Items' = Items
    BY <2>1 DEF Items, new
  <2>3. CASE ResetRead
    <3>1. Least(Items, lp.first) /\ agent'.pc = "set" /\ agent'.ip = lp.first
      BY <2>3, FirstIs DEF ResetRead, TypeOK
    <3>2. NoneBefore(Items, agent'.ip, NULL)
      BY <3>1 DEF Least, NoneBefore
    <3> QED BY <2>2, <3>1, <3>2 DEF InTurn
  <2>4. CASE ResetWrite
    <3>1. agent.pc = "set" /\ agent'.pc = "get" /\ lp'.next = agent.ip
      BY <2>4 DEF ResetWrite, TypeOK
    <3>2. NoneBefore(Items \cap own, agent.ip, NULL)
      BY <3>1 DEF InTurn, NoneBefore
    <3> QED BY <1>a, <2>2, <3>1, <3>2 DEF InTurn
  <2>5. CASE GetNext
    <3>1. /\ agent.pc = "get" /\ agent'.pc = "advance" /\ agent'.msg = lp.next
          /\ agent'.phase = agent.phase
      BY <2>5 DEF GetNext, TypeOK
    <3> QED BY <1>a, <2>2, <3>1 DEF InTurn
  <2>6. CASE Advance
    <3>1. /\ agent.pc = "advance" /\ agent'.msg = agent.msg /\ agent'.phase = agent.phase
          /\ agent'.pc = IF agent.phase = "look" THEN "get" ELSE "handle"
          /\ lp'.next = links[agent.msg].next
      BY <2>6 DEF Advance, Unlock, TypeOK
    <3>2. CASE agent.phase = "look"
      BY <3>1, <3>2 DEF InTurn
    <3>3. CASE agent.phase = "serve"
      <4>1. agent.msg \in Items /\ NextIn(Items, agent.msg, lp'.next)
        BY <3>1 DEF Safe, Pointers, WholeList, Whole, ListOf
      <4>2. NoneBefore(Items \cap own, agent.msg, NULL)
        BY <3>1, <3>3 DEF InTurn
      <4>3. lp'.next = NULL \/ agent.msg < lp'.next
        BY <4>1 DEF NextIn
      <4>4. \A m \in Items \cap own : agent.msg <= m /\ m \in Nat /\ agent.msg \in Nat
        BY <1>a, <4>1, <4>2 DEF NoneBefore
      <4>5. NoneBefore(Items \cap own, lp'.next, agent.msg)
        <5>1. SUFFICES ASSUME lp'.next # NULL, NEW m \in Items \cap own, m # agent.msg
                       PROVE  lp'.next <= m
          BY DEF NoneBefore
        <5>2. m <= agent.msg \/ lp'.next <= m
          BY <4>1, <5>1 DEF NextIn
        <5> QED BY <4>4, <5>1, <5>2
      <4>6. agent'.pc = "handle"
        BY <3>1, <3>3
      <4> QED BY <1>a, <2>2, <3>1, <4>2, <4>3, <4>5, <4>6 DEF InTurn
    <3> QED BY <1>a, <3>2, <3>3 DEF Phases
  <2>7. CASE Handle
    <3>1. /\ agent.pc = "handle" /\ agent'.msg = agent.msg /\ lp' = lp
          /\ agent'.pc = IF agent.msg \in own \/ reader = "purging" THEN "delete" ELSE "get"
      BY <2>7 DEF Handle, TypeOK
    <3>2. CASE agent'.pc = "delete"
      BY <1>a, <2>2, <3>1, <3>2 DEF InTurn
    <3>3. CASE agent'.pc = "get"
      <4>1. agent.msg \notin own /\ NoneBefore(Items \cap own, lp.next, agent.msg)
        BY <3>1, <3>3 DEF InTurn
      <4>2. NoneBefore(Items \cap own, lp.next, NULL)
        BY <4>1 DEF NoneBefore
      <4> QED BY <1>a, <2>2, <3>1, <3>3, <4>2 DEF InTurn
    <3> QED BY <3>1, <3>2, <3>3
  <2>8. CASE DeleteStart \/ DeleteCheck \/ Unlink
    <3>1. /\ agent.pc \in Deleting /\ agent'.pc \in Deleting
          /\ agent'.msg = agent.msg /\ lp'.next = lp.next
      BY <2>8 DEF DeleteStart, DeleteCheck, Unlink, Lock, TypeOK
    <3> QED BY <1>a, <2>2, <3>1 DEF InTurn
  <2>9. CASE DeleteNotFound
    BY <2>9 DEF DeleteNotFound, Finding
  <2> QED BY <1>1, <1>2, <2>3, <2>4, <2>5, <2>6, <2>7, <2>8, <2>9 DEF AgentStep
<1>3. CASE DeleteEnds
  <2>1. /\ agent.pc = "ends" /\ agent'.pc = "get" /\ live' = live \ {agent.ip}
        /\ lp'.next = IF lp.next = agent.ip THEN agent.next ELSE lp.next
        /\ mqtt' = mqtt /\ arrived' = arrived
    BY <1>3, <1>a DEF DeleteEnds, Unlock, TypeOK
  <2>2. agent.ip = agent.msg /\ agent.msg \in Items
    BY <2>1 DEF Safe, Pointers
  <2>3. Items' = Items \ {agent.msg}
    BY <2>1, <2>2 DEF Items, new
  <2>4. /\ NoneBefore(Items \cap own, lp.next, agent.msg)
        /\ lp.next = NULL \/ agent.msg < lp.next
    BY <2>1 DEF InTurn
  <2>5. lp'.next = lp.next
    BY <1>a, <2>1, <2>2, <2>4
  <2>6. NoneBefore(Items' \cap own', lp.next, NULL)
    BY <1>a, <2>3, <2>4 DEF NoneBefore
  <2> QED BY <2>1, <2>5, <2>6 DEF InTurn
<1> QED BY <1>1, <1>2, <1>3

-----------------------------------------------------------------------------
(* The chain of links, and the queue it stands for.                        *)

\* What the links lead through
Linking ==
  IF agent.pc = "ends" /\ lp.first # agent.ip THEN Items \ {agent.ip}
  ELSE IF mqtt.pc \in {"back", "end"} THEN Items \cup {new}
  ELSE Items

ChainIs == build = "THREAD_SAFE" /\ agent.pc # "free" => Chain = Linking

FullInv == IInv /\ Roles /\ (build = "THREAD_SAFE" => Order)

LEMMA LinkingIs ==
  ASSUME FullInv
  PROVE  ChainIs
<1> SUFFICES ASSUME build = "THREAD_SAFE", agent.pc # "free"
             PROVE  ChainOf(lp.first, links) = Linking
  BY ChainFrom DEF ChainIs
<1> USE DEF FullInv, IInv, Safe, Order
<1>a. /\ Items \subseteq Node /\ \A n \in Items : n \in Nat /\ n # NULL
      /\ links \in [Node -> [next : Pointer, prev : Pointer]]
  BY ItemsAre
<1>1. CASE agent.pc = "ends"
  <2>1. agent.ip \in Items /\ mqtt.pc \in {"idle", "test"}
    BY <1>1 DEF Pointers, Exclusion, TypeOK, AddPlaces
  <2> DEFINE S == Items \ {agent.ip}
  <2>2. /\ Least(S, IF lp.first = agent.ip THEN agent.next ELSE lp.first)
        /\ \A n \in S : NextIn(S, n, links[n].next)
    BY <1>1 DEF Removing, ListOf
  <2>3. CASE lp.first # agent.ip
    BY <1>1, <1>a, <2>2, <2>3, ChainOfList DEF Linking
  <2>4. CASE lp.first = agent.ip
    <3>1. /\ links[agent.ip].next = agent.next
          /\ \A m \in Items : agent.ip <= m
      BY <1>1, <2>4 DEF Finding
    <3>2. Least(Items, lp.first)
      BY <2>1, <2>4, <3>1 DEF Least
    <3>3. ASSUME NEW n \in Items
          PROVE  NextIn(Items, n, links[n].next)
      <4>1. CASE n = agent.ip
        <5>1. Least(S, links[n].next) /\ \A m \in S : n < m /\ n \in Nat
          BY <1>a, <2>2, <2>4, <3>1, <4>1
        <5> QED BY <1>a, <4>1, <5>1 DEF Least, NextIn
      <4>2. CASE n # agent.ip
        <5>1. NextIn(S, n, links[n].next) /\ agent.ip <= n
          BY <2>2, <3>1, <4>2
        <5> QED BY <5>1 DEF NextIn
      <4> QED BY <4>1, <4>2
    <3>4. Linking = Items
      BY <1>1, <2>1, <2>4 DEF Linking
    <3> QED BY <1>a, <3>2, <3>3, <3>4, ChainOfList
  <2> QED BY <2>3, <2>4
<1>2. CASE agent.pc # "ends" /\ mqtt.pc \in {"back", "end"}
  <2>1. /\ new \in Node /\ new \notin Items /\ new \in Nat /\ new # NULL
        /\ \A n \in Items : n < new
    BY <1>2, ItemsAre DEF Node, NULL
  <2>2. /\ mqtt.ip = lp.last /\ links[mqtt.ip].next = new /\ links[new].next = NULL
        /\ Items # {}
        /\ ListOf(Items, lp.first, lp.last, [links EXCEPT ![mqtt.ip].next = NULL])
    BY <1>2 DEF Adding, Allocated
  <2>3. Least(Items, lp.first) /\ lp.last \in Items /\ \A n \in Items : n <= lp.last
    BY <2>2 DEF ListOf, Greatest
  <2> DEFINE S == Items \cup {new}
  <2>4. Least(S, lp.first)
    BY <1>a, <2>1, <2>2, <2>3 DEF Least
  <2>5. ASSUME NEW n \in S
        PROVE  NextIn(S, n, links[n].next)
    <3>1. CASE n = new
      BY <1>a, <2>1, <2>2, <3>1 DEF NextIn
    <3>2. CASE n = lp.last
      <4>1. links[n].next = new
        BY <2>2, <3>2
      <4> QED BY <1>a, <2>1, <2>3, <3>2, <4>1 DEF NextIn
    <3>3. CASE n # new /\ n # lp.last
      <4>1. [links EXCEPT ![mqtt.ip].next = NULL][n].next = links[n].next
        BY <1>a, <2>2, <3>3
      <4>2. NextIn(Items, n, links[n].next)
        BY <2>2, <3>3, <4>1 DEF ListOf
      <4>3. n \in Items /\ n \in Nat /\ lp.last \in Nat /\ n < lp.last
        BY <1>a, <2>3, <3>3
      <4>4. links[n].next # NULL
        BY <2>3, <4>2, <4>3 DEF NextIn
      <4>5. links[n].next \in Items /\ links[n].next \in Nat
        BY <1>a, <4>2, <4>4 DEF NextIn
      <4> QED BY <2>1, <4>2, <4>4, <4>5 DEF NextIn
    <3> QED BY <3>1, <3>2, <3>3
  <2>6. S \subseteq Node /\ Linking = S
    BY <1>2, <1>a, <2>1 DEF Linking
  <2> HIDE DEF S
  <2> QED BY <2>4, <2>5, <2>6, ChainOfList
<1>3. CASE agent.pc # "ends" /\ mqtt.pc \notin {"back", "end"}
  <2>1. Least(Items, lp.first)
    BY <1>3, FirstIs
  <2>2. \A n \in Items : NextIn(Items, n, links[n].next)
    <3>1. CASE mqtt.pc \in {"next", "last", "first"}
      BY <3>1 DEF Adding
    <3>2. CASE mqtt.pc \notin {"next", "last", "first"}
      <4>1. Whole
        BY <1>3, <3>2 DEF Whole, Exclusion, TypeOK, AddPlaces
      <4> QED BY <4>1 DEF WholeList, ListOf
    <3> QED BY <3>1, <3>2
  <2>3. Linking = Items
    BY <1>3 DEF Linking
  <2> QED BY <1>a, <2>1, <2>2, <2>3, ChainOfList
<1> QED BY <1>1, <1>2, <1>3

LEMMA InitFull == Init => FullInv
<1> SUFFICES ASSUME Init PROVE FullInv
  OBVIOUS
<1>1. IInv
  BY InitIInv
<1>2. Roles
  BY DEF Init, Roles, Deleting
<1>3. Order
  <2>1. Past
    BY DEF Init, Past, Deleting
  <2>2. InTurn /\ Finding
    BY DEF Init, InTurn, Finding, Deleting
  <2> QED BY <2>1, <2>2 DEF Order
<1> QED BY <1>1, <1>2, <1>3 DEF FullInv

LEMMA NextFull == FullInv /\ [Next]_vars => FullInv'
<1> SUFFICES ASSUME FullInv, [Next]_vars
             PROVE  FullInv'
  OBVIOUS
<1>1. IInv'
  BY NextIInv DEF FullInv
<1>2. CASE Runs /\ (Arrive \/ MqttStep \/ AgentStep)
  <2>1. Rest
    BY <1>2 DEF Runs, Rest
  <2>2. TypeOK /\ TypeOK' /\ Roles
    BY <1>1 DEF FullInv, IInv
  <2>3. Roles'
    BY <1>2, <2>1, <2>2, RolesStep
  <2>4. ASSUME build' = "THREAD_SAFE"
        PROVE  Order'
    <3>1. build = "THREAD_SAFE" /\ Safe /\ Past /\ InTurn /\ Finding
      BY <2>1, <2>4 DEF Rest, FullInv, IInv, Order
    <3>2. MqttStep => UNCHANGED <<arrived, own>>
      BY DEF MqttStep, AddTest, AddOnly, AddTail, AddLink, AddBack, AddEnd
    <3>3. Past'
      BY <1>2, <2>1, <2>2, <3>1, PastArrive, PastStep
    <3>4. InTurn'
      BY <1>2, <2>1, <2>2, <3>1, <3>2, InTurnArrive, InTurnMqtt, InTurnAgent
    <3>5. Finding'
      BY <1>2, <2>1, <2>2, <3>1, FindingStep
    <3> QED BY <3>3, <3>4, <3>5 DEF Order
  <2> QED BY <1>1, <2>3, <2>4 DEF FullInv
<1>3. CASE UNCHANGED vars
  <2>1. Roles'
    BY <1>3 DEF FullInv, Roles, vars
  <2>2. Order => Order'
    <3>1. Items' = Items
      BY <1>3 DEF vars, Items, new
    <3> QED BY <1>3, <3>1 DEF vars, Order, Past, InTurn, Finding
  <2> QED BY <1>1, <1>3, <2>1, <2>2 DEF FullInv, vars
<1> QED BY <1>2, <1>3 DEF Next, Dead

\* With the mutex, whenever it is free, the links lead both ways through exactly
\* the nodes that were added and not deleted, in order (list.c), for any number
\* of messages.
THEOREM ListIsWhole == Spec => []ListWhole
<1>1. FullInv => ListWhole
  <2> SUFFICES ASSUME FullInv, build = "THREAD_SAFE", lp.mutex = "free"
               PROVE  ListWhole
    BY DEF ListWhole
  <2> USE DEF FullInv, IInv, Safe
  <2>1. mqtt.pc \in {"idle", "test"} /\ agent.pc \notin {"free", "ends"}
    BY DEF Exclusion, TypeOK, AddPlaces
  <2>2. Chain = Items
    BY <2>1, LinkingIs DEF ChainIs, Linking
  <2>3. Items = live \ (IF mqtt.pc = "test" THEN {new} ELSE {})
    BY <2>1 DEF Items
  <2>4. ListOf(Items, lp.first, lp.last, links)
    BY DEF WholeList, Whole
  <2>5. lp.next \in Items \cup {NULL}
    BY <2>1 DEF Pointers
  <2>6. \A n \in Items : n \in Nat /\ n # NULL
    BY ItemsAre
  <2>7. Items = {} <=> lp.last = NULL
    BY <2>4, <2>6 DEF ListOf, Greatest
  <2>8. ASSUME NEW n \in Items
        PROVE  /\ links[n].prev # NULL => links[n].prev < n
               /\ links[n].prev = NULL <=> n = lp.first
               /\ links[n].next = NULL <=> n = lp.last
               /\ Consistent(n)
    <3> DEFINE p == links[n].prev
               q == links[n].next
    <3>1. /\ NextIn(Items, n, q) /\ PrevIn(Items, n, p)
          /\ lp.first \in Items /\ lp.last \in Items
          /\ \A m \in Items : lp.first <= m /\ m <= lp.last
      BY <2>4 DEF ListOf, Least, Greatest
    <3>2. p # NULL => NextIn(Items, p, links[p].next) /\ PrevIn(Items, p, links[p].prev)
      BY <2>4, <3>1 DEF ListOf, PrevIn
    <3>3. q # NULL => NextIn(Items, q, links[q].next) /\ PrevIn(Items, q, links[q].prev)
      BY <2>4, <3>1 DEF ListOf, NextIn
    <3>4. n \in Nat /\ n # NULL /\ lp.first \in Nat /\ lp.last \in Nat
      BY <2>6, <3>1
    <3> HIDE DEF p, q
    <3>5. p # NULL => p < n /\ p \in Items /\ p \in Nat
      BY <2>6, <3>1 DEF PrevIn
    <3>6. q # NULL => n < q /\ q \in Items /\ q \in Nat
      BY <2>6, <3>1 DEF NextIn
    <3>7. p = NULL <=> n = lp.first
      BY <3>1, <3>4, <3>5 DEF PrevIn
    <3>8. q = NULL <=> n = lp.last
      BY <3>1, <3>4, <3>6 DEF NextIn
    <3>9. ASSUME p # NULL
          PROVE  links[p].prev # n /\ links[p].next = n
      <4>1. links[p].prev # n
        BY <3>2, <3>4, <3>5, <3>9 DEF PrevIn
      <4>2. links[p].next # NULL
        BY <3>2, <3>4, <3>5, <3>9 DEF NextIn
      <4>3. links[p].next \in Items /\ links[p].next \in Nat /\ p < links[p].next
        BY <2>6, <3>2, <3>9, <4>2 DEF NextIn
      <4>4. links[p].next <= n
        BY <3>2, <3>4, <3>5, <3>9, <4>2 DEF NextIn
      <4>5. n <= links[p].next
        BY <3>1, <3>4, <3>5, <3>9, <4>3 DEF PrevIn
      <4> QED BY <3>4, <4>1, <4>3, <4>4, <4>5
    <3>10. ASSUME q # NULL
           PROVE  links[q].prev = n /\ links[q].next # n
      <4>1. links[q].next # n
        BY <3>3, <3>4, <3>6, <3>10 DEF NextIn
      <4>2. links[q].prev # NULL
        BY <3>3, <3>4, <3>6, <3>10 DEF PrevIn
      <4>3. links[q].prev \in Items /\ links[q].prev \in Nat /\ links[q].prev < q
        BY <2>6, <3>3, <3>10, <4>2 DEF PrevIn
      <4>4. n <= links[q].prev
        BY <3>3, <3>4, <3>6, <3>10, <4>2 DEF PrevIn
      <4>5. links[q].prev <= n
        BY <3>1, <3>4, <3>6, <3>10, <4>3 DEF NextIn
      <4> QED BY <3>4, <4>1, <4>3, <4>4, <4>5
    <3>11. p # n /\ q # n
      BY <3>4, <3>5, <3>6
    <3>12. Consistent(n)
      BY <3>9, <3>10, <3>11 DEF Consistent, p, q
    <3> QED BY <3>5, <3>7, <3>8, <3>12 DEF p, q
  <2> QED BY <2>2, <2>3, <2>5, <2>7, <2>8 DEF ListWhole
<1> QED BY <1>1, InitFull, NextFull, PTL DEF Spec

\* The queue's variables, of which Waiting stands for its messages
Latest == IF Linked THEN arrived ELSE arrived - 1
Own == IF Linked THEN own ELSE own \ {arrived}
Waiting == {n \in Chain : ~\E i \in DOMAIN handled : handled[i] = n}

LEMMA ChainKept ==
  ASSUME lp'.first = lp.first, links' = links
  PROVE  Chain' = Chain
<1>1. Chain' = ChainOf(lp'.first, links')
  BY DEF Chain, ChainOf
<1> QED BY <1>1, ChainFrom

\* A step of the queue that leaves it as it is
LEMMA QueueKept ==
  ASSUME Linked' = Linked, UNCHANGED <<arrived, own, handled, reader, Chain>>
  PROVE  UNCHANGED Queue!vars
BY DEF Queue!vars

\* A new message is queued when it is linked.
LEMMA QueueArrive ==
  ASSUME TypeOK, Safe, Past, UNCHANGED <<arrived, own, handled, reader>>,
         mqtt.pc # "idle", ~Linked, Linked', Chain' = Chain \cup {new}
  PROVE  Queue!Arrive
<1>1. new \in live /\ arrived \in Nat /\ new \notin Items /\ new = arrived
  BY ItemsAre DEF Safe, Allocated, new
<1>2. \A i \in DOMAIN handled : handled[i] # new
  BY <1>1 DEF Past, Safe, Pointers, Deleting
<1>3. Waiting' = Waiting \cup {arrived}
  BY <1>1, <1>2 DEF Waiting
<1>4. Latest' = Latest + 1 /\ Latest + 1 = arrived
  BY <1>1 DEF Latest
<1>5. Own' \in {Own, Own \cup {arrived}}
  BY DEF Own
<1>6. /\ (IF Linked THEN arrived ELSE arrived - 1)' = (IF Linked THEN arrived ELSE arrived - 1) + 1
      /\ (IF Linked THEN arrived ELSE arrived - 1) + 1 = arrived
  BY <1>4 DEF Latest
<1> QED BY <1>3, <1>5, <1>6 DEF Queue!Arrive, Waiting, Own

LEMMA MqttRefines ==
  ASSUME TypeOK, Safe, Order, ChainIs, ChainIs', build = "THREAD_SAFE", Rest, MqttStep
  PROVE  [Queue!Next]_(Queue!vars)
<1>a. /\ UNCHANGED <<arrived, own, handled, agent, live, reader, build>>
      /\ new' = new
  BY DEF MqttStep, AddTest, AddOnly, AddTail, AddLink, AddBack, AddEnd, Rest, new
<1>b. lp.mutex = "mqtt" => agent.pc \notin {"free", "ends"}
  BY DEF Safe, Exclusion
<1>1. CASE AddTest \/ AddTail \/ AddEnd
  <2>1. lp'.first = lp.first /\ links' = links
    BY <1>1 DEF AddTest, AddTail, AddEnd, Lock, Unlock, TypeOK
  <2>2. Linked' = Linked
    BY <1>1 DEF AddTest, AddTail, AddEnd, MqttAt, Linked, TypeOK
  <2> QED BY <1>a, <2>1, <2>2, ChainKept, QueueKept
<1>2. CASE AddOnly /\ mqtt.pc # "first"
  <2>1. lp'.first = lp.first /\ links' = links
    BY <1>2 DEF AddOnly, MqttAt, TypeOK
  <2>2. Linked' = Linked
    BY <1>2 DEF AddOnly, MqttAt, Linked, TypeOK
  <2> QED BY <1>a, <2>1, <2>2, ChainKept, QueueKept
<1>3. CASE AddBack
  <2>1. mqtt.pc = "back" /\ mqtt'.pc = "end" /\ lp.mutex = "mqtt"
    BY <1>3 DEF AddBack, MqttAt, TypeOK, Safe, Exclusion, AddPlaces
  <2>2. Items' = Items
    BY <1>a, <2>1 DEF Items
  <2>3. Chain = Items \cup {new} /\ Chain' = Items \cup {new}
    BY <1>a, <1>b, <2>1, <2>2 DEF ChainIs, Linking
  <2>4. Linked' = Linked
    BY <2>1 DEF Linked
  <2> QED BY <1>a, <2>3, <2>4, QueueKept
<1>4. CASE AddLink
  <2>1. mqtt.pc = "link" /\ mqtt'.pc = "back" /\ lp.mutex = "mqtt"
    BY <1>4 DEF AddLink, MqttAt, TypeOK, Safe, Exclusion, AddPlaces
  <2>2. Items' = Items
    BY <1>a, <2>1 DEF Items
  <2>3. Chain = Items /\ Chain' = Items \cup {new}
    BY <1>a, <1>b, <2>1, <2>2 DEF ChainIs, Linking
  <2>4. Linked' /\ ~Linked
    BY <2>1 DEF Linked
  <2>5. Queue!Arrive
    BY <1>a, <2>1, <2>3, <2>4, QueueArrive DEF Order
  <2> QED BY <2>5 DEF Queue!Next
<1>5. CASE AddOnly /\ mqtt.pc = "first"
  <2>1. mqtt'.pc = "idle" /\ lp.mutex = "mqtt"
    BY <1>5 DEF AddOnly, MqttAt, TypeOK, Safe, Exclusion, AddPlaces
  <2>2. Items = {} /\ Items' = {new}
    BY <1>5, <1>a, <2>1, ItemsAre DEF Items, Safe, Adding
  <2>3. Chain = Items /\ Chain' = Items \cup {new}
    BY <1>5, <1>a, <1>b, <2>1, <2>2 DEF ChainIs, Linking
  <2>4. Linked' /\ ~Linked
    BY <1>5, <2>1 DEF Linked
  <2>5. Queue!Arrive
    BY <1>5, <1>a, <2>3, <2>4, QueueArrive DEF Order
  <2> QED BY <2>5 DEF Queue!Next
<1> QED BY <1>1, <1>2, <1>3, <1>4, <1>5 DEF MqttStep

LEMMA HandleRefines ==
  ASSUME TypeOK, Safe, Order, Roles, ChainIs, build = "THREAD_SAFE", Rest, Handle,
         UNCHANGED <<arrived, own>>
  PROVE  [Queue!Next]_(Queue!vars)
<1>1. /\ agent.pc = "handle" /\ UNCHANGED <<lp, links, live, mqtt, reader>>
      /\ handled' = IF agent.msg \in own THEN Append(handled, agent.msg) ELSE handled
  BY DEF Handle, AgentAt, Rest
<1>2. Chain' = Chain /\ Linked' = Linked
  BY <1>1, ChainKept DEF Linked
<1>3. CASE agent.msg \notin own
  BY <1>1, <1>2, <1>3, QueueKept
<1>4. CASE agent.msg \in own
  <2> DEFINE n == agent.msg
  <2>1. n \in Items /\ reader # "session"
    BY <1>1 DEF Safe, Pointers, Roles
  <2>2. Chain \subseteq Items \cup {new} /\ Items \subseteq Chain
    BY <1>1 DEF ChainIs, Linking
  <2>3. ~Linked => new \notin Chain /\ n # arrived
    <3>1. ASSUME ~Linked PROVE Chain = Items /\ new \notin Items /\ new = arrived
      BY <1>1, <3>1, ItemsAre DEF ChainIs, Linking, Linked, new, Safe
    <3> QED BY <2>1, <3>1
  <2>4. n \in live /\ \A i \in DOMAIN handled : handled[i] # n
    BY <1>1, <2>1, ItemsAre DEF Order, Past, Safe, Deleting
  <2>5. n \in Waiting \cap Own
    BY <1>4, <2>1, <2>2, <2>3, <2>4 DEF Waiting, Own
  <2>6. \A k \in Waiting \cap Own : n <= k
    <3> SUFFICES ASSUME NEW k \in Waiting \cap Own
                 PROVE  n <= k
      OBVIOUS
    <3>1. k \in Chain /\ k \in own
      BY DEF Waiting, Own
    <3>2. NoneBefore(Items \cap own, n, NULL) /\ n # NULL
      BY <1>1, <2>1, ItemsAre DEF Order, InTurn, Safe
    <3>3. CASE k \in Items
      <4>1. k # NULL
        BY <3>3, ItemsAre DEF Safe
      <4> QED BY <3>1, <3>2, <3>3, <4>1 DEF NoneBefore
    <3>4. CASE k \notin Items
      <4>1. k = new /\ mqtt.pc # "idle"
        <5>1. k = new
          BY <2>2, <3>1, <3>4
        <5> QED BY <1>1, <3>1, <3>4, <5>1 DEF ChainIs, Linking
      <4>2. n < new /\ n \in Nat /\ new \in Nat
        BY <2>1, <4>1, ItemsAre DEF Safe, Node
      <4> QED BY <4>1, <4>2
    <3> QED BY <3>3, <3>4
  <2>7. handled' = Append(handled, n)
    BY <1>1, <1>4
  <2>8. /\ DOMAIN handled' = DOMAIN handled \cup {Len(handled) + 1}
        /\ \A i \in DOMAIN handled : handled'[i] = handled[i]
        /\ handled'[Len(handled) + 1] = n
    <3>1. handled \in Seq(own) /\ n \in own
      BY <1>4 DEF TypeOK
    <3> HIDE DEF n
    <3> QED BY <2>7, <3>1
  <2>9. Waiting' = Waiting \ {n}
    BY <1>2, <2>8 DEF Waiting
  <2>10. /\ UNCHANGED <<arrived, own, reader>> /\ Latest' = Latest /\ Own' = Own
    BY <1>1, <1>2 DEF Latest, Own
  <2> HIDE DEF n
  <2>11. PICK m \in Waiting : m = n
    BY <2>5
  <2>12. Queue!Handle(m)
    BY <2>1, <2>5, <2>6, <2>7, <2>9, <2>10, <2>11 DEF Queue!Handle, Waiting, Own, Latest
  <2> QED BY <2>12 DEF Queue!Next, Waiting
<1> QED BY <1>3, <1>4

LEMMA DeleteRefines ==
  ASSUME TypeOK, TypeOK', Safe, Order, Roles, ChainIs, ChainIs', build = "THREAD_SAFE", Rest,
         Unlink \/ DeleteEnds, UNCHANGED <<arrived, own>>
  PROVE  [Queue!Next]_(Queue!vars)
<1> DEFINE n == agent.msg
<1>1. /\ agent.pc \in {"unlink", "ends"} /\ UNCHANGED <<handled, mqtt, reader, build>>
      /\ agent.ip = n /\ n \in Items /\ reader # "session"
  BY DEF Unlink, DeleteEnds, AgentAt, Rest, Safe, Pointers, Roles, Deleting
<1>2. mqtt.pc \in {"idle", "test"} /\ Linked' = Linked
  BY <1>1 DEF Safe, Exclusion, TypeOK, AddPlaces, Linked
<1>3. Chain' \in {Chain, Chain \ {n}}
  <2>1. CASE Unlink
    <3>1. /\ agent.pc = "unlink" /\ agent'.pc = "ends" /\ agent'.ip = agent.ip
          /\ lp' = lp /\ live' = live
      BY <2>1 DEF Unlink, AgentAt, TypeOK
    <3>2. Items' = Items
      BY <1>1, <3>1 DEF Items, new
    <3> QED BY <1>1, <1>2, <3>1, <3>2 DEF ChainIs, Linking
  <2>2. CASE DeleteEnds
    <3>1. agent.pc = "ends" /\ agent'.pc = "get" /\ live' = live \ {n}
      BY <1>1, <2>2 DEF DeleteEnds, AgentAt, TypeOK
    <3>2. Items' = Items \ {n}
      BY <1>1, <3>1 DEF Items, new
    <3> QED BY <1>1, <1>2, <3>1, <3>2 DEF ChainIs, Linking
  <2> QED BY <2>1, <2>2
<1>4. /\ UNCHANGED <<arrived, own, reader, handled>> /\ Latest' = Latest /\ Own' = Own
  BY <1>1, <1>2 DEF Latest, Own
<1>5. CASE Chain' = Chain
  BY <1>1, <1>2, <1>5, QueueKept
<1>6. CASE Chain' = Chain \ {n} /\ n \notin Waiting
  <2>1. Waiting' = Waiting
    BY <1>4, <1>6 DEF Waiting
  <2> QED BY <1>4, <2>1 DEF Queue!vars, Waiting, Own, Latest
<1>7. CASE Chain' = Chain \ {n} /\ n \in Waiting
  <2>1. Waiting' = Waiting \ {n}
    BY <1>4, <1>7 DEF Waiting
  <2>2. n \notin Own
    BY <1>1, <1>7 DEF Order, Past, Deleting, Waiting, Own
  <2> HIDE DEF n
  <2>3. PICK m \in Waiting : m = n
    BY <1>7
  <2>4. Queue!Discard(m)
    BY <1>1, <1>4, <1>7, <2>1, <2>2, <2>3 DEF Queue!Discard, Waiting, Own, Latest
  <2> QED BY <2>4 DEF Queue!Next, Waiting
<1> QED BY <1>3, <1>5, <1>6, <1>7

LEMMA PurgeRefines ==
  ASSUME TypeOK, TypeOK', Safe, Roles, ChainIs', build = "THREAD_SAFE", Rest, PurgeClear,
         UNCHANGED <<arrived, own>>
  PROVE  [Queue!Next]_(Queue!vars)
<1>1. /\ agent.pc = "free" /\ agent.ip = NULL /\ agent'.pc = "idle" /\ reader = "session"
      /\ UNCHANGED <<live, mqtt, handled, reader, build>>
  BY DEF PurgeClear, AgentAt, Roles, Rest, TypeOK
<1>2. mqtt.pc \in {"idle", "test"} /\ Linked' = Linked
  BY <1>1 DEF Safe, Exclusion, TypeOK, AddPlaces, Linked
<1>3. Items' = {}
  <2>1. Items = {}
    BY <1>1, ItemsAre DEF Safe, Purging, Least
  <2> QED BY <1>1, <2>1 DEF Items, new
<1>4. Chain' = {}
  BY <1>1, <1>2, <1>3 DEF ChainIs, Linking
<1>5. Waiting' = {}
  BY <1>4 DEF Waiting
<1>6. /\ UNCHANGED <<arrived, own, reader, handled>> /\ Latest' = Latest /\ Own' = Own
  BY <1>1, <1>2 DEF Latest, Own
<1>7. Queue!Purge
  BY <1>1, <1>5, <1>6 DEF Queue!Purge, Waiting, Own, Latest
<1> QED BY <1>7 DEF Queue!Next

LEMMA StepRefines ==
  ASSUME FullInv, FullInv', ChainIs, ChainIs', [Next]_vars, build = "THREAD_SAFE"
  PROVE  [Queue!Next]_(Queue!vars)
<1> USE DEF FullInv, IInv
<1>1. CASE UNCHANGED vars
  <2>1. Chain' = Chain /\ Linked' = Linked
    BY <1>1, ChainKept DEF vars, Linked
  <2> QED BY <1>1, <2>1, QueueKept DEF vars
<1>2. CASE Rest /\ Arrive
  <2>1. /\ mqtt.pc = "idle" /\ mqtt'.pc = "test" /\ UNCHANGED <<lp, links, handled, reader>>
        /\ arrived' = arrived + 1 /\ own' \in {own, own \cup {arrived + 1}}
    BY <1>2 DEF Arrive, MqttAt, Rest, TypeOK
  <2>2. arrived \in Nat /\ own \subseteq 1..arrived /\ build = "THREAD_SAFE"
    BY ItemsAre DEF Safe, Order, Past
  <2>3. Chain' = Chain /\ Linked /\ ~Linked'
    BY <2>1, ChainKept DEF Linked
  <2>4. Latest' = Latest /\ Own' = Own /\ Waiting' = Waiting
    BY <2>1, <2>2, <2>3 DEF Latest, Own, Waiting
  <2> QED BY <2>1, <2>4 DEF Queue!vars, Latest, Own, Waiting
<1>3. CASE Rest /\ MqttStep
  BY <1>3, MqttRefines
<1>4. CASE Rest /\ AgentStep
  <2>1. UNCHANGED <<arrived, own, mqtt>>
    BY <1>4 DEF AgentStep, Begin, ResetRead, ResetWrite, GetNext, GetEnd, Advance, Handle,
       DeleteStart, DeleteCheck, DeleteNotFound, Unlink, DeleteEnds, PurgeStart, PurgeFree,
       PurgeClear
  <2>2. CASE ~ (Handle \/ Unlink \/ DeleteEnds \/ PurgeClear)
    <3>1. lp'.first = lp.first /\ links' = links /\ handled' = handled
      BY <1>4, <2>2 DEF AgentStep, Begin, ResetRead, ResetWrite, GetNext, GetEnd, Advance,
         DeleteStart, DeleteCheck, DeleteNotFound, PurgeStart, PurgeFree, Lock, Unlock, TypeOK
    <3>2. Linked' = Linked
      BY <2>1 DEF Linked
    <3> QED BY <1>4, <2>1, <3>1, <3>2, ChainKept, QueueKept DEF Rest
  <2> QED BY <1>4, <2>1, <2>2, HandleRefines, DeleteRefines, PurgeRefines
<1> QED BY <1>1, <1>2, <1>3, <1>4 DEF Next, Dead, Runs, Rest

\* With the mutex, list and threads together are the queue of MessageQueue: the
\* reader's own messages are handled in order, each once, and none gets lost but
\* in a purge (agent.c:141-183, list.c), for any number of messages.
THEOREM ImplementsQueue == Spec => RefinesQueue
<1>1. Init => Queue!Init
  <2> SUFFICES ASSUME Init PROVE Queue!Init
    OBVIOUS
  <2>1. ChainOf(NULL, links) = {}
    <3>1. /\ {} \in SUBSET Node /\ Least({}, NULL)
          /\ \A n \in {} : NextIn({}, n, links[n].next)
      BY DEF Least
    <3> QED BY <3>1, ChainOfList
  <2>2. Chain = {} /\ Linked
    BY <2>1, ChainFrom DEF Init, Linked
  <2> QED BY <2>2 DEF Init, Queue!Init
<1>2. FullInv => ChainIs
  BY LinkingIs
<1>3. FullInv /\ FullInv' /\ ChainIs /\ ChainIs' /\ [Next]_vars =>
        [build = "THREAD_SAFE" => Queue!Next]_(Queue!vars)
  BY StepRefines
<1> QED BY <1>1, <1>2, <1>3, InitFull, NextFull, PTL DEF Spec, RefinesQueue
=============================================================================
