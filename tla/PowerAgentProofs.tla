-------------------------- MODULE PowerAgentProofs --------------------------
(* Proofs about the power allocator for every set of consumers, amounts,   *)
(* priorities, budgets, sensor readings and delays.                        *)
EXTENDS PowerAgent, FiniteSetTheorems, WellFoundedInduction, TLAPS

USE IdsAssumption, AmountsAssumption, PrisAssumption, BudgetsAssumption,
    PowersAssumption, TimesAssumption, FlagsAssumption, LimitsAssumption,
    BoundAssumption

-----------------------------------------------------------------------------
(* Lemmas on the helpers.                                                  *)

\* A clamped priority is one of 1..100.
LEMMA ClampRange == ASSUME NEW p \in Int PROVE Clamp(p) \in 1..100
  BY DEF Clamp

\* What an id holds is part of the list, and its amount is a number.
LEMMA HeldFacts ==
  ASSUME TypeOK, NEW id \in Ids
  PROVE  /\ Held(id) \subseteq reservations
         /\ HeldAmount(id) \in Nat
         /\ IsFiniteSet(reservations \ Held(id))
  <1>1. Held(id) \subseteq reservations
    BY DEF Held
  <1>2. HeldAmount(id) \in Nat
    BY <1>1 DEF HeldAmount, TypeOK, Reservation
  <1>3. IsFiniteSet(reservations \ Held(id))
    BY FS_Difference DEF TypeOK
  <1>4. QED
    BY <1>1, <1>2, <1>3

\* The queue that a read leaves behind is a queue of revocations, and what it
\* sends are revocations.
LEMMA QueueFacts ==
  ASSUME NEW q \in Seq(Revoke)
  PROVE  LeftOf(q) \in Seq(Revoke) /\ SentOf(q) \subseteq Revoke
  <1>1. LeftOf(q) \in Seq(Revoke)
    <2>1. Len(q) \div 2 \in Nat
      OBVIOUS
    <2>2. \A i \in 1..(Len(q) \div 2) : 2 * i \in 1..Len(q)
      OBVIOUS
    <2>3. \A i \in 1..(Len(q) \div 2) : q[2 * i] \in Revoke
      BY <2>2
    <2>4. QED
      BY <2>1, <2>3 DEF LeftOf
  <1>2. SentOf(q) \subseteq Revoke
    BY DEF SentOf
  <1>3. QED
    BY <1>1, <1>2

-----------------------------------------------------------------------------
(* Type correctness.                                                       *)

LEMMA GrantTypes ==
  ASSUME TypeOK, NEW id \in Ids, NEW a \in Amounts, NEW pri \in 1..100,
         Grant(id, a, pri)
  PROVE  /\ reservations' \subseteq Reservation
         /\ IsFiniteSet(reservations')
         /\ reserved' \in Int
         /\ AvailOn(reserved', avail) \in Int
         /\ reserve_age' \in 0..ReserveDelay
  <1>1. [id |-> id, amount |-> a, pri |-> pri] \in Reservation
    BY DEF Reservation
  <1>2. IsFiniteSet(reservations')
    BY HeldFacts, FS_AddElement DEF Grant
  <1>3. reserved' \in Int
    BY HeldFacts DEF Grant, TypeOK
  <1>4. AvailOn(reserved', avail) \in Int
    BY <1>3 DEF AvailOn, TypeOK
  <1>5. QED
    BY <1>1, <1>2, <1>3, <1>4 DEF Grant, TypeOK

LEMMA DropTypes ==
  ASSUME TypeOK, NEW id \in Ids
  PROVE  /\ reservations \ Held(id) \subseteq Reservation
         /\ IsFiniteSet(reservations \ Held(id))
         /\ reserved - HeldAmount(id) \in Int
         /\ AvailOn(reserved - HeldAmount(id), avail) \in Int
  <1>1. /\ Held(id) \subseteq reservations
        /\ HeldAmount(id) \in Nat
        /\ IsFiniteSet(reservations \ Held(id))
    BY HeldFacts
  <1>2. reservations \ Held(id) \subseteq Reservation
    BY DEF TypeOK
  <1>3. reserved - HeldAmount(id) \in Int
    BY <1>1 DEF TypeOK
  <1>4. AvailOn(reserved - HeldAmount(id), avail) \in Int
    BY <1>3 DEF AvailOn, TypeOK
  <1>5. QED
    BY <1>1, <1>2, <1>3, <1>4

LEMMA DeficitTypes ==
  ASSUME TypeOK, NEW av \in Int, NEW already \in SUBSET Revoke, Deficit(av, already)
  PROVE  /\ neg_age' \in (0..DeficitTimeout) \cup {NotNegative}
         /\ sent' \subseteq Revoke
  <1> DEFINE revoked(S) == {[res |-> r, immediate |-> FALSE] : r \in S}
  <1>0. \A r \in reservations : [res |-> r, immediate |-> FALSE] \in Revoke
    BY DEF TypeOK, Revoke
  <1>1. \A S \in SUBSET reservations : revoked(S) \subseteq Revoke
    BY <1>0
  <1>2. neg_age' \in (0..DeficitTimeout) \cup {NotNegative}
    BY DEF Deficit, TypeOK
  <1>3. sent' \subseteq Revoke
    BY <1>1 DEF Deficit
  <1>4. QED
    BY <1>2, <1>3

LEMMA InitTypes == Init => TypeOK
  <1>1. IsFiniteSet({})
    BY FS_EmptySet
  <1> SUFFICES ASSUME Init PROVE TypeOK
    OBVIOUS
  <1>2. /\ reservations = {} /\ reserved = 0 /\ revokes = <<>>
        /\ reserve_age = ReserveDelay /\ neg_age = NotNegative /\ battery = 0
        /\ level_low = FALSE /\ phase = "init"
    BY DEF Init, FreshState
  <1>3. NoReply \in [op : {"none", "reserve", "release", "repri", "revoke_all"},
                     status : Status]
    BY DEF NoReply, Status
  <1>4. /\ reservations \subseteq Reservation /\ IsFiniteSet(reservations)
        /\ revokes \in Seq(Revoke) /\ sent \subseteq Revoke
    BY <1>1, <1>2 DEF Init
  <1>5. /\ budget \in Budgets /\ night_budget \in NightBudgets
        /\ reserved \in Int /\ avail \in Int /\ battery \in Int
        /\ reserve_age \in 0..ReserveDelay
    BY <1>2 DEF Init
  <1>6. /\ bypass \in BOOLEAN /\ night \in BOOLEAN /\ level_low \in BOOLEAN
        /\ mode \in {"day", "night"} /\ phase \in {"init", "idle", "hard"}
    BY <1>2 DEF Init
  <1>7. QED
    BY <1>2, <1>3, <1>4, <1>5, <1>6 DEF Init, TypeOK

\* Whatever a request does to the list, answering it leaves the rest typed.
LEMMA AnswerTypes ==
  ASSUME TypeOK, NEW op \in {"reserve", "release", "repri", "revoke_all"},
         NEW status \in 0..1, Answer(op, status),
         reservations' \subseteq Reservation, IsFiniteSet(reservations'),
         reserved' \in Int, avail' \in Int, reserve_age' \in 0..ReserveDelay,
         revokes' \in Seq(Revoke)
  PROVE  TypeOK'
  BY DEF Answer, TypeOK, Status, configVars, sensorVars

LEMMA StepTypes == TypeOK /\ [Next]_vars => TypeOK'
  <1> SUFFICES ASSUME TypeOK, [Next]_vars PROVE TypeOK'
    OBVIOUS
  <1>0. revokes \in Seq(Revoke)
    BY DEF TypeOK
  <1>1. ASSUME NEW id \in Ids, NEW a \in Amounts, NEW p \in Pris, Reserve(id, a, p)
        PROVE TypeOK'
    <2> DEFINE pri == Clamp(p)
    <2>0. pri \in 1..100
      BY ClampRange
    <2>1. CASE Grant(id, a, pri) /\ Answer("reserve", 0)
      <3>1. /\ reservations' \subseteq Reservation
            /\ IsFiniteSet(reservations')
            /\ reserved' \in Int
            /\ AvailOn(reserved', avail) \in Int
            /\ reserve_age' \in 0..ReserveDelay
        BY <2>0, <2>1, GrantTypes
      <3>2. avail' \in Int
        BY <2>1, <3>1 DEF Grant
      <3>3. revokes' = revokes
        BY <1>1 DEF Reserve
      <3>4. QED
        BY <2>1, <3>1, <3>2, <3>3, <1>0, AnswerTypes
    <2>2. CASE DropAndDeny(id) /\ Answer("reserve", 1)
      <3>1. revokes' = revokes
        BY <1>1 DEF Reserve
      <3>2. /\ reservations' \subseteq Reservation
            /\ IsFiniteSet(reservations')
            /\ reserved' \in Int /\ avail' \in Int
            /\ reserve_age' \in 0..ReserveDelay
        BY <2>2, DropTypes DEF DropAndDeny, TypeOK
      <3>3. QED
        BY <2>2, <3>1, <3>2, <1>0, AnswerTypes
    <2>3. CASE /\ Answer("reserve", 1)
               /\ UNCHANGED <<reservations, reserved, avail, reserve_age>>
      <3>1. revokes' = revokes
        BY <1>1 DEF Reserve
      <3>2. QED
        BY <2>3, <3>1, <1>0, AnswerTypes DEF TypeOK
    <2>4. QED
      BY <1>1, <2>1, <2>2, <2>3 DEF Reserve
  <1>2. ASSUME NEW id \in Ids, Release(id) PROVE TypeOK'
    <2>1. /\ reservations' \subseteq Reservation
          /\ IsFiniteSet(reservations')
          /\ reserved' \in Int /\ avail' \in Int
          /\ reserve_age' \in 0..ReserveDelay
      <3>1. CASE Held(id) # {}
        BY <1>2, <3>1, DropTypes DEF Release, TypeOK
      <3>2. CASE Held(id) = {}
        BY <1>2, <3>2 DEF Release, TypeOK
      <3>3. QED
        BY <3>1, <3>2
    <2>2. revokes' = revokes /\ Answer("release", 0)
      BY <1>2 DEF Release
    <2>3. QED
      BY <2>1, <2>2, <1>0, AnswerTypes
  <1>3. ASSUME NEW id \in Ids, NEW a \in Amounts, NEW p \in Pris, Repri(id, a, p)
        PROVE TypeOK'
    <2> DEFINE pri == Clamp(p)
               rest == reservations \ Held(id)
               changed == [id |-> id, amount |-> HeldAmount(id), pri |-> pri]
    <2>0. pri \in 1..100
      BY ClampRange
    <2>1. CASE /\ Held(id) # {}
               /\ reservations' = rest \cup {changed}
               /\ Answer("repri", 0)
               /\ UNCHANGED <<reserved, avail, reserve_age>>
      <3>0. HeldAmount(id) \in Amounts
        <4> DEFINE h == CHOOSE r \in Held(id) : TRUE
        <4>1. h \in Held(id)
          BY <2>1
        <4>2. h \in Reservation
          BY <4>1, HeldFacts DEF TypeOK
        <4>3. QED
          BY <2>1, <4>2 DEF HeldAmount, Reservation
      <3>1. changed \in Reservation
        BY <2>0, <3>0 DEF Reservation
      <3>3. IsFiniteSet(reservations')
        BY <2>1, HeldFacts, FS_AddElement
      <3>4. QED
        <4>1. /\ reservations' \subseteq Reservation
              /\ reserved' \in Int /\ avail' \in Int
              /\ reserve_age' \in 0..ReserveDelay
          BY <2>1, <3>1, DropTypes DEF TypeOK
        <4>2. revokes' = revokes
          BY <1>3 DEF Repri
        <4>3. QED
          BY <2>1, <3>3, <4>1, <4>2, <1>0, AnswerTypes
    <2>2. CASE Grant(id, a, pri) /\ Answer("repri", 0)
      <3>1. /\ reservations' \subseteq Reservation
            /\ IsFiniteSet(reservations')
            /\ reserved' \in Int
            /\ AvailOn(reserved', avail) \in Int
            /\ reserve_age' \in 0..ReserveDelay
        BY <2>0, <2>2, GrantTypes
      <3>2. avail' \in Int
        BY <2>2, <3>1 DEF Grant
      <3>3. revokes' = revokes
        BY <1>3 DEF Repri
      <3>4. QED
        BY <2>2, <3>1, <3>2, <3>3, <1>0, AnswerTypes
    <2>3. CASE /\ Answer("repri", 1)
               /\ UNCHANGED <<reservations, reserved, avail, reserve_age>>
      <3>1. revokes' = revokes
        BY <1>3 DEF Repri
      <3>2. QED
        BY <2>3, <3>1, <1>0, AnswerTypes DEF TypeOK
    <2>4. QED
      BY <1>3, <2>1, <2>2, <2>3 DEF Repri
  <1>4. ASSUME NEW im \in BOOLEAN, RevokeAll(im) PROVE TypeOK'
    <2>1. PICK q \in Orders(reservations) :
            revokes' = revokes \o
              [i \in 1..Cardinality(reservations) |-> [res |-> q[i], immediate |-> im]]
      BY <1>4 DEF RevokeAll
    <2> DEFINE n == Cardinality(reservations)
               new == [i \in 1..n |-> [res |-> q[i], immediate |-> im]]
    <2>2. n \in Nat
      BY FS_CardinalityType DEF TypeOK
    <2>3. q \in [1..n -> reservations]
      BY DEF Orders
    <2>4. \A i \in 1..n : [res |-> q[i], immediate |-> im] \in Revoke
      BY <2>3 DEF TypeOK, Revoke
    <2>5. new \in Seq(Revoke)
      BY <2>2, <2>4
    <2>6. revokes' \in Seq(Revoke)
      BY <2>1, <2>5 DEF TypeOK
    <2>7. QED
      BY <1>4, <2>6 DEF RevokeAll, Answer, TypeOK, configVars, sensorVars, Status
  <1>5. ASSUME NEW b \in Budgets, SetBudget(b) PROVE TypeOK'
    BY <1>5 DEF SetBudget, TypeOK, sensorVars, NoReply, Status
  <1>6. ASSUME NEW b \in NightBudgets, SetNightBudget(b) PROVE TypeOK'
    BY <1>6 DEF SetNightBudget, TypeOK, sensorVars, NoReply, Status
  <1>7. ASSUME SetBypass PROVE TypeOK'
    BY <1>7 DEF SetBypass, TypeOK, sensorVars, NoReply, Status
  <1>8. ASSUME NEW pw \in Powers, NEW b \in BatteryPowers, NEW low \in BOOLEAN,
               Read(pw, b, low)
        PROVE TypeOK'
    <2> DEFINE aa == IF ReadBudget = 0 THEN pw ELSE ReadBudget - reserved
               av == IF aa = 0 THEN -1 ELSE aa
    <2>1. LeftOf(revokes) \in Seq(Revoke) /\ SentOf(revokes) \subseteq Revoke
      BY QueueFacts DEF TypeOK
    <2>2. av \in Int
      BY DEF ReadBudget, TypeOK
    <2>3. avail' = av
      BY <1>8 DEF Read
    <2>4. /\ neg_age' \in (0..DeficitTimeout) \cup {NotNegative}
          /\ sent' \subseteq Revoke
      <3>1. CASE OverHardLimit(b, 0)
        BY <1>8, <2>1, <3>1 DEF Read, TypeOK
      <3>2. CASE ~OverHardLimit(b, 0)
        <4>1. Deficit(av, SentOf(revokes))
          BY <1>8, <3>2 DEF Read
        <4> HIDE DEF av
        <4>2. QED
          BY <4>1, <2>1, <2>2, DeficitTypes
      <3>3. QED
        BY <3>1, <3>2
    <2>5. mode' \in {"day", "night"} /\ phase' \in {"init", "idle", "hard"}
      BY <1>8 DEF Read
    <2>6. /\ battery' \in Int /\ level_low' \in BOOLEAN /\ night' \in BOOLEAN
          /\ budget' \in Budgets /\ night_budget' \in NightBudgets /\ bypass' \in BOOLEAN
          /\ reservations' \subseteq Reservation /\ IsFiniteSet(reservations')
          /\ reserved' \in Int
          /\ reserve_age' \in 0..ReserveDelay
      BY <1>8 DEF Read, TypeOK, configVars
    <2>7. /\ revokes' \in Seq(Revoke)
          /\ reply' \in [op : {"none", "reserve", "release", "repri", "revoke_all"},
                         status : Status]
      BY <1>8, <2>1 DEF Read, NoReply, Status
    <2> HIDE DEF av
    <2>8. QED
      BY <2>2, <2>3, <2>4, <2>5, <2>6, <2>7 DEF TypeOK
  <1>9. ASSUME NEW r \in reservations, HardRevoke(r) PROVE TypeOK'
    <2>1. [res |-> r, immediate |-> TRUE] \in Revoke
      BY DEF TypeOK, Revoke
    <2>2. IsFiniteSet(reservations \ {r})
      BY FS_RemoveElement DEF TypeOK
    <2>3. reserved - r.amount \in Int
      BY DEF TypeOK, Reservation
    <2>4. QED
      BY <1>9, <2>1, <2>2, <2>3
         DEF HardRevoke, AvailOn, TypeOK, configVars, sensorVars
  <1>10. ASSUME HardDone PROVE TypeOK'
    <2>1. /\ neg_age' \in (0..DeficitTimeout) \cup {NotNegative}
          /\ sent' \subseteq Revoke
      BY <1>10, DeficitTypes DEF HardDone, TypeOK
    <2>2. QED
      BY <1>10, <2>1 DEF HardDone, TypeOK, configVars, sensorVars
  <1>11. ASSUME Tick PROVE TypeOK'
    BY <1>11 DEF Tick, TypeOK, configVars, sensorVars, NotNegative
  <1>12. ASSUME DuskOrDawn PROVE TypeOK'
    BY <1>12 DEF DuskOrDawn, TypeOK, configVars
  <1>13. ASSUME Restart PROVE TypeOK'
    BY <1>13, FS_EmptySet
       DEF Restart, FreshState, TypeOK, configVars, NoReply, Status
  <1>14. ASSUME UNCHANGED vars PROVE TypeOK'
    BY <1>14 DEF vars, TypeOK
  <1>15. QED
    BY <1>1, <1>2, <1>3, <1>4, <1>5, <1>6, <1>7, <1>8, <1>9, <1>10, <1>11, <1>12,
       <1>13, <1>14 DEF Next

\* The state of the allocator keeps its types in every reachable state.
THEOREM TypeCorrect == Spec => []TypeOK
  BY InitTypes, StepTypes, PTL DEF Spec

-----------------------------------------------------------------------------
(* One reservation per id.                                                 *)

\* Granting replaces whatever the id held, so it keeps the ids unique.
LEMMA GrantKeepsUnique ==
  ASSUME UniqueIds, NEW id \in Ids, NEW r,
         r.id = id,
         reservations' = (reservations \ Held(id)) \cup {r}
  PROVE  UniqueIds'
  BY DEF UniqueIds, Held

\* Dropping reservations cannot make two of them share an id.
LEMMA SubsetKeepsUnique ==
  ASSUME UniqueIds, reservations' \subseteq reservations
  PROVE  UniqueIds'
  BY DEF UniqueIds

LEMMA UniqueStep ==
  ASSUME UniqueIds, [Next]_vars
  PROVE  UniqueIds'
  <1>1. ASSUME NEW id \in Ids, NEW a \in Amounts, NEW p \in Pris, Reserve(id, a, p)
        PROVE UniqueIds'
    <2>1. CASE Grant(id, a, Clamp(p))
      <3> DEFINE r == [id |-> id, amount |-> a, pri |-> Clamp(p)]
      <3>1. r.id = id /\ reservations' = (reservations \ Held(id)) \cup {r}
        BY <2>1 DEF Grant
      <3> HIDE DEF r
      <3>2. QED
        BY <3>1, GrantKeepsUnique
    <2>2. CASE reservations' \subseteq reservations
      BY <2>2, SubsetKeepsUnique
    <2>3. QED
      BY <1>1, <2>1, <2>2 DEF Reserve, DropAndDeny
  <1>2. ASSUME NEW id \in Ids, NEW a \in Amounts, NEW p \in Pris, Repri(id, a, p)
        PROVE UniqueIds'
    <2>1. CASE \E w : reservations' = (reservations \ Held(id))
                         \cup {[id |-> id, amount |-> w, pri |-> Clamp(p)]}
      <3>1. PICK w : reservations' = (reservations \ Held(id))
                       \cup {[id |-> id, amount |-> w, pri |-> Clamp(p)]}
        BY <2>1
      <3> DEFINE r == [id |-> id, amount |-> w, pri |-> Clamp(p)]
      <3>2. r.id = id /\ reservations' = (reservations \ Held(id)) \cup {r}
        BY <3>1
      <3> HIDE DEF r
      <3>3. QED
        BY <3>2, GrantKeepsUnique
    <2>2. CASE reservations' = reservations
      BY <2>2, SubsetKeepsUnique
    <2>3. QED
      BY <1>2, <2>1, <2>2 DEF Repri, Grant
  <1>3. ASSUME NEW id \in Ids, Release(id) PROVE UniqueIds'
    BY <1>3, SubsetKeepsUnique DEF Release
  <1>4. ASSUME NEW r \in reservations, HardRevoke(r) PROVE UniqueIds'
    BY <1>4, SubsetKeepsUnique DEF HardRevoke
  <1>5. ASSUME Restart PROVE UniqueIds'
    BY <1>5 DEF Restart, FreshState, UniqueIds
  <1>6. ASSUME reservations' = reservations PROVE UniqueIds'
    BY <1>6, SubsetKeepsUnique
  <1>7. QED
    BY <1>1, <1>2, <1>3, <1>4, <1>5, <1>6
       DEF Next, RevokeAll, SetBudget, SetNightBudget, SetBypass, Read, HardDone,
           Tick, DuskOrDawn, vars

\* No id ever holds two reservations, whichever of reserve, repri, bypass
\* mode, the hard-limit loop or a restart made the list what it is.
THEOREM IdsStayUnique == Spec => []UniqueIds
  <1>1. Init => UniqueIds
    BY DEF Init, FreshState, UniqueIds
  <1>2. UniqueIds /\ [Next]_vars => UniqueIds'
    BY UniqueStep
  <1>3. QED
    BY <1>1, <1>2, PTL DEF Spec

-----------------------------------------------------------------------------
(* The budget, on an installation that has no night budget.                *)

\* The available power stays what the budget leaves, through every handler
\* that adjusts the total and every trigger that recomputes the rest.
LEMMA AvailStep ==
  ASSUME NightBudgets = {0}, TypeOK, AvailTracksBudget, [Next]_vars
  PROVE  AvailTracksBudget'
  <1>0. night_budget = 0
    BY DEF TypeOK
  <1>1. ASSUME NEW id \in Ids, NEW a \in Amounts, NEW p \in Pris, Reserve(id, a, p)
        PROVE AvailTracksBudget'
    <2>0. budget' = budget
      BY <1>1 DEF Reserve, Answer, configVars
    <2>1. CASE Grant(id, a, Clamp(p))
      BY <2>0, <2>1 DEF Grant, AvailOn, AvailTracksBudget
    <2>2. CASE DropAndDeny(id)
      <3>1. Held(id) = {} => reserved' = reserved /\ avail' = avail
        BY <2>2 DEF DropAndDeny, HeldAmount, TypeOK
      <3>2. Held(id) # {} => avail' = AvailOn(reserved', avail)
        BY <2>2 DEF DropAndDeny
      <3>3. QED
        BY <2>0, <3>1, <3>2 DEF AvailOn, AvailTracksBudget
    <2>3. CASE UNCHANGED <<reserved, avail>>
      BY <2>0, <2>3 DEF AvailTracksBudget
    <2>4. QED
      BY <1>1, <2>1, <2>2, <2>3 DEF Reserve
  <1>2. ASSUME NEW id \in Ids, NEW a \in Amounts, NEW p \in Pris, Repri(id, a, p)
        PROVE AvailTracksBudget'
    <2>0. budget' = budget
      BY <1>2 DEF Repri, Answer, configVars
    <2>1. CASE Grant(id, a, Clamp(p))
      BY <2>0, <2>1 DEF Grant, AvailOn, AvailTracksBudget
    <2>2. CASE UNCHANGED <<reserved, avail>>
      BY <2>0, <2>2 DEF AvailTracksBudget
    <2>3. QED
      BY <1>2, <2>1, <2>2 DEF Repri
  <1>3. ASSUME NEW id \in Ids, Release(id) PROVE AvailTracksBudget'
    BY <1>3 DEF Release, Answer, configVars, AvailOn, AvailTracksBudget
  <1>4. ASSUME NEW b \in Budgets, SetBudget(b) PROVE AvailTracksBudget'
    BY <1>4 DEF SetBudget, AvailTracksBudget
  <1>5. ASSUME NEW b \in NightBudgets, SetNightBudget(b) PROVE AvailTracksBudget'
    BY <1>0, <1>5 DEF SetNightBudget
  <1>6. ASSUME NEW pw \in Powers, NEW b \in BatteryPowers, NEW low \in BOOLEAN,
               Read(pw, b, low)
        PROVE AvailTracksBudget'
    <2>1. ReadBudget = budget
      BY <1>0 DEF ReadBudget
    <2>2. budget' = budget /\ reserved' = reserved
      BY <1>6 DEF Read, configVars
    <2>3. budget # 0 => avail' = IF budget - reserved = 0 THEN -1 ELSE budget - reserved
      BY <1>6, <2>1 DEF Read
    <2>4. budget \in Int /\ reserved \in Int
      BY BudgetsAssumption DEF TypeOK
    <2>5. QED
      BY <2>2, <2>3, <2>4 DEF AvailTracksBudget
  <1>7. ASSUME NEW r \in reservations, HardRevoke(r) PROVE AvailTracksBudget'
    BY <1>7 DEF HardRevoke, configVars, AvailOn, AvailTracksBudget
  <1>8. ASSUME Restart PROVE AvailTracksBudget'
    <2>1. budget \in Int
      BY BudgetsAssumption DEF TypeOK
    <2>2. QED
      BY <1>8, <2>1 DEF Restart, FreshState, configVars, AvailTracksBudget
  <1>9. ASSUME UNCHANGED <<budget, reserved, avail>> PROVE AvailTracksBudget'
    BY <1>9 DEF AvailTracksBudget
  <1>10. QED
    BY <1>1, <1>2, <1>3, <1>4, <1>5, <1>6, <1>7, <1>8, <1>9
       DEF Next, RevokeAll, Answer, SetBypass, HardDone, Tick, DuskOrDawn,
           configVars, vars

\* Whatever reserve grants without bypass or a priority-1 override fits in
\* what the budget leaves once the id's old reservation is given back.
LEMMA GrantFits ==
  ASSUME NightBudgets = {0}, TypeOK, AvailTracksBudget,
         NEW id \in Ids, NEW a \in Amounts, NEW p \in Pris,
         PlainGrant(id, a, p), EffectiveBudget # 0
  PROVE  reserved' <= EffectiveBudget
  <1>1. EffectiveBudget = budget
    BY DEF TypeOK, EffectiveBudget, IsNight
  <1>2. Admitted(id, a, Clamp(p)) /\ Grant(id, a, Clamp(p))
    BY DEF PlainGrant, Reserve, Answer
  <1>3. /\ a \in Nat \ {0} /\ budget \in Int /\ reserved \in Int /\ avail \in Int
        /\ HeldAmount(id) \in Nat
    <2>1. HeldAmount(id) \in Nat
      BY HeldFacts
    <2>2. a \in Nat \ {0}
      BY AmountsAssumption
    <2>3. budget \in Int /\ reserved \in Int /\ avail \in Int
      BY BudgetsAssumption DEF TypeOK
    <2>4. QED
      BY <2>1, <2>2, <2>3
  <1>4. reserved' = reserved - HeldAmount(id) + a
    BY <1>2 DEF Grant
  <1>5. CASE Held(id) = {}
    <2>1. HeldAmount(id) = 0 /\ avail >= a
      BY <1>2, <1>5 DEF Admitted, PlainGrant, HeldAmount
    <2>2. avail = budget - reserved
      BY <1>1, <1>3, <2>1 DEF AvailTracksBudget
    <2>3. QED
      BY <1>1, <1>3, <1>4, <2>1, <2>2
  <1>6. CASE Held(id) # {}
    <2>1. AvailOn(reserved - HeldAmount(id), avail) >= a
      BY <1>2, <1>6 DEF Admitted, PlainGrant
    <2>2. budget - (reserved - HeldAmount(id)) >= a
      BY <1>1, <2>1 DEF AvailOn
    <2>3. QED
      BY <1>1, <1>3, <1>4, <2>2
  <1>7. QED
    BY <1>5, <1>6

\* On an installation without a night budget, pa.avail is the rest of the
\* budget in every reachable state.
THEOREM AvailIsRest ==
  ASSUME NightBudgets = {0}
  PROVE  Spec => []AvailTracksBudget
  <1>1. Init => AvailTracksBudget
    BY BudgetsAssumption DEF Init, FreshState, AvailTracksBudget
  <1>2. TypeOK /\ AvailTracksBudget /\ [Next]_vars => AvailTracksBudget'
    BY AvailStep
  <1>3. QED
    BY <1>1, <1>2, TypeCorrect, PTL DEF Spec

\* On an installation without a night budget, no reservation granted on the
\* strength of pa.avail takes the total past the budget.
THEOREM BudgetIsKept ==
  ASSUME NightBudgets = {0}
  PROVE  Spec => WithinBudget
  <1>1. ASSUME TypeOK, AvailTracksBudget
        PROVE  [\A id \in Ids, a \in Amounts, p \in Pris :
                  PlainGrant(id, a, p) /\ EffectiveBudget # 0
                    => reserved' <= EffectiveBudget]_vars
    BY <1>1, GrantFits
  <1>2. QED
    BY <1>1, TypeCorrect, AvailIsRest, PTL DEF WithinBudget

-----------------------------------------------------------------------------
(* Nobody loses a reservation without being told.                          *)

\* A reservation leaves the list because its own holder asked, because the
\* agent restarted, or into the queue of immediate revocations.
THEOREM LossIsAnnounced == Spec => NothingLostSilently
  <1> DEFINE Announced ==
        \A r \in reservations :
          (\A s \in reservations' : s.id # r.id) =>
            \/ Release(r.id)
            \/ \E a \in Amounts, p \in Pris : Reserve(r.id, a, p)
            \/ Restart
            \/ \E i \in 1..Len(revokes') : revokes'[i] = [res |-> r, immediate |-> TRUE]
  <1>1. ASSUME TypeOK, [Next]_vars PROVE [Announced]_vars
    <2> SUFFICES ASSUME Next, NEW r \in reservations,
                        \A s \in reservations' : s.id # r.id
                 PROVE  \/ Release(r.id)
                        \/ \E a \in Amounts, p \in Pris : Reserve(r.id, a, p)
                        \/ Restart
                        \/ \E i \in 1..Len(revokes') :
                             revokes'[i] = [res |-> r, immediate |-> TRUE]
      BY <1>1
    <2>0. r \notin reservations'
      OBVIOUS
    <2>1. ASSUME NEW id \in Ids, NEW a \in Amounts, NEW p \in Pris, Reserve(id, a, p)
          PROVE r.id = id
      BY <2>0, <2>1 DEF Reserve, Grant, DropAndDeny, Held
    <2>2. ASSUME NEW id \in Ids, Release(id) PROVE r.id = id
      BY <2>0, <2>2 DEF Release, Held
    <2>3. ASSUME NEW id \in Ids, NEW a \in Amounts, NEW p \in Pris, Repri(id, a, p)
          PROVE FALSE
      <3>1. r.id # id => r \in reservations'
        BY <2>3 DEF Repri, Grant, Held
      <3>2. CASE reservations' = reservations
        BY <2>0, <3>2
      <3>3. CASE \E w : [id |-> id, amount |-> w, pri |-> Clamp(p)] \in reservations'
        <4>1. PICK w : [id |-> id, amount |-> w, pri |-> Clamp(p)] \in reservations'
          BY <3>3
        <4>2. r.id # id
          BY <4>1
        <4>3. QED
          BY <2>0, <3>1, <4>2
      <3>4. QED
        <4>1. CASE Grant(id, a, Clamp(p))
          BY <3>3, <4>1 DEF Grant
        <4>2. CASE [id |-> id, amount |-> HeldAmount(id), pri |-> Clamp(p)]
                     \in reservations'
          BY <3>3, <4>2
        <4>3. QED
          BY <2>3, <3>2, <4>1, <4>2 DEF Repri
    <2>4. ASSUME NEW q \in reservations, HardRevoke(q)
          PROVE  \E i \in 1..Len(revokes') :
                   revokes'[i] = [res |-> r, immediate |-> TRUE]
      <3>1. q = r
        BY <2>0, <2>4 DEF HardRevoke
      <3>2. revokes \in Seq(Revoke) /\ [res |-> r, immediate |-> TRUE] \in Revoke
        BY <1>1 DEF TypeOK, Revoke
      <3>3. revokes' = Append(revokes, [res |-> r, immediate |-> TRUE])
        BY <2>4, <3>1 DEF HardRevoke
      <3>4. /\ Len(revokes') = Len(revokes) + 1
            /\ revokes'[Len(revokes) + 1] = [res |-> r, immediate |-> TRUE]
            /\ Len(revokes) + 1 \in 1..Len(revokes')
        BY <3>2, <3>3
      <3>5. QED
        BY <3>4
    <2>5. ASSUME reservations' = reservations PROVE FALSE
      BY <2>0, <2>5
    <2>6. QED
      BY <2>1, <2>2, <2>3, <2>4, <2>5
         DEF Next, RevokeAll, SetBudget, SetNightBudget, SetBypass, Read, HardDone,
             Tick, DuskOrDawn
  <1>2. QED
    BY <1>1, TypeCorrect, PTL DEF Spec, NothingLostSilently

\* A set of naturals has a least element: induction, where no theorem of the
\* library can be cited that takes an operator.
LEMMA LeastNat ==
  ASSUME NEW T \in SUBSET Nat, T # {}
  PROVE  \E x \in T : \A y \in T : x <= y
<1> DEFINE R == {p \in Nat \X Nat : p[1] < p[2]}
<1>1. OpToRel(<, Nat) = R
  BY DEF OpToRel
<1>2. IsWellFoundedOn(R, Nat)
  BY <1>1, NatLessThanWellFounded
<1>3. \E x \in T : \A y \in T : ~ (<<y, x>> \in R)
  <2> HIDE DEF R
  <2> QED BY <1>2, WFMin
<1>4. ASSUME NEW x \in T, NEW y \in T, ~ (<<y, x>> \in R)
      PROVE  x <= y
  <2>1. x \in Nat /\ y \in Nat
    OBVIOUS
  <2>2. ~ (y < x)
    BY <1>4, <2>1
  <2> QED BY <2>1, <2>2
<1> QED BY <1>3, <1>4

-----------------------------------------------------------------------------
(* The total of a finite set of reservations.                              *)

Total(S) == MapThenSumSet(LAMBDA r : r.amount, S)

Chosen(s) == CHOOSE x \in s : TRUE

\* t sums up the subsets of S, taking out a chosen element at a time
Sums(t, S) ==
  t = [s \in SUBSET S |-> IF s = {} THEN 0
                          ELSE Chosen(s).amount + t[s \ {Chosen(s)}]]

LEMMA TotalIs ==
  ASSUME NEW S
  PROVE  Total(S) = (CHOOSE t : Sums(t, S))[S]
BY DEF Total, MapThenSumSet, MapThenFoldSet, Sums, Chosen

LEMMA ChosenIn == ASSUME NEW s, s # {} PROVE Chosen(s) \in s
  BY DEF Chosen

\* A subset of a finite set, and what taking an element out does to it
LEMMA Smaller ==
  ASSUME NEW S, IsFiniteSet(S), NEW s \in SUBSET S
  PROVE  /\ Cardinality(s) \in Nat /\ Cardinality(s) <= Cardinality(S)
         /\ Cardinality(S) \in Nat /\ IsFiniteSet(s)
         /\ \A x \in s : /\ s \ {x} \in SUBSET S /\ IsFiniteSet(s \ {x})
                         /\ Cardinality(s \ {x}) = Cardinality(s) - 1
                         /\ Cardinality(s \ {x}) \in Nat
<1>1. IsFiniteSet(s) /\ Cardinality(s) <= Cardinality(S)
  BY FS_Subset
<1>2. Cardinality(s) \in Nat /\ Cardinality(S) \in Nat
  BY <1>1, FS_CardinalityType
<1>3. ASSUME NEW x \in s
      PROVE  /\ IsFiniteSet(s \ {x}) /\ Cardinality(s \ {x}) = Cardinality(s) - 1
             /\ Cardinality(s \ {x}) \in Nat
  <2>1. IsFiniteSet(s \ {x}) /\ Cardinality(s \ {x}) = Cardinality(s) - 1
    BY <1>1, FS_RemoveElement
  <2> QED BY <2>1, FS_CardinalityType
<1> QED BY <1>1, <1>2, <1>3

LEMMA SumsExist ==
  ASSUME NEW S, IsFiniteSet(S)
  PROVE  \E t : Sums(t, S)
<1> DEFINE Small(k) == {s \in SUBSET S : Cardinality(s) <= k}
           Layer(t, k) == t = [s \in Small(k) |->
                                 IF s = {} THEN 0
                                 ELSE Chosen(s).amount + t[s \ {Chosen(s)}]]
           T == {k \in Nat : ~ \E t : Layer(t, k)}
<1>1. ASSUME NEW k \in T, \A j \in T : k <= j
      PROVE  FALSE
  <2>1. CASE k = 0
    <3> DEFINE t == [s \in Small(0) |-> 0]
    <3>1. \A s \in Small(0) : s = {}
      <4>1. \A s \in Small(0) : Cardinality(s) \in Nat /\ Cardinality(s) <= 0 /\ IsFiniteSet(s)
        BY Smaller
      <4>2. \A s \in Small(0) : Cardinality(s) = 0
        BY <4>1
      <4> QED BY <4>1, <4>2, FS_EmptySet
    <3>2. Layer(t, 0)
      BY <3>1
    <3> QED BY <2>1, <3>2
  <2>2. CASE k # 0
    <3>1. k - 1 \in Nat /\ k - 1 \notin T
      <4>1. k \in Nat /\ k - 1 \in Nat
        BY <2>2
      <4> HIDE DEF T
      <4> QED BY <1>1, <4>1
    <3>2. PICK u : Layer(u, k - 1)
      BY <3>1
    <3> DEFINE val(s) == IF s = {} THEN 0 ELSE Chosen(s).amount + u[s \ {Chosen(s)}]
               t == [s \in Small(k) |-> val(s)]
    <3>3. \A s \in Small(k - 1) : s \in Small(k) /\ u[s] = val(s)
      <4>1. \A s \in Small(k - 1) : Cardinality(s) \in Nat /\ k \in Nat
        BY Smaller
      <4>2. Small(k - 1) \subseteq Small(k)
        BY <4>1
      <4>3. \A s \in Small(k - 1) : u[s] = val(s)
        <5> HIDE DEF Small
        <5> QED BY <3>2
      <4> QED BY <4>2, <4>3
    <3>4. ASSUME NEW s \in Small(k), s # {}
          PROVE  s \ {Chosen(s)} \in Small(k - 1)
      <4>1. Chosen(s) \in s
        BY <3>4, ChosenIn
      <4>2. /\ s \ {Chosen(s)} \in SUBSET S /\ Cardinality(s) \in Nat
            /\ Cardinality(s \ {Chosen(s)}) = Cardinality(s) - 1
        BY <4>1, Smaller
      <4>3. Cardinality(s) <= k
        OBVIOUS
      <4> QED BY <3>1, <4>2, <4>3
    <3> HIDE DEF Small, val
    <3>5. \A s \in Small(k) : s # {} => t[s \ {Chosen(s)}] = u[s \ {Chosen(s)}]
      BY <3>3, <3>4
    <3>6. \A s \in Small(k) :
            val(s) = IF s = {} THEN 0 ELSE Chosen(s).amount + t[s \ {Chosen(s)}]
      <4> HIDE DEF t
      <4> QED BY <3>5 DEF val
    <3>7. Layer(t, k)
      <4>1. t = [s \in Small(k) |-> val(s)]
        OBVIOUS
      <4> HIDE DEF t
      <4> QED BY <3>6, <4>1
    <3> HIDE DEF t, Layer
    <3>8. \E r : Layer(r, k)
      BY <3>7
    <3> QED BY <3>8
  <2> QED BY <2>1, <2>2
<1>2. T = {}
  <2>1. T \in SUBSET Nat
    OBVIOUS
  <2> HIDE DEF T
  <2> QED BY <1>1, <2>1, LeastNat
<1>3. Cardinality(S) \in Nat /\ Small(Cardinality(S)) = SUBSET S
  BY Smaller
<1>4. PICK t : Layer(t, Cardinality(S))
  BY <1>2, <1>3
<1>5. Sums(t, S)
  BY <1>3, <1>4 DEF Sums
<1> QED BY <1>5

LEMMA SumsStep ==
  ASSUME NEW S, NEW t, Sums(t, S)
  PROVE  /\ t[{}] = 0
         /\ \A s \in SUBSET S : s # {} => t[s] = Chosen(s).amount + t[s \ {Chosen(s)}]
<1> DEFINE val(s) == IF s = {} THEN 0 ELSE Chosen(s).amount + t[s \ {Chosen(s)}]
<1>1. t = [s \in SUBSET S |-> val(s)]
  BY DEF Sums
<1> HIDE DEF val
<1>2. \A s \in SUBSET S : t[s] = val(s)
  BY <1>1
<1>3. {} \in SUBSET S
  OBVIOUS
<1> QED BY <1>2, <1>3 DEF val

\* Sums over a set and over a part of it agree.
LEMMA SumsAgree ==
  ASSUME NEW S, IsFiniteSet(S), NEW R \in SUBSET S,
         NEW t, Sums(t, S), NEW u, Sums(u, R)
  PROVE  t[R] = u[R]
<1> DEFINE T == {k \in Nat : \E s \in SUBSET R : Cardinality(s) = k /\ t[s] # u[s]}
<1>a. /\ u[{}] = 0
      /\ \A s \in SUBSET R : s # {} => u[s] = Chosen(s).amount + u[s \ {Chosen(s)}]
  BY SumsStep
<1>b. /\ t[{}] = 0
      /\ \A s \in SUBSET S : s # {} => t[s] = Chosen(s).amount + t[s \ {Chosen(s)}]
  BY SumsStep
<1>1. ASSUME NEW k \in T, \A j \in T : k <= j
      PROVE  FALSE
  <2>1. PICK s \in SUBSET R : Cardinality(s) = k /\ t[s] # u[s]
    OBVIOUS
  <2>2. s # {} /\ s \in SUBSET S
    BY <2>1, <1>a, <1>b
  <2>3. Chosen(s) \in s
    BY <2>2, ChosenIn
  <2> DEFINE q == s \ {Chosen(s)}
  <2>4. q \in SUBSET R /\ Cardinality(q) = k - 1 /\ k - 1 \in Nat /\ k \in Nat
    <3>1. /\ Cardinality(s) \in Nat /\ Cardinality(s \ {Chosen(s)}) = Cardinality(s) - 1
          /\ Cardinality(s \ {Chosen(s)}) \in Nat
      BY <2>2, <2>3, Smaller
    <3> QED BY <2>1, <3>1
  <2>5. t[q] = u[q]
    <3>1. k - 1 \notin T
      BY <1>1, <2>4
    <3> HIDE DEF q
    <3> QED BY <2>4, <3>1
  <2>6. t[s] = Chosen(s).amount + t[q] /\ u[s] = Chosen(s).amount + u[q]
    <3>1. t[s] = Chosen(s).amount + t[s \ {Chosen(s)}]
      BY <2>2, <1>b
    <3>2. u[s] = Chosen(s).amount + u[s \ {Chosen(s)}]
      BY <2>2, <1>a
    <3> QED BY <3>1, <3>2
  <2> QED BY <2>1, <2>5, <2>6
<1>2. T = {}
  <2>1. T \in SUBSET Nat
    OBVIOUS
  <2> HIDE DEF T
  <2> QED BY <1>1, <2>1, LeastNat
<1>3. Cardinality(R) \in Nat
  BY Smaller
<1> QED BY <1>2, <1>3

LEMMA TotalStep ==
  ASSUME NEW S, IsFiniteSet(S)
  PROVE  /\ S = {} => Total(S) = 0
         /\ S # {} => /\ Chosen(S) \in S
                      /\ Total(S) = Chosen(S).amount + Total(S \ {Chosen(S)})
<1> DEFINE t == CHOOSE f : Sums(f, S)
           R == S \ {Chosen(S)}
           u == CHOOSE f : Sums(f, R)
<1>1. Sums(t, S) /\ Total(S) = t[S]
  BY SumsExist, TotalIs
<1>2. R \in SUBSET S /\ IsFiniteSet(R)
  BY FS_Subset
<1>3. Sums(u, R) /\ Total(R) = u[R]
  <2> HIDE DEF R
  <2> QED BY <1>2, SumsExist, TotalIs
<1> HIDE DEF t, u
<1>4. t[R] = u[R]
  <2> HIDE DEF R
  <2> QED BY <1>1, <1>2, <1>3, SumsAgree
<1>5. S = {} => t[S] = 0
  BY <1>1, SumsStep
<1>6. S # {} => t[S] = Chosen(S).amount + t[R]
  <2>1. \A s \in SUBSET S : s # {} => t[s] = Chosen(s).amount + t[s \ {Chosen(s)}]
    BY <1>1, SumsStep
  <2>2. S # {} => t[S] = Chosen(S).amount + t[S \ {Chosen(S)}]
    BY <2>1
  <2> QED BY <2>2
<1>7. S # {} => Chosen(S) \in S
  BY ChosenIn
<1> QED BY <1>1, <1>3, <1>4, <1>5, <1>6, <1>7

\* The total is a number, and each of the reservations counts in it once.
LEMMA TotalRemove ==
  ASSUME NEW S \in SUBSET Reservation, IsFiniteSet(S)
  PROVE  /\ Total(S) \in Int
         /\ \A x \in S : Total(S \ {x}) = Total(S) - x.amount
<1> DEFINE Good(s) == /\ Total(s) \in Int
                      /\ \A x \in s : Total(s \ {x}) = Total(s) - x.amount
           T == {k \in Nat : \E s \in SUBSET S : Cardinality(s) = k /\ ~Good(s)}
<1>a. \A x \in S : x.amount \in Int
  <2>1. \A r \in Reservation : r.amount \in Amounts
    BY DEF Reservation
  <2>2. \A w \in Amounts : w \in Int
    BY AmountsAssumption
  <2>3. \A r \in Reservation : r.amount \in Int
    BY <2>1, <2>2
  <2> QED BY <2>3
<1>1. ASSUME NEW k \in T, \A j \in T : k <= j
      PROVE  FALSE
  <2>1. PICK s \in SUBSET S : Cardinality(s) = k /\ ~Good(s)
    OBVIOUS
  <2> HIDE DEF Good
  <2>2. IsFiniteSet(s)
    BY Smaller
  <2>3. ASSUME NEW x \in s PROVE Good(s \ {x})
    <3>1. /\ s \ {x} \in SUBSET S /\ k \in Nat
          /\ Cardinality(s \ {x}) = k - 1 /\ k - 1 \in Nat
      <4>1. /\ s \ {x} \in SUBSET S /\ Cardinality(s) \in Nat
            /\ Cardinality(s \ {x}) = Cardinality(s) - 1 /\ Cardinality(s \ {x}) \in Nat
        BY Smaller
      <4> QED BY <2>1, <4>1
    <3>2. k - 1 \notin T
      BY <1>1, <3>1
    <3> QED BY <3>1, <3>2
  <2>4. CASE s = {}
    <3>1. Total(s) = 0
      BY <2>2, <2>4, TotalStep
    <3> QED BY <2>1, <2>4, <3>1 DEF Good
  <2>5. CASE s # {}
    <3> DEFINE c == Chosen(s)
    <3>1. c \in s /\ Total(s) = c.amount + Total(s \ {c})
      BY <2>2, <2>5, TotalStep
    <3> HIDE DEF c
    <3>2. Total(s \ {c}) \in Int /\ c.amount \in Int
      BY <1>a, <2>1, <2>3, <3>1 DEF Good
    <3>3. Total(s) \in Int /\ Total(s \ {c}) = Total(s) - c.amount
      BY <3>1, <3>2
    <3>4. ASSUME NEW x \in s, x # c
          PROVE  Total(s \ {x}) = Total(s) - x.amount
      <4>1. x \in s \ {c} /\ c \in s \ {x} /\ x.amount \in Int
        BY <1>a, <3>1, <3>4
      <4>2. Total((s \ {c}) \ {x}) = Total(s \ {c}) - x.amount
        BY <2>3, <3>1, <4>1 DEF Good
      <4>3. /\ Total((s \ {x}) \ {c}) = Total(s \ {x}) - c.amount
            /\ Total(s \ {x}) \in Int
        BY <2>3, <4>1 DEF Good
      <4>4. (s \ {x}) \ {c} = (s \ {c}) \ {x}
        OBVIOUS
      <4>5. Total(s \ {x}) - c.amount = Total(s \ {c}) - x.amount
        BY <4>2, <4>3, <4>4
      <4>6. x.amount \in Int
        BY <4>1
      <4> DEFINE a == Total(s \ {x})
                 b == Total(s \ {c})
                 w == c.amount
                 v == x.amount
                 t == Total(s)
      <4>7. a \in Int /\ b \in Int /\ w \in Int /\ v \in Int /\ t = w + b /\ a - w = b - v
        BY <3>1, <3>2, <4>3, <4>5, <4>6
      <4> HIDE DEF a, b, w, v, t
      <4>8. a = t - v
        BY <4>7
      <4> QED BY <4>8 DEF a, v, t
    <3> QED BY <2>1, <3>3, <3>4 DEF Good
  <2> QED BY <2>4, <2>5
<1>2. T = {}
  <2>1. T \in SUBSET Nat
    OBVIOUS
  <2> HIDE DEF T
  <2> QED BY <1>1, <2>1, LeastNat
<1>3. Cardinality(S) \in Nat
  BY Smaller
<1>4. Good(S)
  <2> HIDE DEF Good
  <2> QED BY <1>2, <1>3
<1> QED BY <1>4

\* One more reservation adds its amount to the total.
LEMMA TotalAdd ==
  ASSUME NEW S \in SUBSET Reservation, IsFiniteSet(S), NEW r \in Reservation, r \notin S
  PROVE  Total(S \cup {r}) = Total(S) + r.amount
<1>1. S \cup {r} \in SUBSET Reservation /\ IsFiniteSet(S \cup {r})
  BY FS_AddElement
<1>2. Total((S \cup {r}) \ {r}) = Total(S \cup {r}) - r.amount /\ Total(S \cup {r}) \in Int
  BY <1>1, TotalRemove
<1>3. (S \cup {r}) \ {r} = S
  OBVIOUS
<1>4. r.amount \in Int
  <2>1. r.amount \in Amounts
    BY DEF Reservation
  <2>2. \A w \in Amounts : w \in Int
    BY AmountsAssumption
  <2> QED BY <2>1, <2>2
<1>5. Total(S) = Total(S \cup {r}) - r.amount
  BY <1>2, <1>3
<1> QED BY <1>2, <1>4, <1>5

\* What an id holds counts once, as its ids are unique.
LEMMA TotalDrop ==
  ASSUME TypeOK, UniqueIds, NEW id \in Ids
  PROVE  /\ reservations \ Held(id) \in SUBSET Reservation
         /\ IsFiniteSet(reservations \ Held(id))
         /\ Total(reservations \ Held(id)) = Total(reservations) - HeldAmount(id)
         /\ Total(reservations) \in Int /\ HeldAmount(id) \in Nat
         /\ Held(id) # {} => HeldAmount(id) \in Amounts
<1>1. /\ reservations \in SUBSET Reservation /\ IsFiniteSet(reservations)
      /\ reservations \ Held(id) \in SUBSET Reservation
  BY DEF TypeOK
<1>2. IsFiniteSet(reservations \ Held(id)) /\ HeldAmount(id) \in Nat
  BY HeldFacts
<1>3. Total(reservations) \in Int
  BY <1>1, TotalRemove
<1>4. CASE Held(id) = {}
  <2>1. reservations \ Held(id) = reservations /\ HeldAmount(id) = 0
    BY <1>4 DEF HeldAmount
  <2> QED BY <1>1, <1>2, <1>3, <1>4, <2>1
<1>5. CASE Held(id) # {}
  <2> DEFINE r == CHOOSE x \in Held(id) : TRUE
  <2>1. r \in Held(id) /\ HeldAmount(id) = r.amount
    BY <1>5 DEF HeldAmount
  <2> HIDE DEF r
  <2>2. r \in reservations /\ Held(id) = {r}
    BY <2>1 DEF Held, UniqueIds
  <2>3. Total(reservations \ {r}) = Total(reservations) - r.amount
    BY <1>1, <2>2, TotalRemove
  <2>4. r.amount \in Amounts
    BY <1>1, <2>2 DEF Reservation
  <2> QED BY <1>1, <1>2, <1>3, <2>1, <2>2, <2>3, <2>4
<1> QED BY <1>4, <1>5

\* Replacing what an id holds by a reservation of w watts
LEMMA TotalReplace ==
  ASSUME TypeOK, UniqueIds, NEW id \in Ids, NEW w \in Amounts, NEW pri \in 1..100,
         reservations' = (reservations \ Held(id))
                           \cup {[id |-> id, amount |-> w, pri |-> pri]}
  PROVE  Total(reservations') = Total(reservations) - HeldAmount(id) + w
<1> DEFINE r == [id |-> id, amount |-> w, pri |-> pri]
           S == reservations \ Held(id)
<1>1. r \in Reservation /\ r.amount = w /\ r.id = id
  BY DEF Reservation
<1>2. r \notin S
  BY <1>1 DEF Held, TypeOK, Reservation
<1>3. /\ S \in SUBSET Reservation /\ IsFiniteSet(S)
      /\ Total(S) = Total(reservations) - HeldAmount(id)
  BY TotalDrop
<1>4. reservations' = S \cup {r}
  OBVIOUS
<1> HIDE DEF r, S
<1>5. Total(reservations') = Total(S) + w
  BY <1>1, <1>2, <1>3, <1>4, TotalAdd
<1> QED BY <1>3, <1>5

LEMMA AccountingStep ==
  ASSUME TypeOK, UniqueIds, reserved = Total(reservations), [Next]_vars
  PROVE  reserved' = Total(reservations')
<1>a. reserved \in Int /\ \A w \in Amounts : w \in Int
  BY AmountsAssumption DEF TypeOK
<1>1. ASSUME NEW id \in Ids, NEW a \in Amounts, NEW pri \in 1..100, Grant(id, a, pri)
      PROVE  reserved' = Total(reservations')
  <2>1. /\ reserved' = reserved - HeldAmount(id) + a
        /\ reservations' = (reservations \ Held(id))
                             \cup {[id |-> id, amount |-> a, pri |-> pri]}
    BY <1>1 DEF Grant
  <2> QED BY <2>1, TotalReplace
<1>2. ASSUME NEW id \in Ids, reservations' = reservations \ Held(id),
             reserved' = reserved - HeldAmount(id)
      PROVE  reserved' = Total(reservations')
  BY <1>2, TotalDrop
<1>3. ASSUME NEW id \in Ids, NEW a \in Amounts, NEW p \in Pris, Reserve(id, a, p)
      PROVE  reserved' = Total(reservations')
  <2>1. Clamp(p) \in 1..100
    BY ClampRange, PrisAssumption
  <2> QED BY <1>1, <1>2, <1>3, <2>1 DEF Reserve, DropAndDeny
<1>4. ASSUME NEW id \in Ids, NEW a \in Amounts, NEW p \in Pris, Repri(id, a, p)
      PROVE  reserved' = Total(reservations')
  <2>1. Clamp(p) \in 1..100
    BY ClampRange, PrisAssumption
  <2>2. CASE Held(id) # {}
    <3>1. /\ reservations' = (reservations \ Held(id))
               \cup {[id |-> id, amount |-> HeldAmount(id), pri |-> Clamp(p)]}
          /\ reserved' = reserved
      BY <1>4, <2>2 DEF Repri
    <3>2. HeldAmount(id) \in Amounts /\ HeldAmount(id) \in Nat
      BY <2>2, TotalDrop
    <3>3. Total(reservations') = Total(reservations) - HeldAmount(id) + HeldAmount(id)
      BY <2>1, <3>1, <3>2, TotalReplace
    <3> QED BY <1>a, <3>1, <3>2, <3>3
  <2>3. CASE Held(id) = {}
    BY <1>1, <1>4, <2>1, <2>3 DEF Repri
  <2> QED BY <2>2, <2>3
<1>5. ASSUME NEW id \in Ids, Release(id)
      PROVE  reserved' = Total(reservations')
  BY <1>2, <1>5 DEF Release
<1>6. ASSUME NEW r \in reservations, HardRevoke(r)
      PROVE  reserved' = Total(reservations')
  <2>1. reservations' = reservations \ {r} /\ reserved' = reserved - r.amount
    BY <1>6 DEF HardRevoke
  <2>2. reservations \in SUBSET Reservation /\ IsFiniteSet(reservations)
    BY DEF TypeOK
  <2>3. Total(reservations \ {r}) = Total(reservations) - r.amount
    BY <2>2, TotalRemove
  <2> QED BY <2>1, <2>3
<1>7. ASSUME Restart
      PROVE  reserved' = Total(reservations')
  <2>1. Total({}) = 0
    BY FS_EmptySet, TotalStep
  <2> QED BY <1>7, <2>1 DEF Restart, FreshState
<1>8. ASSUME reservations' = reservations, reserved' = reserved
      PROVE  reserved' = Total(reservations')
  BY <1>8
<1> QED
  BY <1>3, <1>4, <1>5, <1>6, <1>7, <1>8
     DEF Next, RevokeAll, SetBudget, SetNightBudget, SetBypass, Read, HardDone,
         Tick, DuskOrDawn, vars

\* pa.reserved, which every handler adjusts and none recomputes, is the total of
\* the reservations in every reachable state (pa_reserve, pa_release, pa_repri,
\* read_main), for any consumers and amounts.
THEOREM AccountsBalance == Spec => []Accounting
<1> DEFINE Balanced == reserved = Total(reservations)
<1>1. Init => Balanced
  <2>1. Total({}) = 0
    BY FS_EmptySet, TotalStep
  <2> QED BY <2>1 DEF Init, FreshState
<1>2. TypeOK /\ UniqueIds /\ Balanced /\ [Next]_vars => Balanced'
  BY AccountingStep
<1>3. Balanced => Accounting
  BY DEF Accounting, Total
<1> QED
  BY <1>1, <1>2, <1>3, TypeCorrect, IdsStayUnique, PTL DEF Spec

-----------------------------------------------------------------------------
(* Priority 1.                                                             *)

\* While the loop of the hard limit runs, pa.mode is what the clock says.
HardMode == phase = "hard" => mode = (IF IsNight THEN "night" ELSE "day")

LEMMA HardModeStep == HardMode /\ [Next]_vars => HardMode'
<1> SUFFICES ASSUME HardMode, [Next]_vars
             PROVE  HardMode'
  OBVIOUS
<1> USE DEF HardMode, IsNight, configVars, sensorVars
<1>1. ASSUME NEW p \in Powers, NEW b \in BatteryPowers, NEW low \in BOOLEAN, Read(p, b, low)
      PROVE  HardMode'
  BY <1>1 DEF Read
<1>2. CASE phase' # "hard"
  BY <1>2
<1>3. CASE UNCHANGED <<phase, mode, night, night_budget>>
  BY <1>3
<1>4. ASSUME \/ \E id \in Ids, a \in Amounts, p \in Pris : Reserve(id, a, p)
             \/ \E id \in Ids : Release(id)
             \/ \E id \in Ids, a \in Amounts, p \in Pris : Repri(id, a, p)
             \/ \E immediate \in BOOLEAN : RevokeAll(immediate)
             \/ \E b \in Budgets : SetBudget(b)
             \/ \E b \in NightBudgets : SetNightBudget(b)
             \/ SetBypass
             \/ Tick
             \/ DuskOrDawn
      PROVE  phase' # "hard"
  BY <1>4 DEF Reserve, Release, Repri, RevokeAll, SetBudget, SetNightBudget, SetBypass,
     Tick, DuskOrDawn, Idle, Answer
<1>5. ASSUME NEW r \in reservations, HardRevoke(r)
      PROVE  UNCHANGED <<phase, mode, night, night_budget>>
  BY <1>5 DEF HardRevoke
<1>6. HardDone \/ Restart => phase' # "hard"
  BY DEF HardDone, Restart, FreshState
<1> QED
  BY <1>1, <1>2, <1>3, <1>4, <1>5, <1>6 DEF Next, vars

\* Whom a deficit lets read_main spare
LEMMA DeficitSpares ==
  ASSUME TypeOK, NEW av \in Int, NEW already, Deficit(av, already), EffectiveApproveP1,
         mode' = (IF IsNight THEN "night" ELSE "day"),
         NEW m \in sent', m \notin already, m.res.pri = 1
  PROVE  Limit > 0 /\ -av > Limit
<1> DEFINE approve == IF night_budget > 0 /\ mode' = "night" THEN NightApproveP1 ELSE ApproveP1
           exceeds == Limit > 0 /\ -av > Limit
           due == {r \in reservations : ~(r.pri = 1 /\ approve /\ ~exceeds)}
<1>1. m \in {[res |-> r, immediate |-> FALSE] : r \in due}
  BY DEF Deficit
<1>2. PICK r \in due : m = [res |-> r, immediate |-> FALSE]
  BY <1>1
<1>3. r.pri = 1
  BY <1>2
<1>4. approve
  <2>1. night_budget \in Nat
    BY BudgetsAssumption DEF TypeOK
  <2>2. IsNight <=> night_budget > 0 /\ mode' = "night"
    BY <2>1 DEF IsNight
  <2> QED BY <2>2 DEF EffectiveApproveP1
<1> QED BY <1>2, <1>3, <1>4

\* Nobody whom the rules of the hour protect is revoked for a deficit within the
\* limit, though read_main goes by pa.mode and the other handlers by the clock.
THEOREM ProtectedStay == Spec => P1Protected
<1> DEFINE Protected ==
      \A m \in sent' \ sent :
        (/\ m.res.pri = 1
         /\ EffectiveApproveP1
         /\ \A i \in 1..Len(revokes) : revokes[i] # m)
        => Limit > 0 /\ -avail' > Limit
<1>1. Init => HardMode
  BY DEF Init, HardMode, FreshState
<1>2. TypeOK /\ TypeOK' /\ HardMode /\ [Next]_vars => [Protected]_vars
  <2> SUFFICES ASSUME TypeOK, TypeOK', HardMode, Next, NEW m \in sent' \ sent,
                      m.res.pri = 1, EffectiveApproveP1,
                      \A i \in 1..Len(revokes) : revokes[i] # m
               PROVE  Limit > 0 /\ -avail' > Limit
    OBVIOUS
  <2>1. avail' \in Int /\ avail \in Int
    BY DEF TypeOK
  <2>2. ASSUME NEW p \in Powers, NEW b \in BatteryPowers, NEW low \in BOOLEAN, Read(p, b, low)
        PROVE  Limit > 0 /\ -avail' > Limit
    <3>1. m \notin SentOf(revokes)
      BY DEF SentOf
    <3>2. mode' = (IF IsNight THEN "night" ELSE "day")
      BY <2>2 DEF Read
    <3>3. Deficit(avail', SentOf(revokes))
      BY <2>2, <3>1 DEF Read
    <3> QED BY <2>1, <3>1, <3>2, <3>3, DeficitSpares
  <2>3. ASSUME HardDone
        PROVE  Limit > 0 /\ -avail' > Limit
    <3>1. Deficit(avail, sent) /\ avail' = avail
      BY <2>3 DEF HardDone
    <3>2. mode' = (IF IsNight THEN "night" ELSE "day")
      BY <2>3 DEF HardDone, HardMode
    <3> QED BY <2>1, <3>1, <3>2, DeficitSpares
  <2>4. ASSUME sent' = {} \/ sent' = sent
        PROVE  FALSE
    BY <2>4
  <2> QED
    BY <2>2, <2>3, <2>4
       DEF Next, Reserve, Release, Repri, RevokeAll, SetBudget, SetNightBudget, SetBypass,
           HardRevoke, Tick, DuskOrDawn, Restart, Answer
<1> QED
  BY <1>1, <1>2, HardModeStep, TypeCorrect, PTL DEF Spec, P1Protected
=============================================================================
