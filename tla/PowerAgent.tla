----------------------------- MODULE PowerAgent -----------------------------
(***************************************************************************)
(* The PA agent (agents/pa): the single allocator from which the power     *)
(* consumers of the installation reserve watts.  It keeps a list of        *)
(* reservations and their running total, learns the available power from a *)
(* configured budget or from the sensors, and takes power back by sending  *)
(* revocations, at once when the battery hard limit is passed and after    *)
(* deficit_timeout when the available power stays negative.                *)
(*                                                                         *)
(* One action per registered function (reserve, release, repri,            *)
(* revoke_all), one for each configuration change that has a trigger, and  *)
(* read_main, which the agent loop calls every `interval` seconds.  The    *)
(* agent is one thread, so nothing interleaves with a handler; the loop of *)
(* read_main that empties the reservation list is one step per iteration   *)
(* (phase = "hard"), during which no other action is enabled.              *)
(*                                                                         *)
(* Amounts are in watts.  Times are counted in ticks and saturate at the   *)
(* delay they are compared with.  A sensor without fresh data reads 0,     *)
(* which every test of the code treats as have_battery_power = false.      *)
(***************************************************************************)
EXTENDS Integers, Sequences, FiniteSetsExt

CONSTANTS
  Ids,             \* "agent/module/item" of every consumer
  Amounts,         \* watts a consumer asks for
  Pris,            \* priorities a consumer sends, before clamping
  Budgets,         \* values of the budget property, 0 = calculated mode
  NightBudgets,    \* values of the night_budget property, 0 = no night mode
  Powers,          \* averaged power the sensors may yield in calculated mode
  BatteryPowers,   \* battery_power readings, negative = discharging
  ReserveDelay,    \* reserve_delay, in ticks
  DeficitTimeout,  \* deficit_timeout, in ticks
  ApproveP1,       \* approve_p1
  NightApproveP1,  \* night_approve_p1
  Limit,           \* limit: deficit a priority-1 reservation may cause, 0 = none
  HardLimit,       \* battery_hard_limit, 0 = none
  MaxRevokes       \* bound: revoke_all is called only with a shorter queue

ASSUME IdsAssumption == IsFiniteSet(Ids)
ASSUME AmountsAssumption == Amounts \subseteq (Nat \ {0})
ASSUME PrisAssumption == Pris \subseteq Int
ASSUME BudgetsAssumption == Budgets \subseteq Nat /\ NightBudgets \subseteq Nat
ASSUME PowersAssumption == Powers \subseteq Int /\ BatteryPowers \subseteq Int
ASSUME TimesAssumption == ReserveDelay \in Nat /\ DeficitTimeout \in Nat
ASSUME FlagsAssumption == ApproveP1 \in BOOLEAN /\ NightApproveP1 \in BOOLEAN
ASSUME LimitsAssumption == Limit \in Nat /\ HardLimit \in Nat
ASSUME BoundAssumption == MaxRevokes \in Nat

VARIABLES
  budget, night_budget, bypass, \* configuration properties that may change
  reservations,    \* pa.reservations; its order only orders the revocations
  reserved,        \* pa.reserved
  avail,           \* pa.avail
  revokes,         \* pa.revokes, the queue of revocations to send
  reserve_age,     \* ticks since last_reserve_time, up to ReserveDelay
  neg_age,         \* ticks since neg_power_time, NotNegative when that is 0
  night,           \* whether the clock is between night_start and day_start
  mode,            \* pa.mode
  battery,         \* pa.battery_power
  level_low,       \* battery_level is known and under battery_level_min
  phase,           \* "init" until the first read, "hard" inside that loop
  sent,            \* revocations sent by the step that just happened
  reply            \* answer to the request that was just served

vars == <<budget, night_budget, bypass, reservations, reserved, avail, revokes,
          reserve_age, neg_age, night, mode, battery, level_low, phase, sent,
          reply>>
configVars == <<budget, night_budget, bypass>>
sensorVars == <<night, battery, level_low>>

NotNegative == -1
DischargeFloor == -100
Reservation == [id : Ids, amount : Amounts, pri : 1..100]
Revoke == [res : Reservation, immediate : BOOLEAN]
NoReply == [op |-> "none", status |-> 0]
Status == 0..1

-----------------------------------------------------------------------------
(* Helpers of the handlers.                                                *)

\* Faulty variant: the priority is used as it came
ClampForgotten(pri) == pri

Clamp(pri) == IF pri < 1 THEN 1 ELSE IF pri > 100 THEN 100 ELSE pri

Held(id) == {r \in reservations : r.id = id}

HeldAmount(id) == IF Held(id) = {} THEN 0 ELSE (CHOOSE r \in Held(id) : TRUE).amount

IsNight == night_budget # 0 /\ night

EffectiveBudget == IF IsNight THEN night_budget ELSE budget

EffectiveApproveP1 == IF IsNight THEN NightApproveP1 ELSE ApproveP1

\* Discharging watts above which the battery is over its hard limit; the soft
\* limit test is switched off in the code (`0 &&`).
OverHardLimit(bat, amount) ==
  /\ HardLimit > 0
  /\ bat < DischargeFloor
  /\ -bat + (IF amount > 0 THEN amount ELSE 0) > HardLimit

\* Faulty variant: pa.reserved has no trigger
AvailLeftStale(newReserved, oldAvail) == oldAvail

\* pa_reserved_trigger, run whenever pa.reserved is assigned
AvailOn(newReserved, oldAvail) ==
  IF budget # 0 THEN budget - newReserved ELSE oldAvail

\* The deficit a priority-1 reservation may run up is capped in calculated mode
OverDeficitLimit(amount, av) ==
  /\ EffectiveBudget = 0
  /\ EffectiveApproveP1
  /\ av < amount
  /\ Limit > 0
  /\ (IF av < 0 THEN -av ELSE 0) + amount - (IF av > 0 THEN av ELSE 0) > Limit

-----------------------------------------------------------------------------
(* Requests.                                                               *)

Idle == phase = "idle"

Answer(op, status) ==
  /\ reply' = [op |-> op, status |-> status]
  /\ sent' = {}
  /\ UNCHANGED <<configVars, sensorVars, neg_age, mode, phase>>

\* Faulty variant: the old reservation is deleted but its amount not given back
GrantWithoutRefund(id, amount, pri) ==
  /\ reservations' = (reservations \ Held(id))
                       \cup {[id |-> id, amount |-> amount, pri |-> pri]}
  /\ reserved' = reserved + amount
  /\ avail' = AvailOn(reserved', avail)
  /\ reserve_age' = 0

\* Remove what id holds and add a reservation for it
Grant(id, amount, pri) ==
  /\ reservations' = (reservations \ Held(id))
                       \cup {[id |-> id, amount |-> amount, pri |-> pri]}
  /\ reserved' = reserved - HeldAmount(id) + amount
  /\ avail' = AvailOn(reserved', avail)
  /\ reserve_age' = 0

\* Deny after the deletion of what id held: the old reservation is gone
DropAndDeny(id) ==
  /\ reservations' = reservations \ Held(id)
  /\ reserved' = reserved - HeldAmount(id)
  /\ avail' = IF Held(id) = {} THEN avail ELSE AvailOn(reserved', avail)
  /\ UNCHANGED reserve_age

\* reserve_delay, skipped when the power is there
MustWait(amount, av) ==
  EffectiveBudget = 0 /\ reserve_age < ReserveDelay /\ av < amount

\* Faulty variant: the amount held before is given back twice
AdmittedTwiceRefunded(id, amount, pri) ==
  LET av == AvailOn(reserved - HeldAmount(id), avail) + HeldAmount(id)
  IN /\ ~MustWait(amount, av)
     /\ ~OverHardLimit(battery, amount - HeldAmount(id))
     /\ \/ av >= amount
        \/ EffectiveApproveP1 /\ pri = 1 /\ ~OverDeficitLimit(amount, av)

Admitted(id, amount, pri) ==
  LET av == IF Held(id) = {} THEN avail ELSE AvailOn(reserved - HeldAmount(id), avail)
  IN /\ ~MustWait(amount, av)
     /\ ~OverHardLimit(battery, amount - HeldAmount(id))
     /\ \/ av >= amount
        \/ EffectiveApproveP1 /\ pri = 1 /\ ~OverDeficitLimit(amount, av)

LevelTooLow == level_low /\ battery < 0

Reserve(id, amount, p) ==
  LET pri == Clamp(p) IN
  /\ Idle
  /\ UNCHANGED revokes
  /\ \/ /\ bypass \/ (~LevelTooLow /\ Admitted(id, amount, pri))
        /\ Grant(id, amount, pri)
        /\ Answer("reserve", 0)
     \/ /\ ~bypass
        /\ ~LevelTooLow
        /\ ~Admitted(id, amount, pri)
        /\ DropAndDeny(id)
        /\ Answer("reserve", 1)
     \/ /\ ~bypass
        /\ LevelTooLow
        /\ Answer("reserve", 1)
        /\ UNCHANGED <<reservations, reserved, avail, reserve_age>>

Release(id) ==
  /\ Idle
  /\ \/ /\ Held(id) # {}
        /\ reservations' = reservations \ Held(id)
        /\ reserved' = reserved - HeldAmount(id)
        /\ avail' = AvailOn(reserved', avail)
        /\ reserve_age' = 0
     \/ /\ Held(id) = {}
        /\ UNCHANGED <<reservations, reserved, avail, reserve_age>>
  /\ Answer("release", 0)
  /\ UNCHANGED revokes

\* Changes the priority of a reservation, or makes one when there is none:
\* that path tests neither pa.avail nor bypass.
Repri(id, amount, p) ==
  LET pri == Clamp(p)
      refused == \/ level_low
                 \/ OverHardLimit(battery, amount)
                 \/ pri = 1 /\ OverDeficitLimit(amount, avail)
  IN /\ Idle
     /\ UNCHANGED revokes
     /\ \/ /\ Held(id) # {}
           /\ reservations' = (reservations \ Held(id))
                                \cup {[id |-> id, amount |-> HeldAmount(id), pri |-> pri]}
           /\ Answer("repri", 0)
           /\ UNCHANGED <<reserved, avail, reserve_age>>
        \/ /\ Held(id) = {}
           /\ ~refused
           /\ Grant(id, amount, pri)
           /\ Answer("repri", 0)
        \/ /\ Held(id) = {}
           /\ refused
           /\ Answer("repri", 1)
           /\ UNCHANGED <<reservations, reserved, avail, reserve_age>>

\* The orders in which the loops may meet the reservations
Orders(S) ==
  {q \in [1..Cardinality(S) -> S] : \A i, j \in 1..Cardinality(S) : q[i] = q[j] => i = j}

RevokeAll(immediate) ==
  /\ Idle
  /\ Len(revokes) < MaxRevokes
  /\ \E q \in Orders(reservations) :
       revokes' = revokes \o
         [i \in 1..Cardinality(reservations) |-> [res |-> q[i], immediate |-> immediate]]
  /\ Answer("revoke_all", 0)
  /\ UNCHANGED <<reservations, reserved, avail, reserve_age>>

-----------------------------------------------------------------------------
(* Configuration changes.                                                  *)

SetBudget(b) ==
  /\ Idle
  /\ b # budget
  /\ budget' = b
  /\ avail' = b - reserved
  /\ sent' = {}
  /\ reply' = NoReply
  /\ UNCHANGED <<night_budget, bypass, reservations, reserved, revokes, reserve_age,
                 neg_age, sensorVars, mode, phase>>

SetNightBudget(b) ==
  /\ Idle
  /\ b # night_budget
  /\ night_budget' = b
  /\ avail' = IF b # 0 /\ night THEN b - reserved ELSE avail
  /\ sent' = {}
  /\ reply' = NoReply
  /\ UNCHANGED <<budget, bypass, reservations, reserved, revokes, reserve_age,
                 neg_age, sensorVars, mode, phase>>

SetBypass ==
  /\ Idle
  /\ bypass' = ~bypass
  /\ sent' = {}
  /\ reply' = NoReply
  /\ UNCHANGED <<budget, night_budget, reservations, reserved, avail, revokes,
                 reserve_age, neg_age, sensorVars, mode, phase>>

-----------------------------------------------------------------------------
(* read_main.                                                              *)

\* `for (i...) { pa_revoke(revokes[i]); revokes.splice(i,1); }` steps over the
\* entry that moves into the freed place: entries 1, 3, 5... are sent.
SentOf(q) == {q[i] : i \in {j \in 1..Len(q) : j % 2 = 1}}
\* Faulty variant: the queue is cleared after the loop instead of spliced in it
LeftNothing(q) == <<>>
LeftOf(q) == [i \in 1..(Len(q) \div 2) |-> q[2 * i]]

ReadBudget == IF mode' = "night" /\ night_budget > 0 THEN night_budget ELSE budget

\* What both faulty variants of Deficit share with it
DeficitSending(av, already, due) ==
  \/ av < 0 /\ neg_age = NotNegative /\ neg_age' = 0 /\ sent' = already
  \/ /\ av < 0 /\ neg_age # NotNegative /\ UNCHANGED neg_age
     /\ sent' = IF neg_age < DeficitTimeout THEN already
                ELSE already \cup {[res |-> r, immediate |-> FALSE] : r \in due}
  \/ av >= 0 /\ neg_age' = NotNegative /\ sent' = already

\* Faulty variant: the night rules apply at any hour once there is a night budget
DeficitByNightRules(av, already) ==
  LET approve == IF night_budget > 0 THEN NightApproveP1 ELSE ApproveP1
      exceeds == Limit > 0 /\ -av > Limit
  IN DeficitSending(av, already, {r \in reservations : ~(r.pri = 1 /\ approve /\ ~exceeds)})

\* Faulty variant: || for && in the test that spares priority 1
DeficitSparesAll(av, already) ==
  LET exceeds == Limit > 0 /\ -av > Limit
  IN DeficitSending(av, already, {r \in reservations : ~(r.pri = 1 \/ (ApproveP1 /\ ~exceeds))})

\* Start counting a deficit, revoke when it has lasted, or forget it
Deficit(av, already) ==
  LET approve == IF night_budget > 0 /\ mode' = "night" THEN NightApproveP1 ELSE ApproveP1
      exceeds == Limit > 0 /\ -av > Limit
      due     == {r \in reservations : ~(r.pri = 1 /\ approve /\ ~exceeds)}
  IN \/ av < 0 /\ neg_age = NotNegative /\ neg_age' = 0 /\ sent' = already
     \/ /\ av < 0
        /\ neg_age # NotNegative
        /\ neg_age < DeficitTimeout
        /\ sent' = already
        /\ UNCHANGED neg_age
     \/ /\ av < 0
        /\ neg_age >= DeficitTimeout
        /\ neg_age # NotNegative
        /\ sent' = already \cup {[res |-> r, immediate |-> FALSE] : r \in due}
        /\ UNCHANGED neg_age
     \/ av >= 0 /\ neg_age' = NotNegative /\ sent' = already

Read(power, bat, low) ==
  /\ phase \in {"init", "idle"}
  /\ battery' = bat
  /\ level_low' = low
  /\ mode' = IF IsNight THEN "night" ELSE "day"
  /\ revokes' = LeftOf(revokes)
  /\ reply' = NoReply
  /\ LET a  == IF ReadBudget = 0 THEN power ELSE ReadBudget - reserved
         av == IF a = 0 THEN -1 ELSE a
     IN /\ avail' = av
        /\ \/ /\ OverHardLimit(bat, 0)
              /\ phase' = "hard"
              /\ sent' = SentOf(revokes)
              /\ UNCHANGED neg_age
           \/ /\ ~OverHardLimit(bat, 0)
              /\ phase' = "idle"
              /\ Deficit(av, SentOf(revokes))
  /\ UNCHANGED <<configVars, reservations, reserved, reserve_age, night>>

\* Faulty variant: the reservation is dropped without a revocation in the queue
HardRevokeUnsaid(r) ==
  /\ phase = "hard"
  /\ r \in reservations
  /\ reservations' = reservations \ {r}
  /\ reserved' = reserved - r.amount
  /\ avail' = AvailOn(reserved', avail)
  /\ UNCHANGED <<configVars, revokes, reserve_age, neg_age, sensorVars, mode, phase, sent, reply>>

\* One iteration of the hard-limit loop
HardRevoke(r) ==
  /\ phase = "hard"
  /\ r \in reservations
  /\ revokes' = Append(revokes, [res |-> r, immediate |-> TRUE])
  /\ reservations' = reservations \ {r}
  /\ reserved' = reserved - r.amount
  /\ avail' = AvailOn(reserved', avail)
  /\ UNCHANGED <<configVars, reserve_age, neg_age, sensorVars, mode, phase, sent, reply>>

\* The rest of read_main after that loop
HardDone ==
  /\ phase = "hard"
  /\ reservations = {}
  /\ phase' = "idle"
  /\ UNCHANGED mode
  /\ Deficit(avail, sent)
  /\ UNCHANGED <<configVars, reservations, reserved, avail, revokes, reserve_age,
                 sensorVars, reply>>

-----------------------------------------------------------------------------
(* The environment: the clock, dusk and dawn, and a restart of the agent.  *)

Tick ==
  /\ phase = "idle"
  /\ \/ reserve_age < ReserveDelay
     \/ neg_age # NotNegative /\ neg_age < DeficitTimeout
  /\ reserve_age' = IF reserve_age < ReserveDelay THEN reserve_age + 1 ELSE reserve_age
  /\ neg_age' = IF neg_age # NotNegative /\ neg_age < DeficitTimeout
                THEN neg_age + 1 ELSE neg_age
  /\ sent' = {}
  /\ UNCHANGED <<configVars, reservations, reserved, avail, revokes, sensorVars,
                 mode, phase, reply>>

DuskOrDawn ==
  /\ phase = "idle"
  /\ NightBudgets # {0}
  /\ night' = ~night
  /\ sent' = {}
  /\ UNCHANGED <<configVars, reservations, reserved, avail, revokes, reserve_age,
                 neg_age, battery, level_low, mode, phase, reply>>

\* Everything but the configuration lives in memory: a stop or a crash followed
\* by a start forgets it, and no request is served before the first read.
FreshState ==
  [reservations |-> {}, reserved |-> 0, revokes |-> <<>>,
   reserve_age |-> ReserveDelay, neg_age |-> NotNegative, battery |-> 0,
   level_low |-> FALSE, phase |-> "init"]

Restart ==
  /\ phase # "init"
  /\ reservations' = FreshState.reservations
  /\ reserved' = FreshState.reserved
  /\ avail' = budget
  /\ revokes' = FreshState.revokes
  /\ reserve_age' = FreshState.reserve_age
  /\ neg_age' = FreshState.neg_age
  /\ battery' = FreshState.battery
  /\ level_low' = FreshState.level_low
  /\ phase' = FreshState.phase
  /\ mode' = IF IsNight THEN "night" ELSE "day"
  /\ sent' = {}
  /\ reply' = NoReply
  /\ UNCHANGED <<configVars, night>>

Init ==
  /\ budget \in Budgets
  /\ night_budget \in NightBudgets
  /\ bypass = FALSE
  /\ reservations = FreshState.reservations
  /\ reserved = FreshState.reserved
  /\ avail = budget
  /\ revokes = FreshState.revokes
  /\ reserve_age = FreshState.reserve_age
  /\ neg_age = FreshState.neg_age
  /\ night = FALSE
  /\ mode = "day"
  /\ battery = FreshState.battery
  /\ level_low = FreshState.level_low
  /\ phase = FreshState.phase
  /\ sent = {}
  /\ reply = NoReply

Next ==
  \/ \E id \in Ids, a \in Amounts, p \in Pris : Reserve(id, a, p)
  \/ \E id \in Ids : Release(id)
  \/ \E id \in Ids, a \in Amounts, p \in Pris : Repri(id, a, p)
  \/ \E immediate \in BOOLEAN : RevokeAll(immediate)
  \/ \E b \in Budgets : SetBudget(b)
  \/ \E b \in NightBudgets : SetNightBudget(b)
  \/ SetBypass
  \/ \E p \in Powers, b \in BatteryPowers, low \in BOOLEAN : Read(p, b, low)
  \/ \E r \in reservations : HardRevoke(r)
  \/ HardDone
  \/ Tick
  \/ DuskOrDawn
  \/ Restart

ReadAny == \E p \in Powers, b \in BatteryPowers, low \in BOOLEAN : Read(p, b, low)

\* The agent loop calls read_main every `interval` seconds and time passes
Fairness ==
  /\ WF_vars(ReadAny)
  /\ WF_vars(\E r \in reservations : HardRevoke(r))
  /\ WF_vars(HardDone)
  /\ WF_vars(Tick)

Spec == Init /\ [][Next]_vars

FairSpec == Spec /\ Fairness

-----------------------------------------------------------------------------
(* Properties.                                                             *)

TypeOK ==
  /\ budget \in Budgets /\ night_budget \in NightBudgets /\ bypass \in BOOLEAN
  /\ reservations \subseteq Reservation
  /\ IsFiniteSet(reservations)
  /\ reserved \in Int /\ avail \in Int
  /\ revokes \in Seq(Revoke)
  /\ reserve_age \in 0..ReserveDelay
  /\ neg_age \in (0..DeficitTimeout) \cup {NotNegative}
  /\ night \in BOOLEAN /\ mode \in {"day", "night"}
  /\ battery \in Int /\ level_low \in BOOLEAN
  /\ phase \in {"init", "idle", "hard"}
  /\ sent \subseteq Revoke
  /\ reply \in [op : {"none", "reserve", "release", "repri", "revoke_all"}, status : Status]

\* An id has at most one reservation, whichever of reserve, repri, bypass mode,
\* the hard-limit loop or a restart put the list in its present state
\* (pa_reserve, pa_repri and README.md, "Reservation ID Format").
UniqueIds == \A r, s \in reservations : r.id = s.id => r = s

\* pa.reserved is the total of the reservations: it is never recomputed, only
\* adjusted by every path that adds, replaces, drops or revokes one.
Accounting == reserved = MapThenSumSet(LAMBDA r : r.amount, reservations)

\* Without a night budget, the available power that admission tests is what the budget leaves, although it is maintained by the
\* triggers of two properties, by read_main and by the hard-limit loop; the
\* only deviation is the -1 that read_main stores instead of 0.
AvailTracksBudget ==
  (NightBudgets = {0} /\ budget # 0)
    => \/ avail = budget - reserved
       \/ avail = -1 /\ budget = reserved

\* A step in which reserve grants without one of the documented overrides
PlainGrant(id, a, p) ==
  /\ Reserve(id, a, p)
  /\ reply'.status = 0
  /\ ~bypass
  /\ ~(EffectiveApproveP1 /\ Clamp(p) = 1)

\* A reservation granted against a budget, without bypass and without the
\* priority-1 override, leaves the total within the budget in force.
WithinBudget ==
  [][\A id \in Ids, a \in Amounts, p \in Pris :
       PlainGrant(id, a, p) /\ EffectiveBudget # 0 => reserved' <= EffectiveBudget]_vars

\* A reservation that disappears was released or replaced by its own holder,
\* died with the agent, or is queued for an immediate revocation: nobody loses
\* the power it runs on without being told (pa_release, pa_reserve, read_main).
NothingLostSilently ==
  [][\A r \in reservations :
       (\A s \in reservations' : s.id # r.id) =>
         \/ Release(r.id)
         \/ \E a \in Amounts, p \in Pris : Reserve(r.id, a, p)
         \/ Restart
         \/ \E i \in 1..Len(revokes') : revokes'[i] = [res |-> r, immediate |-> TRUE]]_vars

\* A priority-1 holder that the rules in force at that read protect, by day or
\* by night, is not revoked for a deficit within the limit (read.js:213-230),
\* whatever order it comes in with others, reads, dusk and changed settings.
P1Protected ==
  [][\A m \in sent' \ sent :
       (/\ m.res.pri = 1
        /\ EffectiveApproveP1
        /\ \A i \in 1..Len(revokes) : revokes[i] # m)
       => Limit > 0 /\ -avail' > Limit]_vars

\* Whoever holds power when the hard limit is found exceeded is told to stop at
\* once, even though each read sends only every second entry of the queue; only
\* a restart of the agent, which forgets the queue, can prevent it.
HardLimitReachesEveryone ==
  \A id \in Ids :
    (phase = "hard" /\ Held(id) # {})
      ~> (phase = "init" \/ \E m \in sent : m.res.id = id /\ m.immediate)

\* If the available power stays negative, every reservation that no rule
\* protects is revoked or given up, again and again until it is gone.
DeficitReachesEveryone ==
  (<>[](avail < 0 /\ phase = "idle")) =>
     \A id \in Ids :
       []((\E r \in reservations : r.id = id /\ r.pri # 1)
            => <>(\/ \A r \in reservations : r.id = id => r.pri = 1
                  \/ \E m \in sent : m.res.id = id))

=============================================================================
