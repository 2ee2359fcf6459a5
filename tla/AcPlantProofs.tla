--------------------------- MODULE AcPlantProofs ---------------------------
(***************************************************************************)
(* The safety invariants of AcPlant, for any number of units, fans and     *)
(* pumps, any order of the pass, any primers and any settings.  The        *)
(* inductive invariant PlantInv says of every object what its state means  *)
(* for its power, its pins and its count; it needs nothing of the order or *)
(* of the timers.  The second part bounds the counts (CountsBounded) by    *)
(* the users of each pump, which is what the type invariant needs.         *)
(***************************************************************************)
EXTENDS AcPlant, FiniteSetTheorems, TLAPS

USE DEF PumpStates, UnitStates, FanStates

PumpShape == [state : PumpStates, refs : Nat, enabled : BOOLEAN,
              error : BOOLEAN, pin : BOOLEAN]
UnitShape == [state : UnitStates, refs : Nat, enabled : BOOLEAN, error : BOOLEAN,
              mode : Modes, contactors : SUBSET Modes]
FanShape == [state : FanStates, refs : Nat, enabled : BOOLEAN,
             error : BOOLEAN, called : BOOLEAN]

\* r is the record of the pump p, G the objects whose reserve is granted
GoodPump(r, p, G) ==
  /\ r.state = "reserve" => p \in Reserving
  /\ r.state \in {"start primer", "wait primer"} => p \in DOMAIN Primer
  /\ r.state = "stopped" => p \notin G
  /\ r.state = "release" => r.pin = FALSE
  /\ p \in Reserving /\ r.state \in {"start primer", "wait primer", "start"} => p \in G
  /\ p \in Reserving /\ r.pin = TRUE => p \in G
  /\ r.pin = TRUE /\ r.refs = 0 => r.state = "cooldown"

\* The states in which a unit that reserves has its power
Powered == {"start pump", "wait pump", "start", "running", "error"}

GoodUnit(r, u, G) ==
  /\ r.state = "reserve" => u \in Reserving
  /\ r.state = "stopped" => u \notin G
  /\ u \in Reserving /\ r.state \in Powered => u \in G

GoodFan(r, f, G) ==
  /\ r.state = "reserve" => f \in Reserving
  /\ r.state = "stopped" => f \notin G

WellPumps(P, G) ==
  P \in [Pumps -> PumpShape] /\ \A p \in Pumps : GoodPump(P[p], p, G)
WellUnits(U, G) ==
  U \in [Units -> UnitShape] /\ \A u \in Units : GoodUnit(U[u], u, G)
WellFans(F, G) ==
  F \in [Fans -> FanShape] /\ \A f \in Fans : GoodFan(F[f], f, G)

PlantInv ==
  /\ WellPumps(pump, granted)
  /\ WellUnits(unit, granted)
  /\ WellFans(fan, granted)
  /\ mode \in Modes
  /\ granted \subseteq Reserving

-----------------------------------------------------------------------------
(* The operations on the pumps keep them well.                             *)

\* A primer is a pump, and has no primer itself.
LEMMA PrimerFacts ==
  ASSUME NEW p \in DOMAIN Primer
  PROVE  Primer[p] \in Pumps /\ p \in Pumps /\ Primer[p] # p
         /\ Primer[p] \notin DOMAIN Primer
  BY PumpsAssumption DEF Range

\* Switching a pump off is right in every state.
LEMMA SwitchedOffGood ==
  ASSUME NEW p \in Pumps, NEW r \in PumpShape, NEW G, G \subseteq Reserving
  PROVE  SwitchedOff(r, p) \in PumpShape /\ GoodPump(SwitchedOff(r, p), p, G)
  BY DEF SwitchedOff, OffState, PumpShape, GoodPump

\* Every positive count is as good as another.
LEMMA CountedGood ==
  ASSUME NEW p, NEW r \in PumpShape, NEW G, GoodPump(r, p, G), NEW n \in Nat, n # 0
  PROVE  [r EXCEPT !.refs = n] \in PumpShape /\ GoodPump([r EXCEPT !.refs = n], p, G)
  BY DEF PumpShape, GoodPump

\* A pump in use may be taken out of its cool-down.
LEMMA WokenGood ==
  ASSUME NEW p, NEW r \in PumpShape, NEW G, GoodPump(r, p, G), NEW n \in Nat, n # 0
  PROVE  LET s == [r EXCEPT !.refs = n,
                            !.state = IF @ = "cooldown" THEN "running" ELSE @]
         IN  s \in PumpShape /\ GoodPump(s, p, G)
  BY DEF PumpShape, GoodPump

\* Any pump may cool down.
LEMMA CooledGood ==
  ASSUME NEW p, NEW r \in PumpShape, NEW G, GoodPump(r, p, G)
  PROVE  LET s == [r EXCEPT !.refs = 0, !.state = "cooldown"]
         IN  s \in PumpShape /\ GoodPump(s, p, G)
  BY DEF PumpShape, GoodPump

\* Giving one count back, of a pump without primer.
LEMMA StopAloneGood ==
  ASSUME NEW p \in Pumps, NEW r \in PumpShape, NEW G, G \subseteq Reserving,
         GoodPump(r, p, G)
  PROVE  StopAlone(r, p) \in PumpShape /\ GoodPump(StopAlone(r, p), p, G)
  <1>1. r.refs \in Nat
    BY DEF PumpShape
  <1>2. CASE r.state = "cooldown" \/ r.refs = 0
    BY <1>2 DEF StopAlone
  <1>3. CASE r.state # "cooldown" /\ r.refs > 1
    <2>1. r.refs - 1 \in Nat /\ r.refs - 1 # 0 /\ r.refs # 0
      BY <1>1, <1>3
    <2>2. StopAlone(r, p) = [r EXCEPT !.refs = r.refs - 1]
      BY <1>3, <2>1 DEF StopAlone
    <2>3. PICK n \in Nat : n = r.refs - 1 /\ n # 0
      BY <2>1
    <2>4. [r EXCEPT !.refs = n] \in PumpShape /\ GoodPump([r EXCEPT !.refs = n], p, G)
      BY <2>3, CountedGood
    <2>5. StopAlone(r, p) = [r EXCEPT !.refs = n]
      BY <2>2, <2>3
    <2>6. QED
      BY <2>4, <2>5
  <1>4. CASE r.state # "cooldown" /\ r.refs = 1
    <2>1. StopAlone(r, p) = IF p \in Cooling THEN [r EXCEPT !.refs = 0, !.state = "cooldown"]
                            ELSE SwitchedOff([r EXCEPT !.refs = 0], p)
      BY <1>4 DEF StopAlone
    <2>2. [r EXCEPT !.refs = 0] \in PumpShape
      BY DEF PumpShape
    <2>3. CASE p \in Cooling
      <3>1. StopAlone(r, p) = [r EXCEPT !.refs = 0, !.state = "cooldown"]
        BY <2>1, <2>3
      <3>2. [r EXCEPT !.refs = 0, !.state = "cooldown"] \in PumpShape
            /\ GoodPump([r EXCEPT !.refs = 0, !.state = "cooldown"], p, G)
        BY CooledGood
      <3>3. QED
        BY <3>1, <3>2
    <2>4. CASE p \notin Cooling
      BY <2>1, <2>2, <2>4, SwitchedOffGood
    <2>5. QED
      BY <2>3, <2>4
  <1>5. QED
    BY <1>1, <1>2, <1>3, <1>4

\* Stopping the primer of p leaves p as it is.
LEMMA StopPrimerWell ==
  ASSUME NEW P \in [Pumps -> PumpShape], NEW p \in Pumps, NEW G, G \subseteq Reserving,
         \A q \in Pumps \ {p} : GoodPump(P[q], q, G)
  PROVE  /\ StopPrimer(P, p) \in [Pumps -> PumpShape]
         /\ \A q \in Pumps \ {p} : GoodPump(StopPrimer(P, p)[q], q, G)
         /\ StopPrimer(P, p)[p] = P[p]
  <1>1. CASE p \in DOMAIN Primer
    <2> DEFINE q == Primer[p]
    <2>1. q \in Pumps /\ q # p
      BY <1>1, PrimerFacts
    <2>2. StopAlone(P[q], q) \in PumpShape /\ GoodPump(StopAlone(P[q], q), q, G)
      BY <2>1, StopAloneGood
    <2>3. StopPrimer(P, p) = [P EXCEPT ![q] = StopAlone(P[q], q)]
      BY <1>1 DEF StopPrimer
    <2> HIDE DEF q
    <2>4. QED
      BY <2>1, <2>2, <2>3
  <1>2. CASE p \notin DOMAIN Primer
    BY <1>2 DEF StopPrimer
  <1>3. QED
    BY <1>1, <1>2

\* Switching p off stops its primer and puts p right whatever it was.
LEMMA PumpOffWell ==
  ASSUME NEW P \in [Pumps -> PumpShape], NEW p \in Pumps, NEW G, G \subseteq Reserving,
         \A q \in Pumps \ {p} : GoodPump(P[q], q, G)
  PROVE  WellPumps(PumpOff(P, p), G)
  <1> DEFINE S == StopPrimer(P, p)
  <1>1. /\ S \in [Pumps -> PumpShape]
        /\ \A q \in Pumps \ {p} : GoodPump(S[q], q, G)
    BY StopPrimerWell
  <1>2. SwitchedOff(S[p], p) \in PumpShape /\ GoodPump(SwitchedOff(S[p], p), p, G)
    BY <1>1, SwitchedOffGood
  <1>3. PumpOff(P, p) = [S EXCEPT ![p] = SwitchedOff(S[p], p)]
    BY DEF PumpOff
  <1> HIDE DEF S
  <1>4. QED
    BY <1>1, <1>2, <1>3 DEF WellPumps

\* One pump replaced by a record that is right for it.
LEMMA OnePumpWell ==
  ASSUME NEW P, NEW p \in Pumps, NEW G, WellPumps(P, G),
         NEW r \in PumpShape, GoodPump(r, p, G)
  PROVE  WellPumps([P EXCEPT ![p] = r], G)
  BY DEF WellPumps

\* The record of one pump is right for it, with a count.
LEMMA WellPump ==
  ASSUME NEW P, NEW p \in Pumps, NEW G, WellPumps(P, G)
  PROVE  P[p] \in PumpShape /\ GoodPump(P[p], p, G) /\ P[p].refs \in Nat
  BY DEF WellPumps, PumpShape

\* pump_start.
LEMMA PumpStartWell ==
  ASSUME NEW P, NEW p \in Pumps, NEW G, WellPumps(P, G)
  PROVE  WellPumps(PumpStart(P, p), G)
  <1> DEFINE r == [P[p] EXCEPT !.refs = P[p].refs + 1,
                               !.state = IF @ = "cooldown" THEN "running" ELSE @]
  <1>1. P[p] \in PumpShape /\ GoodPump(P[p], p, G) /\ P[p].refs \in Nat
    BY WellPump
  <1>2. P[p].refs + 1 \in Nat /\ P[p].refs + 1 # 0
    BY <1>1
  <1>3. r \in PumpShape /\ GoodPump(r, p, G)
    BY <1>1, <1>2, WokenGood
  <1>4. PumpStart(P, p) = P \/ PumpStart(P, p) = [P EXCEPT ![p] = r]
    BY DEF PumpStart
  <1> HIDE DEF r
  <1>5. QED
    BY <1>3, <1>4, OnePumpWell

\* pump_stop.
LEMMA PumpStopWell ==
  ASSUME NEW P, NEW p \in Pumps, NEW G, G \subseteq Reserving, WellPumps(P, G)
  PROVE  WellPumps(PumpStop(P, p), G)
  <1>1. P[p] \in PumpShape /\ GoodPump(P[p], p, G) /\ P[p].refs \in Nat
    BY WellPump
  <1>2. CASE P[p].state = "cooldown" \/ P[p].refs = 0
    BY <1>2 DEF PumpStop
  <1>3. CASE P[p].state # "cooldown" /\ P[p].refs > 1
    <2> DEFINE r == [P[p] EXCEPT !.refs = P[p].refs - 1]
    <2>1. P[p].refs - 1 \in Nat /\ P[p].refs - 1 # 0 /\ P[p].refs # 0
      BY <1>1, <1>3
    <2>2. r \in PumpShape /\ GoodPump(r, p, G)
      BY <1>1, <2>1, CountedGood
    <2>3. PumpStop(P, p) = [P EXCEPT ![p] = r]
      BY <1>3, <2>1 DEF PumpStop
    <2> HIDE DEF r
    <2>4. WellPumps([P EXCEPT ![p] = r], G)
      BY <2>2, OnePumpWell
    <2>5. QED
      BY <2>3, <2>4
  <1>4. CASE P[p].state # "cooldown" /\ P[p].refs = 1 /\ p \in Cooling
    <2> DEFINE r == [P[p] EXCEPT !.refs = 0, !.state = "cooldown"]
    <2>1. r \in PumpShape /\ GoodPump(r, p, G)
      BY <1>1, CooledGood
    <2>2. PumpStop(P, p) = [P EXCEPT ![p] = r]
      <3>1. [P EXCEPT ![p].refs = 0, ![p].state = "cooldown"] = [P EXCEPT ![p] = r]
        BY DEF WellPumps
      <3> HIDE DEF r
      <3>2. QED
        BY <1>4, <3>1 DEF PumpStop
    <2> HIDE DEF r
    <2>3. WellPumps([P EXCEPT ![p] = r], G)
      BY <2>1, OnePumpWell
    <2>4. QED
      BY <2>2, <2>3
  <1>5. CASE P[p].state # "cooldown" /\ P[p].refs = 1 /\ p \notin Cooling
    <2> DEFINE Q == [P EXCEPT ![p].refs = 0]
    <2>1. Q \in [Pumps -> PumpShape] /\ \A q \in Pumps \ {p} : GoodPump(Q[q], q, G)
      BY <1>1 DEF PumpShape, WellPumps
    <2>2. PumpStop(P, p) = PumpOff(Q, p)
      BY <1>5 DEF PumpStop
    <2> HIDE DEF Q
    <2>3. QED
      BY <2>1, <2>2, PumpOffWell
  <1>6. P[p].refs = 0 \/ P[p].refs = 1 \/ P[p].refs > 1
    BY <1>1
  <1>7. QED
    BY <1>2, <1>3, <1>4, <1>5, <1>6

\* pump_force_stop.
LEMMA PumpForceStopWell ==
  ASSUME NEW P, NEW p \in Pumps, NEW G, G \subseteq Reserving, WellPumps(P, G)
  PROVE  WellPumps(PumpForceStop(P, p), G)
  <1> DEFINE S == StopPrimer(P, p)
             Q == [S EXCEPT ![p].refs = 0]
  <1>1. /\ S \in [Pumps -> PumpShape]
        /\ \A q \in Pumps \ {p} : GoodPump(S[q], q, G)
    BY StopPrimerWell DEF WellPumps
  <1>2. PumpForceStop(P, p) = PumpOff(Q, p)
    BY DEF PumpForceStop
  <1> HIDE DEF S
  <1>3. [S[p] EXCEPT !.refs = 0] \in PumpShape
    BY <1>1 DEF PumpShape
  <1>4. Q \in [Pumps -> PumpShape] /\ \A q \in Pumps \ {p} : GoodPump(Q[q], q, G)
    BY <1>1, <1>3
  <1> HIDE DEF Q
  <1>5. QED
    BY <1>2, <1>4, PumpOffWell

\* pump_revoke.
LEMMA PumpRevokeWell ==
  ASSUME NEW P, NEW p \in Pumps, NEW G, G \subseteq Reserving, WellPumps(P, G)
  PROVE  WellPumps(PumpRevoke(P, p), G)
  <1> DEFINE r == [P[p] EXCEPT !.refs = 1]
  <1>1. r \in PumpShape /\ GoodPump(r, p, G)
    BY WellPump, CountedGood
  <1>2. PumpRevoke(P, p) = PumpStop([P EXCEPT ![p] = r], p)
    BY DEF PumpRevoke
  <1> HIDE DEF r
  <1>3. WellPumps([P EXCEPT ![p] = r], G)
    BY <1>1, OnePumpWell
  <1>4. QED
    BY <1>2, <1>3, PumpStopWell

-----------------------------------------------------------------------------
(* A turn of a pump.                                                       *)

\* Invariance depends on the grants of these objects alone.
LEMMA PumpsFrame ==
  ASSUME NEW P, NEW G, NEW H, WellPumps(P, G), \A x \in Pumps : x \in G <=> x \in H
  PROVE  WellPumps(P, H)
  BY DEF WellPumps, GoodPump

LEMMA UnitsFrame ==
  ASSUME NEW U, NEW G, NEW H, WellUnits(U, G), \A x \in Units : x \in G <=> x \in H
  PROVE  WellUnits(U, H)
  BY DEF WellUnits, GoodUnit

LEMMA FansFrame ==
  ASSUME NEW F, NEW G, NEW H, WellFans(F, G), \A x \in Fans : x \in G <=> x \in H
  PROVE  WellFans(F, H)
  BY DEF WellFans, GoodFan

\* A pump in use may go to any state but STOPPED and RELEASE, if it has the
\* power and the primer that the state stands for.
LEMMA PumpToWell ==
  ASSUME NEW P, NEW p \in Pumps, NEW G, WellPumps(P, G), P[p].refs # 0,
         NEW s \in PumpStates \ {"stopped", "release"},
         s = "reserve" => p \in Reserving,
         s \in {"start primer", "wait primer"} => p \in DOMAIN Primer,
         p \in Reserving /\ s \in {"start primer", "wait primer", "start"} => p \in G
  PROVE  WellPumps([P EXCEPT ![p].state = s], G)
  <1>1. P[p] \in PumpShape /\ GoodPump(P[p], p, G)
    BY WellPump
  <1>2. [P[p] EXCEPT !.state = s] \in PumpShape /\ GoodPump([P[p] EXCEPT !.state = s], p, G)
    BY <1>1 DEF PumpShape, GoodPump
  <1>3. QED
    BY <1>2, OnePumpWell

\* A pump that has its power begins with its primer, or starts.
LEMMA PoweredWell ==
  ASSUME NEW P, NEW p \in Pumps, NEW G, WellPumps(P, G), P[p].refs # 0,
         p \in Reserving => p \in G
  PROVE  WellPumps([P EXCEPT ![p].state = FirstOfPump(p)], G)
  <1>1. CASE p \in DOMAIN Primer
    <2>1. WellPumps([P EXCEPT ![p].state = "start primer"], G)
      BY <1>1, PumpToWell
    <2>2. QED
      BY <1>1, <2>1 DEF FirstOfPump
  <1>2. CASE p \notin DOMAIN Primer
    <2>1. WellPumps([P EXCEPT ![p].state = "start"], G)
      BY PumpToWell
    <2>2. QED
      BY <1>2, <2>1 DEF FirstOfPump
  <1>3. QED
    BY <1>1, <1>2

\* An object whose turn it is and that is not passed over has users, unless it
\* is on its way out.
LEMMA PumpInUse ==
  ASSUME NEW p \in Pumps, NEW s, PumpIn(p, s), s \notin {"cooldown", "release", "error"}
  PROVE  pump[p].state = s /\ pump[p].refs # 0
  BY DEF PumpIn, PumpPassed, Passed

LEMMA PumpBegins ==
  ASSUME PlantInv, NEW p \in Pumps,
         PumpIn(p, "stopped"), PumpTo(p, FirstState(p, FirstOfPump(p)))
  PROVE  WellPumps(pump', granted)
  <1>1. pump[p].refs # 0
    BY PumpInUse
  <1>2. WellPumps(pump, granted) /\ granted \subseteq Reserving
    BY DEF PlantInv
  <1>3. CASE p \in Reserving
    <2>1. pump' = [pump EXCEPT ![p].state = "reserve"]
      BY <1>3 DEF PumpTo, FirstState
    <2>2. QED
      BY <1>1, <1>2, <1>3, <2>1, PumpToWell
  <1>4. CASE p \notin Reserving
    <2>1. pump' = [pump EXCEPT ![p].state = FirstOfPump(p)]
      BY <1>4 DEF PumpTo, FirstState
    <2>2. QED
      BY <1>1, <1>2, <1>4, <2>1, PoweredWell
  <1>5. QED
    BY <1>3, <1>4

LEMMA PumpReservesWell ==
  ASSUME PlantInv, NEW p \in Pumps, PumpReserves(p)
  PROVE  WellPumps(pump', granted') /\ granted' \subseteq Reserving
         /\ \A x \in Objects \ {p} : x \in granted <=> x \in granted'
  <1>1. pump[p].refs # 0 /\ pump[p].state = "reserve"
    BY PumpInUse DEF PumpReserves
  <1>2. WellPumps(pump, granted) /\ granted \subseteq Reserving
    BY DEF PlantInv
  <1>3. p \in Reserving
    BY <1>1, <1>2 DEF WellPumps, GoodPump
  <1>4. granted' = granted \/ granted' = granted \cup {p}
    BY DEF PumpReserves, Asks
  <1>5. WellPumps(pump, granted')
    <2>1. ASSUME NEW q \in Pumps PROVE GoodPump(pump[q], q, granted')
      <3>1. GoodPump(pump[q], q, granted)
        BY <1>2 DEF WellPumps
      <3>2. QED
        BY <1>1, <1>4, <3>1 DEF GoodPump
    <2>2. QED
      BY <1>2, <2>1 DEF WellPumps
  <1>6. WellPumps(pump', granted')
    <2>1. CASE p \notin granted'
      <3>1. pump' = [pump EXCEPT ![p].state = "reserve"]
        BY <2>1 DEF PumpReserves, PumpTo, Granted
      <3>2. QED
        BY <1>1, <1>3, <1>5, <3>1, PumpToWell
    <2>2. CASE p \in granted'
      <3>1. pump' = [pump EXCEPT ![p].state = FirstOfPump(p)]
        BY <2>2 DEF PumpReserves, PumpTo, Granted
      <3>2. WellPumps([pump EXCEPT ![p].state = FirstOfPump(p)], granted')
        BY <1>1, <1>5, <2>2, PoweredWell
      <3>3. QED
        BY <3>1, <3>2
    <2>3. QED
      BY <2>1, <2>2
  <1>7. QED
    BY <1>2, <1>3, <1>4, <1>6

LEMMA PumpReleasesWell ==
  ASSUME PlantInv, NEW p \in Pumps, PumpReleases(p)
  PROVE  WellPumps(pump', granted') /\ granted' \subseteq Reserving
         /\ \A x \in Objects \ {p} : x \in granted <=> x \in granted'
  <1>1. pump[p].state = "release" /\ granted' = granted \ {p}
        /\ pump' = [pump EXCEPT ![p].state = "stopped"]
    BY DEF PumpReleases, PumpIn, PumpTo
  <1>2. WellPumps(pump, granted) /\ granted \subseteq Reserving
    BY DEF PlantInv
  <1>3. [pump[p] EXCEPT !.state = "stopped"] \in PumpShape
        /\ GoodPump([pump[p] EXCEPT !.state = "stopped"], p, granted')
    BY <1>1, <1>2 DEF WellPumps, PumpShape, GoodPump
  <1>4. \A q \in Pumps \ {p} : GoodPump(pump[q], q, granted')
    BY <1>1, <1>2 DEF WellPumps, GoodPump
  <1>5. WellPumps(pump', granted')
    BY <1>1, <1>2, <1>3, <1>4 DEF WellPumps
  <1>6. QED
    BY <1>1, <1>2, <1>5

\* Starting or stopping a primer leaves the pump it serves as it is.
LEMMA OthersKept ==
  ASSUME NEW P \in [Pumps -> PumpShape], NEW p \in Pumps, NEW q \in Pumps,
         q # p, q \notin DOMAIN Primer
  PROVE  PumpStart(P, q)[p] = P[p] /\ PumpStop(P, q)[p] = P[p]
  BY DEF PumpStart, PumpStop, PumpOff, StopPrimer

\* The records of a well set of pumps, and of its primers.
LEMMA PumpInStep ==
  ASSUME PlantInv, NEW p \in Pumps, NEW s, PumpIn(p, s),
         s \notin {"cooldown", "release", "error"}
  PROVE  /\ WellPumps(pump, granted) /\ granted \subseteq Reserving
         /\ pump \in [Pumps -> PumpShape]
         /\ pump[p].state = s /\ pump[p].refs # 0
         /\ s \in {"start primer", "wait primer"} => p \in DOMAIN Primer
         /\ p \in Reserving /\ s \in {"start primer", "wait primer", "start"}
              => p \in granted
  <1>1. pump[p].state = s /\ pump[p].refs # 0
    BY PumpInUse
  <1>2. WellPumps(pump, granted) /\ granted \subseteq Reserving
    BY DEF PlantInv
  <1>3. pump \in [Pumps -> PumpShape] /\ GoodPump(pump[p], p, granted)
    BY <1>2 DEF WellPumps
  <1>4. QED
    BY <1>1, <1>2, <1>3 DEF GoodPump

LEMMA PumpStartsPrimerWell ==
  ASSUME PlantInv, NEW p \in Pumps, PumpStartsPrimer(p)
  PROVE  WellPumps(pump', granted)
  <1> DEFINE P == PumpStart(pump, Primer[p])
             s == IF P[Primer[p]].state = "running" THEN "start" ELSE "wait primer"
  <1>1. /\ WellPumps(pump, granted) /\ pump \in [Pumps -> PumpShape]
        /\ pump[p].refs # 0 /\ p \in DOMAIN Primer
        /\ p \in Reserving => p \in granted
    BY PumpInStep DEF PumpStartsPrimer
  <1>2. Primer[p] \in Pumps /\ Primer[p] # p /\ Primer[p] \notin DOMAIN Primer
    BY <1>1, PrimerFacts
  <1>3. WellPumps(P, granted) /\ P[p] = pump[p]
    BY <1>1, <1>2, PumpStartWell, OthersKept
  <1>4. pump' = [P EXCEPT ![p].state = s]
    BY DEF PumpStartsPrimer
  <1>5. s \in {"start", "wait primer"}
    OBVIOUS
  <1> HIDE DEF P, s
  <1>6. P[p].refs # 0
    BY <1>1, <1>3
  <1>7. CASE s = "start"
    <2>1. WellPumps([P EXCEPT ![p].state = "start"], granted)
      BY <1>1, <1>3, <1>6, PumpToWell
    <2>2. QED
      BY <1>4, <1>7, <2>1
  <1>8. CASE s = "wait primer"
    <2>1. WellPumps([P EXCEPT ![p].state = "wait primer"], granted)
      BY <1>1, <1>3, <1>6, PumpToWell
    <2>2. QED
      BY <1>4, <1>8, <2>1
  <1>9. QED
    BY <1>5, <1>7, <1>8

LEMMA PumpWaitsPrimerWell ==
  ASSUME PlantInv, NEW p \in Pumps, NEW late \in BOOLEAN, PumpWaitsPrimer(p, late)
  PROVE  WellPumps(pump', granted)
  <1>1. /\ WellPumps(pump, granted) /\ pump \in [Pumps -> PumpShape]
        /\ pump[p].refs # 0 /\ p \in DOMAIN Primer /\ granted \subseteq Reserving
        /\ p \in Reserving => p \in granted
    BY PumpInStep DEF PumpWaitsPrimer
  <1>2. Primer[p] \in Pumps /\ Primer[p] # p /\ Primer[p] \notin DOMAIN Primer
    BY <1>1, PrimerFacts
  <1> DEFINE P == PumpStop(pump, Primer[p])
  <1>3. WellPumps(P, granted) /\ P[p] = pump[p]
    BY <1>1, <1>2, PumpStopWell, OthersKept
  <1>4. \/ pump' = [pump EXCEPT ![p].state = "start"]
        \/ pump' = [pump EXCEPT ![p].state = "start primer"]
        \/ pump' = [pump EXCEPT ![p].state = "error"]
        \/ pump' = [P EXCEPT ![p].state = "start primer"]
        \/ pump' = pump
    BY DEF PumpWaitsPrimer, PumpTo, PumpStays
  <1> HIDE DEF P
  <1>5. P[p].refs # 0
    BY <1>1, <1>3
  <1>6. WellPumps([pump EXCEPT ![p].state = "start"], granted)
    BY <1>1, PumpToWell
  <1>7. WellPumps([pump EXCEPT ![p].state = "start primer"], granted)
    BY <1>1, PumpToWell
  <1>8. WellPumps([pump EXCEPT ![p].state = "error"], granted)
    BY <1>1, PumpToWell
  <1>9. WellPumps([P EXCEPT ![p].state = "start primer"], granted)
    BY <1>1, <1>3, <1>5, PumpToWell
  <1>10. QED
    BY <1>1, <1>4, <1>6, <1>7, <1>8, <1>9

LEMMA PumpStartsWell ==
  ASSUME PlantInv, NEW p \in Pumps, PumpStarts(p)
  PROVE  WellPumps(pump', granted)
  <1> DEFINE r == [pump[p] EXCEPT !.pin = TRUE, !.state = "wait pump"]
  <1>1. /\ WellPumps(pump, granted) /\ pump \in [Pumps -> PumpShape]
        /\ pump[p].refs # 0
        /\ p \in Reserving => p \in granted
    BY PumpInStep DEF PumpStarts
  <1>2. r \in PumpShape /\ GoodPump(r, p, granted)
    BY <1>1 DEF PumpShape, GoodPump
  <1>3. pump' = [pump EXCEPT ![p] = r]
    BY <1>1 DEF PumpStarts
  <1> HIDE DEF r
  <1>4. QED
    BY <1>1, <1>2, <1>3, OnePumpWell

LEMMA PumpWaitsWell ==
  ASSUME PlantInv, NEW p \in Pumps, NEW late \in BOOLEAN, PumpWaits(p, late)
  PROVE  WellPumps(pump', granted)
  <1>1. /\ WellPumps(pump, granted) /\ pump \in [Pumps -> PumpShape]
        /\ pump[p].refs # 0 /\ granted \subseteq Reserving
    BY PumpInStep DEF PumpWaits
  <1> DEFINE P == StopPrimer(pump, p)
  <1>2. /\ P \in [Pumps -> PumpShape] /\ P[p] = pump[p]
        /\ \A q \in Pumps \ {p} : GoodPump(P[q], q, granted)
    BY <1>1, StopPrimerWell DEF WellPumps
  <1>3. pump' = [P EXCEPT ![p].state = Started(p)] \/ pump' = pump
    BY DEF PumpWaits, PumpStays
  <1> HIDE DEF P
  <1>4. WellPumps(P, granted)
    BY <1>1, <1>2 DEF WellPumps
  <1>5. P[p].refs # 0
    BY <1>1, <1>2
  <1>6. Started(p) \in {"flow", "warmup", "running"}
    BY DEF Started, Warm
  <1>7. WellPumps([P EXCEPT ![p].state = Started(p)], granted)
    BY <1>4, <1>5, <1>6, PumpToWell
  <1>8. QED
    BY <1>1, <1>3, <1>7

\* FLOW, WARMUP and RUNNING change the state and nothing else.
LEMMA PumpGoesOnWell ==
  ASSUME PlantInv, NEW p \in Pumps, NEW late \in BOOLEAN,
         PumpFlows(p, late) \/ PumpWarms(p, late) \/ PumpRuns(p)
  PROVE  WellPumps(pump', granted)
  <1>1. WellPumps(pump, granted) /\ pump[p].refs # 0
    BY PumpInStep DEF PumpFlows, PumpWarms, PumpRuns
  <1>2. \/ \E s \in {"warmup", "running", "error"} : pump' = [pump EXCEPT ![p].state = s]
        \/ pump' = pump
    BY DEF PumpFlows, PumpWarms, PumpRuns, PumpTo, PumpStays, Warm
  <1>3. ASSUME NEW s \in {"warmup", "running", "error"}
        PROVE  WellPumps([pump EXCEPT ![p].state = s], granted)
    BY <1>1, PumpToWell
  <1>4. QED
    BY <1>1, <1>2, <1>3

LEMMA PumpEndsWell ==
  ASSUME PlantInv, NEW p \in Pumps, NEW late \in BOOLEAN,
         PumpCools(p, late) \/ PumpFails(p)
  PROVE  WellPumps(pump', granted)
  <1>1. /\ WellPumps(pump, granted) /\ granted \subseteq Reserving
        /\ pump \in [Pumps -> PumpShape]
        /\ \A q \in Pumps \ {p} : GoodPump(pump[q], q, granted)
    BY DEF PlantInv, WellPumps
  <1>2. CASE PumpCools(p, late)
    <2>1. WellPumps(PumpOff(pump, p), granted)
      BY <1>1, PumpOffWell
    <2>2. QED
      BY <1>1, <1>2, <2>1 DEF PumpCools
  <1>3. CASE PumpFails(p)
    <2> DEFINE P == PumpForceStop(pump, p)
               r == [P[p] EXCEPT !.enabled = FALSE, !.error = TRUE]
    <2>1. WellPumps(P, granted)
      BY <1>1, PumpForceStopWell
    <2>2. pump' = [P EXCEPT ![p].enabled = FALSE, ![p].error = TRUE]
      BY <1>3 DEF PumpFails
    <2> HIDE DEF P
    <2>3. r \in PumpShape /\ GoodPump(r, p, granted)
      BY <2>1 DEF WellPumps, PumpShape, GoodPump
    <2>4. pump' = [P EXCEPT ![p] = r]
      BY <2>1, <2>2 DEF WellPumps
    <2> HIDE DEF r
    <2>5. QED
      BY <2>1, <2>3, <2>4, OnePumpWell
  <1>4. QED
    BY <1>2, <1>3

LEMMA PumpTurnStep ==
  ASSUME PlantInv, NEW p \in Pumps, NEW late \in BOOLEAN, PumpTurn(p, late)
  PROVE  PlantInv'
  <1>1. unit' = unit /\ fan' = fan /\ mode' = mode
    BY DEF PumpTurn
  <1>2. \/ WellPumps(pump', granted) /\ granted' = granted
        \/ /\ WellPumps(pump', granted') /\ granted' \subseteq Reserving
           /\ \A x \in Objects \ {p} : x \in granted <=> x \in granted'
    <2>1. CASE PumpStays /\ granted' = granted
      BY <2>1 DEF PumpStays, PlantInv
    <2>2. CASE PumpReserves(p) \/ PumpReleases(p)
      BY <2>2, PumpReservesWell, PumpReleasesWell
    <2>3. QED
      BY <2>1, <2>2, PumpBegins, PumpStartsPrimerWell, PumpWaitsPrimerWell, PumpStartsWell,
         PumpWaitsWell, PumpGoesOnWell, PumpEndsWell DEF PumpTurn
  <1>3. WellPumps(pump', granted') /\ granted' \subseteq Reserving
    BY <1>2 DEF PlantInv
  <1>4. \A x \in Units \cup Fans : x \in granted <=> x \in granted'
    BY <1>2, ObjectsAssumption DEF Objects
  <1>5. WellUnits(unit, granted') /\ WellFans(fan, granted')
    BY <1>4, UnitsFrame, FansFrame DEF PlantInv
  <1>6. QED
    BY <1>1, <1>3, <1>5 DEF PlantInv, WellPumps, WellUnits, WellFans

-----------------------------------------------------------------------------
(* The units.                                                              *)

\* Replacing the record of one unit.
LEMMA OneUnitWell ==
  ASSUME NEW U, NEW u \in Units, NEW G, WellUnits(U, G),
         NEW r \in UnitShape, GoodUnit(r, u, G)
  PROVE  WellUnits([U EXCEPT ![u] = r], G)
  BY DEF WellUnits

LEMMA WellUnit ==
  ASSUME NEW U, NEW u \in Units, NEW G, WellUnits(U, G)
  PROVE  U[u] \in UnitShape /\ GoodUnit(U[u], u, G) /\ U[u].refs \in Nat
  BY DEF WellUnits, UnitShape

\* The count of a unit says nothing of its power.
LEMMA UnitCountGood ==
  ASSUME NEW u, NEW r \in UnitShape, NEW G, GoodUnit(r, u, G), NEW n \in Nat
  PROVE  [r EXCEPT !.refs = n] \in UnitShape /\ GoodUnit([r EXCEPT !.refs = n], u, G)
  BY DEF UnitShape, GoodUnit

\* A unit that is switched off keeps its power until its RELEASE.
LEMMA UnitOffGood ==
  ASSUME NEW u \in Units, NEW r \in UnitShape, NEW G, G \subseteq Reserving,
         mode \in Modes
  PROVE  UnitOffRecord(r, u) \in UnitShape /\ GoodUnit(UnitOffRecord(r, u), u, G)
  <1> DEFINE o == UnitOffRecord(r, u)
  <1>1. o = [r EXCEPT !.state = OffState(u), !.contactors = r.contactors \ {r.mode},
                      !.mode = mode]
    BY DEF UnitOffRecord
  <1>2. OffState(u) \in {"release", "stopped"} /\ (OffState(u) = "stopped" => u \notin G)
    BY DEF OffState
  <1>3. o \in UnitShape /\ o.state = OffState(u)
    BY <1>1, <1>2 DEF UnitShape
  <1> HIDE DEF o
  <1>4. GoodUnit(o, u, G)
    BY <1>2, <1>3 DEF GoodUnit, Powered
  <1>5. QED
    BY <1>3, <1>4 DEF o

\* unit_stop of a unit that is well, whatever its count.
LEMMA UnitStopWell ==
  ASSUME NEW P, NEW u \in Units, NEW r \in UnitShape, NEW G, G \subseteq Reserving,
         WellPumps(P, G), WellUnits(unit, G), GoodUnit(r, u, G), mode \in Modes,
         UnitStop(P, r, u)
  PROVE  WellPumps(pump', G) /\ WellUnits(unit', G)
  <1>1. PumpOf[u] \in Pumps
    BY PumpsAssumption
  <1>2. WellPumps(pump', G)
    BY <1>1, PumpStopWell DEF UnitStop
  <1>3. r.refs \in Nat
    BY DEF UnitShape
  <1>4. [r EXCEPT !.refs = 0] \in UnitShape /\ GoodUnit([r EXCEPT !.refs = 0], u, G)
    BY UnitCountGood
  <1>5. CASE r.refs = 0
    <2>1. unit' = [unit EXCEPT ![u] = r]
      BY <1>5 DEF UnitStop
    <2>2. WellUnits([unit EXCEPT ![u] = r], G)
      BY OneUnitWell
    <2>3. QED
      BY <1>2, <2>1, <2>2
  <1>6. CASE r.refs = 1
    <2> DEFINE o == UnitOffRecord([r EXCEPT !.refs = 0], u)
    <2>1. unit' = [unit EXCEPT ![u] = o]
      BY <1>6 DEF UnitStop
    <2>2. o \in UnitShape /\ GoodUnit(o, u, G)
      BY <1>4, UnitOffGood
    <2> HIDE DEF o
    <2>3. WellUnits([unit EXCEPT ![u] = o], G)
      BY <2>2, OneUnitWell
    <2>4. QED
      BY <1>2, <2>1, <2>3
  <1>7. CASE r.refs # 0 /\ r.refs # 1
    <2>1. r.refs - 1 \in Nat
      BY <1>3, <1>7
    <2>2. PICK n \in Nat : n = r.refs - 1
      BY <2>1
    <2>3. unit' = [unit EXCEPT ![u] = [r EXCEPT !.refs = n]]
      BY <1>7, <2>2 DEF UnitStop
    <2>4. [r EXCEPT !.refs = n] \in UnitShape /\ GoodUnit([r EXCEPT !.refs = n], u, G)
      BY UnitCountGood
    <2>5. WellUnits([unit EXCEPT ![u] = [r EXCEPT !.refs = n]], G)
      BY <2>4, OneUnitWell
    <2>6. QED
      BY <1>2, <2>3, <2>5
  <1>8. QED
    BY <1>5, <1>6, <1>7

LEMMA UnitForceStopWell ==
  ASSUME NEW u \in Units, NEW r \in UnitShape, PlantInv,
         GoodUnit(r, u, granted), UnitForceStop(r, u)
  PROVE  WellPumps(pump', granted) /\ WellUnits(unit', granted)
  <1>1. PumpOf[u] \in Pumps
    BY PumpsAssumption
  <1>2. WellPumps(PumpForceStop(pump, PumpOf[u]), granted)
    BY <1>1, PumpForceStopWell DEF PlantInv
  <1>3. [r EXCEPT !.refs = 1] \in UnitShape /\ GoodUnit([r EXCEPT !.refs = 1], u, granted)
    BY UnitCountGood
  <1>4. QED
    BY <1>2, <1>3, UnitStopWell DEF PlantInv, UnitForceStop

\* A unit may go to any state but STOPPED, if it has the power that the state
\* stands for.
LEMMA UnitToWell ==
  ASSUME NEW U, NEW u \in Units, NEW G, WellUnits(U, G),
         NEW s \in UnitStates \ {"stopped"},
         s = "reserve" => u \in Reserving,
         u \in Reserving /\ s \in Powered => u \in G
  PROVE  WellUnits([U EXCEPT ![u].state = s], G)
  <1> DEFINE r == [U[u] EXCEPT !.state = s]
  <1>1. U[u] \in UnitShape /\ GoodUnit(U[u], u, G)
    BY WellUnit
  <1>2. r \in UnitShape /\ r.state = s
    BY <1>1 DEF UnitShape
  <1> HIDE DEF r
  <1>3. GoodUnit(r, u, G)
    BY <1>1, <1>2 DEF GoodUnit
  <1>4. WellUnits([U EXCEPT ![u] = r], G)
    BY <1>2, <1>3, OneUnitWell
  <1>5. QED
    BY <1>4 DEF r

\* What the invariant says of a unit whose turn it is.
LEMMA UnitInStep ==
  ASSUME PlantInv, NEW u \in Units, NEW s, UnitIn(u, s)
  PROVE  /\ WellPumps(pump, granted) /\ WellUnits(unit, granted)
         /\ granted \subseteq Reserving
         /\ mode \in Modes /\ unit \in [Units -> UnitShape]
         /\ unit[u] \in UnitShape /\ GoodUnit(unit[u], u, granted)
         /\ unit[u].state = s
         /\ s = "reserve" => u \in Reserving
         /\ u \in Reserving /\ s \in Powered => u \in granted
         /\ PumpOf[u] \in Pumps
  <1>1. WellUnits(unit, granted) /\ unit[u].state = s
    BY DEF PlantInv, UnitIn
  <1>2. unit[u] \in UnitShape /\ GoodUnit(unit[u], u, granted)
    BY <1>1, WellUnit
  <1>3. PumpOf[u] \in Pumps
    BY PumpsAssumption
  <1>4. QED
    BY <1>1, <1>2, <1>3 DEF PlantInv, WellUnits, GoodUnit

LEMMA UnitBeginsWell ==
  ASSUME PlantInv, NEW u \in Units, UnitIn(u, "stopped"),
         UnitTo(u, FirstState(u, "start pump"))
  PROVE  WellUnits(unit', granted)
  <1>1. WellUnits(unit, granted) /\ unit[u].state = "stopped"
    BY UnitInStep
  <1>2. CASE u \in Reserving
    <2>1. WellUnits([unit EXCEPT ![u].state = "reserve"], granted)
      BY <1>1, <1>2, UnitToWell DEF Powered
    <2>2. QED
      BY <1>2, <2>1 DEF UnitTo, FirstState
  <1>3. CASE u \notin Reserving
    <2>1. WellUnits([unit EXCEPT ![u].state = "start pump"], granted)
      BY <1>1, <1>3, UnitToWell DEF Powered
    <2>2. QED
      BY <1>3, <2>1 DEF UnitTo, FirstState
  <1>4. QED
    BY <1>2, <1>3

LEMMA UnitReservesWell ==
  ASSUME PlantInv, NEW u \in Units, UnitReserves(u)
  PROVE  WellUnits(unit', granted') /\ granted' \subseteq Reserving
         /\ \A x \in Objects \ {u} : x \in granted <=> x \in granted'
  <1>1. /\ WellUnits(unit, granted) /\ unit[u].state = "reserve"
        /\ u \in Reserving /\ granted \subseteq Reserving
    BY UnitInStep DEF UnitReserves
  <1>2. granted' = granted \/ granted' = granted \cup {u}
    BY DEF UnitReserves, Asks
  <1>3. ASSUME NEW x \in Units PROVE GoodUnit(unit[x], x, granted')
    <2>1. GoodUnit(unit[x], x, granted)
      BY <1>1 DEF WellUnits
    <2>2. QED
      BY <1>1, <1>2, <2>1 DEF GoodUnit
  <1>4. WellUnits(unit, granted')
    BY <1>1, <1>3 DEF WellUnits
  <1>5. CASE u \notin granted'
    <2>1. WellUnits([unit EXCEPT ![u].state = "reserve"], granted')
      BY <1>1, <1>4, UnitToWell DEF Powered
    <2>2. unit' = [unit EXCEPT ![u].state = "reserve"]
      BY <1>5 DEF UnitReserves, UnitTo, Granted
    <2>3. QED
      BY <1>1, <1>2, <2>1, <2>2
  <1>6. CASE u \in granted'
    <2>1. WellUnits([unit EXCEPT ![u].state = "start pump"], granted')
      BY <1>1, <1>4, <1>6, UnitToWell DEF Powered
    <2>2. unit' = [unit EXCEPT ![u].state = "start pump"]
      BY <1>6 DEF UnitReserves, UnitTo, Granted
    <2>3. QED
      BY <1>1, <1>2, <2>1, <2>2
  <1>7. QED
    BY <1>5, <1>6

LEMMA UnitReleasesWell ==
  ASSUME PlantInv, NEW u \in Units, UnitReleases(u)
  PROVE  WellUnits(unit', granted') /\ granted' \subseteq Reserving
         /\ \A x \in Objects \ {u} : x \in granted <=> x \in granted'
  <1>1. /\ WellUnits(unit, granted) /\ unit[u].state = "release"
        /\ granted \subseteq Reserving
    BY UnitInStep DEF UnitReleases
  <1>2. granted' = granted \ {u} /\ unit' = [unit EXCEPT ![u].state = "stopped"]
    BY DEF UnitReleases, UnitTo
  <1> DEFINE r == [unit[u] EXCEPT !.state = "stopped"]
  <1>3. unit[u] \in UnitShape /\ GoodUnit(unit[u], u, granted)
    BY <1>1, WellUnit
  <1>4. r \in UnitShape /\ r.state = "stopped"
    BY <1>3 DEF UnitShape
  <1>5. unit' = [unit EXCEPT ![u] = r]
    BY <1>2
  <1> HIDE DEF r
  <1>6. GoodUnit(r, u, granted')
    BY <1>2, <1>4 DEF GoodUnit, Powered
  <1>7. \A x \in Units \ {u} : GoodUnit(unit[x], x, granted')
    BY <1>1, <1>2 DEF WellUnits, GoodUnit
  <1>8. WellUnits(unit', granted')
    BY <1>1, <1>4, <1>5, <1>6, <1>7 DEF WellUnits
  <1>9. QED
    BY <1>1, <1>2, <1>8

LEMMA UnitWaitsWell ==
  ASSUME PlantInv, NEW u \in Units, NEW late \in BOOLEAN,
         UnitStartsPump(u) \/ UnitWaits(u, late)
  PROVE  WellPumps(pump', granted) /\ WellUnits(unit', granted)
  <1>1. /\ WellPumps(pump, granted) /\ WellUnits(unit, granted)
        /\ granted \subseteq Reserving /\ PumpOf[u] \in Pumps
        /\ unit[u].state \in {"start pump", "wait pump"}
        /\ u \in Reserving => u \in granted
    BY UnitInStep DEF UnitStartsPump, UnitWaits, Powered
  <1>2. WellPumps(pump', granted)
    BY <1>1, PumpStartWell DEF UnitStartsPump, UnitWaits, PumpStays
  <1>3. \E s \in {"wait pump", "start", "error", "release"} :
          unit' = [unit EXCEPT ![u].state = s]
    BY DEF UnitStartsPump, UnitWaits, UnitTo, WaitOutcomes
  <1>4. ASSUME NEW s \in {"wait pump", "start", "error", "release"}
        PROVE  WellUnits([unit EXCEPT ![u].state = s], granted)
    BY <1>1, UnitToWell DEF Powered
  <1>5. QED
    BY <1>2, <1>3, <1>4

LEMMA UnitStartsWell ==
  ASSUME PlantInv, NEW u \in Units, UnitStarts(u)
  PROVE  WellUnits(unit', granted)
  <1>1. /\ WellUnits(unit, granted) /\ unit[u] \in UnitShape
        /\ unit \in [Units -> UnitShape]
        /\ GoodUnit(unit[u], u, granted) /\ unit[u].state = "start"
        /\ mode \in Modes
        /\ u \in Reserving => u \in granted
    BY UnitInStep DEF UnitStarts, Powered
  <1> DEFINE r == [unit[u] EXCEPT !.state = "running", !.mode = mode,
                                  !.contactors = unit[u].contactors \cup {mode}]
  <1>2. unit[u].contactors \cup {mode} \in SUBSET Modes
    BY <1>1 DEF UnitShape
  <1>3. r \in UnitShape /\ r.state = "running"
    BY <1>1, <1>2 DEF UnitShape
  <1>4. unit' = [unit EXCEPT ![u] = r]
    BY <1>1 DEF UnitStarts
  <1> HIDE DEF r
  <1>5. GoodUnit(r, u, granted)
    BY <1>1, <1>3 DEF GoodUnit
  <1>6. WellUnits([unit EXCEPT ![u] = r], granted)
    BY <1>1, <1>3, <1>5, OneUnitWell
  <1>7. QED
    BY <1>4, <1>6

LEMMA UnitRunsWell ==
  ASSUME PlantInv, NEW u \in Units, UnitRuns(u)
  PROVE  WellPumps(pump', granted) /\ WellUnits(unit', granted)
  <1>1. /\ WellPumps(pump, granted) /\ WellUnits(unit, granted)
        /\ unit[u] \in UnitShape /\ GoodUnit(unit[u], u, granted)
        /\ granted \subseteq Reserving /\ mode \in Modes
        /\ unit[u].state = "running" /\ (u \in Reserving => u \in granted)
    BY UnitInStep DEF UnitRuns, Powered
  <1>2. CASE UnitForceStop(unit[u], u)
    BY <1>1, <1>2, UnitForceStopWell
  <1>3. CASE UnitStays /\ PumpStays
    BY <1>1, <1>3 DEF UnitStays, PumpStays
  <1>4. CASE UnitTo(u, "error") /\ PumpStays
    <2>1. WellUnits([unit EXCEPT ![u].state = "error"], granted)
      BY <1>1, UnitToWell DEF Powered
    <2>2. QED
      BY <1>1, <1>4, <2>1 DEF UnitTo, PumpStays
  <1>5. CASE UnitStop(pump, [unit[u] EXCEPT !.refs = 1], u)
    <2>1. /\ [unit[u] EXCEPT !.refs = 1] \in UnitShape
          /\ GoodUnit([unit[u] EXCEPT !.refs = 1], u, granted)
      BY <1>1, UnitCountGood
    <2>2. QED
      BY <1>1, <1>5, <2>1, UnitStopWell
  <1>6. QED
    BY <1>2, <1>3, <1>4, <1>5 DEF UnitRuns

LEMMA UnitFailsWell ==
  ASSUME PlantInv, NEW u \in Units, UnitFails(u)
  PROVE  WellPumps(pump', granted) /\ WellUnits(unit', granted)
  <1> DEFINE r == [unit[u] EXCEPT !.enabled = FALSE, !.error = TRUE]
  <1>1. unit[u] \in UnitShape /\ GoodUnit(unit[u], u, granted)
    BY UnitInStep DEF UnitFails
  <1>2. r \in UnitShape /\ GoodUnit(r, u, granted)
    BY <1>1 DEF UnitShape, GoodUnit
  <1>3. UnitForceStop(r, u)
    BY DEF UnitFails
  <1> HIDE DEF r
  <1>4. QED
    BY <1>2, <1>3, UnitForceStopWell

LEMMA UnitTurnStep ==
  ASSUME PlantInv, NEW u \in Units, NEW late \in BOOLEAN, UnitTurn(u, late)
  PROVE  PlantInv'
  <1>1. fan' = fan /\ mode' = mode
    BY DEF UnitTurn
  <1>2. \/ WellPumps(pump', granted) /\ WellUnits(unit', granted) /\ granted' = granted
        \/ /\ WellUnits(unit', granted') /\ granted' \subseteq Reserving /\ pump' = pump
           /\ \A x \in Objects \ {u} : x \in granted <=> x \in granted'
    <2>1. CASE UnitStays /\ PumpStays /\ granted' = granted
      BY <2>1 DEF UnitStays, PumpStays, PlantInv
    <2>2. CASE UnitReserves(u) \/ UnitReleases(u)
      BY <2>2, UnitReservesWell, UnitReleasesWell DEF UnitReserves, UnitReleases, PumpStays
    <2>3. CASE /\ UnitIn(u, "stopped") /\ UnitTo(u, FirstState(u, "start pump"))
               /\ PumpStays /\ granted' = granted
      BY <2>3, UnitBeginsWell DEF PumpStays, PlantInv
    <2>4. CASE UnitStarts(u) /\ granted' = granted
      BY <2>4, UnitStartsWell DEF UnitStarts, PumpStays, PlantInv
    <2>5. QED
      BY <2>1, <2>2, <2>3, <2>4, UnitWaitsWell, UnitRunsWell, UnitFailsWell DEF UnitTurn
  <1>3. WellUnits(unit', granted') /\ granted' \subseteq Reserving
    BY <1>2 DEF PlantInv
  <1>4. WellPumps(pump', granted') /\ WellFans(fan, granted')
    <2>1. CASE granted' = granted
      BY <1>2, <2>1 DEF PlantInv
    <2>2. CASE pump' = pump /\ \A x \in Objects \ {u} : x \in granted <=> x \in granted'
      <3>1. \A x \in Pumps \cup Fans : x \in granted <=> x \in granted'
        BY <2>2, ObjectsAssumption DEF Objects
      <3>2. QED
        BY <2>2, <3>1, PumpsFrame, FansFrame DEF PlantInv
    <2>3. QED
      BY <1>2, <2>1, <2>2
  <1>5. QED
    BY <1>1, <1>3, <1>4 DEF PlantInv, WellPumps, WellUnits, WellFans

-----------------------------------------------------------------------------
(* The fans.                                                               *)

\* Replacing the record of one fan.
LEMMA OneFanWell ==
  ASSUME NEW F, NEW f \in Fans, NEW G, WellFans(F, G),
         NEW r \in FanShape, GoodFan(r, f, G)
  PROVE  WellFans([F EXCEPT ![f] = r], G)
  BY DEF WellFans

LEMMA WellFan ==
  ASSUME NEW F, NEW f \in Fans, NEW G, WellFans(F, G)
  PROVE  F[f] \in FanShape /\ GoodFan(F[f], f, G) /\ F[f].refs \in Nat
  BY DEF WellFans, FanShape

\* A fan may go to any state but STOPPED, and to RESERVE if it has a reserve.
LEMMA FanToWell ==
  ASSUME NEW F, NEW f \in Fans, NEW G, WellFans(F, G),
         NEW s \in FanStates \ {"stopped"}, s = "reserve" => f \in Reserving
  PROVE  WellFans([F EXCEPT ![f].state = s], G)
  <1> DEFINE r == [F[f] EXCEPT !.state = s]
  <1>1. F[f] \in FanShape
    BY WellFan
  <1>2. r \in FanShape /\ GoodFan(r, f, G)
    BY <1>1 DEF FanShape, GoodFan
  <1> HIDE DEF r
  <1>3. WellFans([F EXCEPT ![f] = r], G)
    BY <1>2, OneFanWell
  <1>4. QED
    BY <1>3 DEF r

\* A fan that is off has released its power, or will.
LEMMA FanOffGood ==
  ASSUME NEW f \in Fans, NEW r \in FanShape, NEW G, G \subseteq Reserving,
         NEW b \in BOOLEAN
  PROVE  LET o == [r EXCEPT !.refs = 0, !.state = OffState(f), !.enabled = b]
         IN  o \in FanShape /\ GoodFan(o, f, G)
  BY DEF FanShape, GoodFan, OffState

\* fan_stop of a fan that is well, whatever its count.
LEMMA FanStopWell ==
  ASSUME NEW P, NEW f \in Fans, NEW r \in FanShape, NEW G, G \subseteq Reserving,
         WellPumps(P, G), WellFans(fan, G), GoodFan(r, f, G), FanStop(P, r, f)
  PROVE  WellPumps(pump', G) /\ WellFans(fan', G)
  <1>1. PumpOf[f] \in Pumps
    BY PumpsAssumption
  <1>2. WellPumps(pump', G)
    BY <1>1, PumpStopWell DEF FanStop
  <1>3. r.refs \in Nat /\ r.enabled \in BOOLEAN
    BY DEF FanShape
  <1>4. PICK answers \in BOOLEAN :
          fan' = [fan EXCEPT ![f] =
            CASE r.refs = 0 -> r
              [] r.refs = 1 -> [r EXCEPT !.refs = 0, !.state = OffState(f),
                                         !.enabled = @ /\ answers]
              [] OTHER -> [r EXCEPT !.refs = @ - 1]]
    BY DEF FanStop
  <1>5. CASE r.refs = 0
    <2>1. fan' = [fan EXCEPT ![f] = r]
      BY <1>4, <1>5
    <2>2. WellFans([fan EXCEPT ![f] = r], G)
      BY OneFanWell
    <2>3. QED
      BY <1>2, <2>1, <2>2
  <1>6. CASE r.refs = 1
    <2>1. PICK b \in BOOLEAN : b = (r.enabled /\ answers)
      OBVIOUS
    <2> DEFINE o == [r EXCEPT !.refs = 0, !.state = OffState(f), !.enabled = b]
    <2>2. fan' = [fan EXCEPT ![f] = o]
      BY <1>4, <1>6, <2>1
    <2>3. o \in FanShape /\ GoodFan(o, f, G)
      BY FanOffGood
    <2> HIDE DEF o
    <2>4. WellFans([fan EXCEPT ![f] = o], G)
      BY <2>3, OneFanWell
    <2>5. QED
      BY <1>2, <2>2, <2>4
  <1>7. CASE r.refs # 0 /\ r.refs # 1
    <2>1. r.refs - 1 \in Nat
      BY <1>3, <1>7
    <2>2. PICK n \in Nat : n = r.refs - 1
      BY <2>1
    <2> DEFINE o == [r EXCEPT !.refs = n]
    <2>3. fan' = [fan EXCEPT ![f] = o]
      BY <1>4, <1>7, <2>2
    <2>4. o \in FanShape /\ GoodFan(o, f, G)
      BY DEF FanShape, GoodFan
    <2> HIDE DEF o
    <2>5. WellFans([fan EXCEPT ![f] = o], G)
      BY <2>4, OneFanWell
    <2>6. QED
      BY <1>2, <2>3, <2>5
  <1>8. QED
    BY <1>5, <1>6, <1>7

LEMMA FanForceStopWell ==
  ASSUME NEW f \in Fans, NEW r \in FanShape, PlantInv,
         GoodFan(r, f, granted), FanForceStop(r, f)
  PROVE  WellPumps(pump', granted) /\ WellFans(fan', granted)
  <1>1. PumpOf[f] \in Pumps
    BY PumpsAssumption
  <1>2. WellPumps(PumpForceStop(pump, PumpOf[f]), granted)
    BY <1>1, PumpForceStopWell DEF PlantInv
  <1>3. [r EXCEPT !.refs = 1] \in FanShape /\ GoodFan([r EXCEPT !.refs = 1], f, granted)
    BY DEF FanShape, GoodFan
  <1>4. QED
    BY <1>2, <1>3, FanStopWell DEF PlantInv, FanForceStop

LEMMA FanUncallWell ==
  ASSUME PlantInv, NEW f \in Fans, FanUncall(f)
  PROVE  WellPumps(pump', granted) /\ WellFans(fan', granted)
  <1> DEFINE r == [fan[f] EXCEPT !.refs = 1, !.called = FALSE]
  <1>1. fan[f] \in FanShape /\ GoodFan(fan[f], f, granted)
    BY WellFan DEF PlantInv
  <1>2. r \in FanShape /\ GoodFan(r, f, granted)
    BY <1>1 DEF FanShape, GoodFan
  <1>3. FanStop(pump, r, f) \/ (fan' = fan /\ pump' = pump)
    BY DEF FanUncall
  <1> HIDE DEF r
  <1>4. QED
    BY <1>2, <1>3, FanStopWell DEF PlantInv

\* What the invariant says of a fan whose turn it is.
LEMMA FanInStep ==
  ASSUME PlantInv, NEW f \in Fans, NEW s, FanIn(f, s)
  PROVE  /\ WellPumps(pump, granted) /\ WellFans(fan, granted)
         /\ granted \subseteq Reserving
         /\ fan \in [Fans -> FanShape]
         /\ fan[f] \in FanShape /\ GoodFan(fan[f], f, granted)
         /\ fan[f].state = s
         /\ s = "reserve" => f \in Reserving
         /\ PumpOf[f] \in Pumps
  <1>1. WellFans(fan, granted) /\ fan[f].state = s
    BY DEF PlantInv, FanIn
  <1>2. fan[f] \in FanShape /\ GoodFan(fan[f], f, granted)
    BY <1>1, WellFan
  <1>3. PumpOf[f] \in Pumps
    BY PumpsAssumption
  <1>4. QED
    BY <1>1, <1>2, <1>3 DEF PlantInv, WellFans, GoodFan

LEMMA FanBeginsWell ==
  ASSUME PlantInv, NEW f \in Fans, FanBegins(f)
  PROVE  WellFans(fan', granted) /\ pump' = pump
  <1>1. WellFans(fan, granted)
    BY FanInStep DEF FanBegins
  <1>2. CASE f \in Reserving
    <2>1. WellFans([fan EXCEPT ![f].state = "reserve"], granted)
      BY <1>1, <1>2, FanToWell
    <2>2. QED
      BY <1>1, <1>2, <2>1 DEF FanBegins, FanTo, FanStays, FirstState, PumpStays
  <1>3. CASE f \notin Reserving
    <2>1. WellFans([fan EXCEPT ![f].state = "start pump"], granted)
      BY <1>1, FanToWell
    <2>2. QED
      BY <1>1, <1>3, <2>1 DEF FanBegins, FanTo, FanStays, FirstState, PumpStays
  <1>4. QED
    BY <1>2, <1>3

LEMMA FanReservesWell ==
  ASSUME PlantInv, NEW f \in Fans, FanReserves(f)
  PROVE  WellFans(fan', granted') /\ granted' \subseteq Reserving
         /\ \A x \in Objects \ {f} : x \in granted <=> x \in granted'
  <1>1. /\ WellFans(fan, granted) /\ fan[f].state = "reserve"
        /\ f \in Reserving /\ granted \subseteq Reserving
    BY FanInStep DEF FanReserves
  <1>2. granted' = granted \/ granted' = granted \cup {f}
    BY DEF FanReserves, Asks
  <1>3. ASSUME NEW x \in Fans PROVE GoodFan(fan[x], x, granted')
    <2>1. GoodFan(fan[x], x, granted)
      BY <1>1 DEF WellFans
    <2>2. QED
      BY <1>1, <1>2, <2>1 DEF GoodFan
  <1>4. WellFans(fan, granted')
    BY <1>1, <1>3 DEF WellFans
  <1>5. CASE f \notin granted'
    <2>1. WellFans([fan EXCEPT ![f].state = "reserve"], granted')
      BY <1>1, <1>4, FanToWell
    <2>2. fan' = [fan EXCEPT ![f].state = "reserve"]
      BY <1>5 DEF FanReserves, FanTo, Granted
    <2>3. QED
      BY <1>1, <1>2, <2>1, <2>2
  <1>6. CASE f \in granted'
    <2>1. WellFans([fan EXCEPT ![f].state = "start pump"], granted')
      BY <1>4, FanToWell
    <2>2. fan' = [fan EXCEPT ![f].state = "start pump"]
      BY <1>6 DEF FanReserves, FanTo, Granted
    <2>3. QED
      BY <1>1, <1>2, <2>1, <2>2
  <1>7. QED
    BY <1>5, <1>6

LEMMA FanReleasesWell ==
  ASSUME PlantInv, NEW f \in Fans, FanReleases(f)
  PROVE  WellFans(fan', granted') /\ granted' \subseteq Reserving
         /\ \A x \in Objects \ {f} : x \in granted <=> x \in granted'
  <1> DEFINE r == [fan[f] EXCEPT !.state = "stopped", !.called = FALSE]
  <1>1. /\ WellFans(fan, granted) /\ fan[f] \in FanShape
        /\ fan \in [Fans -> FanShape] /\ granted \subseteq Reserving
    BY FanInStep DEF FanReleases
  <1>2. granted' = granted \ {f}
    BY DEF FanReleases
  <1>3. fan' = [fan EXCEPT ![f] = r]
    BY <1>1 DEF FanReleases
  <1>4. r \in FanShape /\ GoodFan(r, f, granted')
    BY <1>1, <1>2 DEF FanShape, GoodFan
  <1> HIDE DEF r
  <1>5. \A x \in Fans \ {f} : GoodFan(fan[x], x, granted')
    BY <1>1, <1>2 DEF WellFans, GoodFan
  <1>6. WellFans(fan', granted')
    BY <1>1, <1>3, <1>4, <1>5 DEF WellFans
  <1>7. QED
    BY <1>1, <1>2, <1>6

LEMMA FanStartsPumpWell ==
  ASSUME PlantInv, NEW f \in Fans, FanStartsPump(f)
  PROVE  WellPumps(pump', granted) /\ WellFans(fan', granted)
  <1>1. /\ WellPumps(pump, granted) /\ WellFans(fan, granted)
        /\ granted \subseteq Reserving /\ PumpOf[f] \in Pumps
        /\ fan[f] \in FanShape
    BY FanInStep DEF FanStartsPump
  <1>2. WellPumps(pump', granted)
    BY <1>1, PumpStartWell DEF FanStartsPump
  <1>3. CASE pump[PumpOf[f]].enabled
    <2>1. WellFans([fan EXCEPT ![f].state = "wait pump"], granted)
      BY <1>1, FanToWell
    <2>2. QED
      BY <1>2, <1>3, <2>1 DEF FanStartsPump, FanTo
  <1>4. CASE ~pump[PumpOf[f]].enabled
    <2> DEFINE r == [fan[f] EXCEPT !.state = OffState(f)]
    <2>1. r \in FanShape /\ GoodFan(r, f, granted)
      BY <1>1 DEF FanShape, GoodFan, OffState
    <2>2. fan' = [fan EXCEPT ![f] = r]
      BY <1>4 DEF FanStartsPump, FanTo
    <2> HIDE DEF r
    <2>3. WellFans([fan EXCEPT ![f] = r], granted)
      BY <1>1, <2>1, OneFanWell
    <2>4. QED
      BY <1>2, <2>2, <2>3
  <1>5. QED
    BY <1>3, <1>4

LEMMA FanWaitsWell ==
  ASSUME PlantInv, NEW f \in Fans, NEW late \in BOOLEAN,
         FanWaitsPump(f, late) \/ FanWaits(f, late)
  PROVE  WellFans(fan', granted) /\ pump' = pump
  <1>1. WellFans(fan, granted)
    BY DEF PlantInv
  <1>2. \/ \E s \in {"wait pump", "start", "error", "release", "running"} :
             fan' = [fan EXCEPT ![f].state = s]
        \/ fan' = fan
    BY DEF FanWaitsPump, FanWaits, FanTo, FanStays, WaitOutcomes
  <1>3. ASSUME NEW s \in {"wait pump", "start", "error", "release", "running"}
        PROVE  WellFans([fan EXCEPT ![f].state = s], granted)
    BY <1>1, FanToWell
  <1>4. QED
    BY <1>1, <1>2, <1>3 DEF FanWaitsPump, FanWaits, PumpStays

LEMMA FanStartsWell ==
  ASSUME PlantInv, NEW f \in Fans, FanStarts(f)
  PROVE  WellFans(fan', granted) /\ pump' = pump
  <1> DEFINE r == [fan[f] EXCEPT !.state = "error", !.enabled = FALSE]
  <1>1. /\ WellFans(fan, granted) /\ fan[f] \in FanShape
        /\ fan \in [Fans -> FanShape]
    BY FanInStep DEF FanStarts
  <1>2. WellFans([fan EXCEPT ![f].state = "wait start"], granted)
    BY <1>1, FanToWell
  <1>3. r \in FanShape /\ GoodFan(r, f, granted)
    BY <1>1 DEF FanShape, GoodFan
  <1>4. [fan EXCEPT ![f].state = "error", ![f].enabled = FALSE] = [fan EXCEPT ![f] = r]
    BY <1>1
  <1> HIDE DEF r
  <1>5. WellFans([fan EXCEPT ![f] = r], granted)
    BY <1>1, <1>3, OneFanWell
  <1>6. QED
    BY <1>2, <1>4, <1>5 DEF FanStarts, FanTo, PumpStays

LEMMA FanRunsWell ==
  ASSUME PlantInv, NEW f \in Fans, FanRuns(f)
  PROVE  WellPumps(pump', granted) /\ WellFans(fan', granted)
  BY FanUncallWell DEF FanRuns, FanStays, PumpStays, PlantInv

LEMMA FanFailsWell ==
  ASSUME PlantInv, NEW f \in Fans, FanFails(f)
  PROVE  WellPumps(pump', granted) /\ WellFans(fan', granted)
  <1> DEFINE r == [fan[f] EXCEPT !.enabled = FALSE, !.error = TRUE]
  <1>1. fan[f] \in FanShape /\ GoodFan(fan[f], f, granted)
    BY FanInStep DEF FanFails
  <1>2. r \in FanShape /\ GoodFan(r, f, granted)
    BY <1>1 DEF FanShape, GoodFan
  <1>3. FanForceStop(r, f)
    BY DEF FanFails
  <1> HIDE DEF r
  <1>4. QED
    BY <1>2, <1>3, FanForceStopWell

LEMMA FanTurnStep ==
  ASSUME PlantInv, NEW f \in Fans, NEW late \in BOOLEAN, FanTurn(f, late)
  PROVE  PlantInv'
  <1>1. unit' = unit /\ mode' = mode
    BY DEF FanTurn
  <1>2. \/ WellPumps(pump', granted) /\ WellFans(fan', granted) /\ granted' = granted
        \/ /\ WellFans(fan', granted') /\ granted' \subseteq Reserving /\ pump' = pump
           /\ \A x \in Objects \ {f} : x \in granted <=> x \in granted'
    <2>1. CASE FanStays /\ PumpStays /\ granted' = granted
      BY <2>1 DEF FanStays, PumpStays, PlantInv
    <2>2. CASE FanReserves(f) \/ FanReleases(f)
      BY <2>2, FanReservesWell, FanReleasesWell DEF FanReserves, FanReleases, PumpStays
    <2>3. CASE /\ FanBegins(f) \/ FanStarts(f)
                  \/ FanWaitsPump(f, late) \/ FanWaits(f, late)
               /\ granted' = granted
      BY <2>3, FanBeginsWell, FanStartsWell, FanWaitsWell DEF PlantInv
    <2>4. QED
      BY <2>1, <2>2, <2>3, FanStartsPumpWell, FanRunsWell, FanFailsWell DEF FanTurn
  <1>3. WellFans(fan', granted') /\ granted' \subseteq Reserving
    BY <1>2 DEF PlantInv
  <1>4. WellPumps(pump', granted') /\ WellUnits(unit, granted')
    <2>1. CASE granted' = granted
      BY <1>2, <2>1 DEF PlantInv
    <2>2. CASE pump' = pump /\ \A x \in Objects \ {f} : x \in granted <=> x \in granted'
      <3>1. \A x \in Pumps \cup Units : x \in granted <=> x \in granted'
        BY <2>2, ObjectsAssumption DEF Objects
      <3>2. QED
        BY <2>2, <3>1, PumpsFrame, UnitsFrame DEF PlantInv
    <2>3. QED
      BY <1>2, <2>1, <2>2
  <1>5. QED
    BY <1>1, <1>3, <1>4 DEF PlantInv, WellPumps, WellUnits, WellFans

-----------------------------------------------------------------------------
(* The commands.                                                           *)

\* A command leaves the grants alone: it is enough that what it changes stays
\* well.
LEMMA CommandKeeps ==
  ASSUME PlantInv, granted' = granted, mode' \in Modes,
         WellPumps(pump', granted), WellUnits(unit', granted), WellFans(fan', granted)
  PROVE  PlantInv'
  BY DEF PlantInv, WellPumps, WellUnits, WellFans

\* disable_pump and enable_pump
LEMMA SwitchPumpWell ==
  ASSUME PlantInv, NEW p \in Pumps, SwitchPump(p)
  PROVE  WellPumps(pump', granted)
  <1>1. PICK b \in BOOLEAN : b = ~pump[p].enabled
    OBVIOUS
  <1> DEFINE r == [pump[p] EXCEPT !.enabled = b]
  <1>2. r \in PumpShape /\ GoodPump(r, p, granted)
    BY WellPump DEF PlantInv, PumpShape, GoodPump
  <1>3. pump' = [pump EXCEPT ![p] = r]
    BY <1>1 DEF SwitchPump
  <1> HIDE DEF r
  <1>4. WellPumps([pump EXCEPT ![p] = r], granted)
    BY <1>2, OnePumpWell DEF PlantInv
  <1>5. QED
    BY <1>3, <1>4

LEMMA PumpCommandStep ==
  ASSUME PlantInv, NEW p \in Pumps,
         StartPump(p) \/ StopPump(p) \/ ForceStopPump(p) \/ RevokePump(p) \/ SwitchPump(p)
  PROVE  PlantInv'
  <1>1. granted' = granted /\ unit' = unit /\ fan' = fan /\ mode' = mode
    BY DEF StartPump, StopPump, ForceStopPump, RevokePump, SwitchPump, Commanded
  <1>2. WellPumps(pump', granted)
    BY PumpStartWell, PumpStopWell, PumpForceStopWell, PumpRevokeWell, SwitchPumpWell
       DEF StartPump, StopPump, ForceStopPump, RevokePump, PlantInv
  <1>3. QED
    BY <1>1, <1>2, CommandKeeps DEF PlantInv

\* start_unit, disable_unit and enable_unit
LEMMA StartUnitWell ==
  ASSUME PlantInv, NEW u \in Units, StartUnit(u)
  PROVE  WellUnits(unit', granted)
  <1>1. unit[u] \in UnitShape /\ GoodUnit(unit[u], u, granted) /\ unit[u].refs \in Nat
    BY WellUnit DEF PlantInv
  <1>2. PICK n \in Nat : n = unit[u].refs + 1
    BY <1>1
  <1> DEFINE r == [unit[u] EXCEPT !.refs = n]
  <1>3. r \in UnitShape /\ GoodUnit(r, u, granted)
    BY <1>1, UnitCountGood
  <1>4. unit' = [unit EXCEPT ![u] = r]
    BY <1>2 DEF StartUnit
  <1> HIDE DEF r
  <1>5. WellUnits([unit EXCEPT ![u] = r], granted)
    BY <1>3, OneUnitWell DEF PlantInv
  <1>6. QED
    BY <1>4, <1>5

LEMMA SwitchUnitWell ==
  ASSUME PlantInv, NEW u \in Units, SwitchUnit(u)
  PROVE  WellUnits(unit', granted)
  <1>1. PICK b \in BOOLEAN : b = ~unit[u].enabled
    OBVIOUS
  <1> DEFINE r == [unit[u] EXCEPT !.enabled = b]
  <1>2. unit[u] \in UnitShape /\ GoodUnit(unit[u], u, granted)
    BY WellUnit DEF PlantInv
  <1>3. r \in UnitShape /\ GoodUnit(r, u, granted)
    BY <1>2 DEF UnitShape, GoodUnit
  <1>4. unit' = [unit EXCEPT ![u] = r]
    BY <1>1 DEF SwitchUnit
  <1> HIDE DEF r
  <1>5. WellUnits([unit EXCEPT ![u] = r], granted)
    BY <1>3, OneUnitWell DEF PlantInv
  <1>6. QED
    BY <1>4, <1>5

LEMMA UnitCommandStep ==
  ASSUME PlantInv, NEW u \in Units,
         StartUnit(u) \/ StopUnit(u) \/ ForceStopUnit(u) \/ RevokeUnit(u) \/ SwitchUnit(u)
  PROVE  PlantInv'
  <1>1. granted' = granted /\ fan' = fan /\ mode' = mode
    BY DEF StartUnit, StopUnit, ForceStopUnit, RevokeUnit, SwitchUnit, Commanded
  <1>2. /\ unit[u] \in UnitShape /\ GoodUnit(unit[u], u, granted)
        /\ [unit[u] EXCEPT !.refs = 1] \in UnitShape
        /\ GoodUnit([unit[u] EXCEPT !.refs = 1], u, granted)
    BY WellUnit, UnitCountGood DEF PlantInv
  <1>3. CASE StartUnit(u) \/ SwitchUnit(u)
    BY <1>1, <1>3, StartUnitWell, SwitchUnitWell, CommandKeeps
       DEF StartUnit, SwitchUnit, PlantInv
  <1>4. CASE UnitForceStop(unit[u], u)
    BY <1>1, <1>2, <1>4, UnitForceStopWell, CommandKeeps DEF PlantInv
  <1>5. CASE UnitStop(pump, unit[u], u)
    BY <1>1, <1>2, <1>5, UnitStopWell, CommandKeeps DEF PlantInv
  <1>6. CASE UnitStop(pump, [unit[u] EXCEPT !.refs = 1], u)
    BY <1>1, <1>2, <1>6, UnitStopWell, CommandKeeps DEF PlantInv
  <1>7. QED
    BY <1>3, <1>4, <1>5, <1>6 DEF StopUnit, ForceStopUnit, RevokeUnit

\* start_fan, a call of the thermostat, disable_fan and enable_fan
LEMMA StartFanWell ==
  ASSUME PlantInv, NEW f \in Fans, StartFan(f) \/ CallFan(f) \/ SwitchFan(f)
  PROVE  WellFans(fan', granted)
  <1>1. /\ fan[f] \in FanShape /\ GoodFan(fan[f], f, granted)
        /\ fan[f].refs \in Nat /\ fan \in [Fans -> FanShape]
    BY WellFan DEF PlantInv, WellFans
  <1>2. /\ fan[f].refs + 1 \in Nat
        /\ (~fan[f].enabled) \in BOOLEAN
        /\ (fan[f].called /\ fan[f].enabled) \in BOOLEAN
    BY <1>1
  <1>3. PICK n \in Nat, b \in BOOLEAN, c \in BOOLEAN :
          /\ n = fan[f].refs + 1
          /\ b = ~fan[f].enabled
          /\ c = (fan[f].called /\ fan[f].enabled)
    BY <1>2
  <1> DEFINE counted == [fan[f] EXCEPT !.refs = n]
             called == [fan[f] EXCEPT !.called = TRUE]
             both == [fan[f] EXCEPT !.called = TRUE, !.refs = n]
             switched == [fan[f] EXCEPT !.enabled = b, !.called = c]
  <1>4. /\ counted \in FanShape /\ GoodFan(counted, f, granted)
        /\ called \in FanShape /\ GoodFan(called, f, granted)
        /\ both \in FanShape /\ GoodFan(both, f, granted)
        /\ switched \in FanShape /\ GoodFan(switched, f, granted)
    BY <1>1 DEF FanShape, GoodFan
  <1>5. CASE StartFan(f)
    <2>1. fan' = [fan EXCEPT ![f] = counted]
      BY <1>3, <1>5 DEF StartFan
    <2> HIDE DEF counted
    <2>2. WellFans([fan EXCEPT ![f] = counted], granted)
      BY <1>4, OneFanWell DEF PlantInv
    <2>3. QED
      BY <2>1, <2>2
  <1>6. CASE CallFan(f)
    <2>1. fan' = [fan EXCEPT ![f] = called] \/ fan' = [fan EXCEPT ![f] = both]
      BY <1>1, <1>3, <1>6 DEF CallFan
    <2> HIDE DEF called, both
    <2>2. /\ WellFans([fan EXCEPT ![f] = called], granted)
          /\ WellFans([fan EXCEPT ![f] = both], granted)
      BY <1>4, OneFanWell DEF PlantInv
    <2>3. QED
      BY <2>1, <2>2
  <1>7. CASE SwitchFan(f)
    <2>1. fan' = [fan EXCEPT ![f] = switched]
      BY <1>1, <1>3, <1>7 DEF SwitchFan
    <2> HIDE DEF switched
    <2>2. WellFans([fan EXCEPT ![f] = switched], granted)
      BY <1>4, OneFanWell DEF PlantInv
    <2>3. QED
      BY <2>1, <2>2
  <1>8. QED
    BY <1>5, <1>6, <1>7

LEMMA FanCommandStep ==
  ASSUME PlantInv, NEW f \in Fans,
         \/ StartFan(f) \/ StopFan(f) \/ ForceStopFan(f)
         \/ CallFan(f) \/ UncallFan(f) \/ RevokeFan(f) \/ SwitchFan(f)
  PROVE  PlantInv'
  <1>1. granted' = granted /\ unit' = unit /\ mode' = mode
    BY DEF StartFan, StopFan, ForceStopFan, CallFan, UncallFan, RevokeFan, SwitchFan,
           Commanded
  <1>2. /\ fan[f] \in FanShape /\ GoodFan(fan[f], f, granted)
        /\ [fan[f] EXCEPT !.refs = 1] \in FanShape
        /\ GoodFan([fan[f] EXCEPT !.refs = 1], f, granted)
    BY WellFan DEF PlantInv, FanShape, GoodFan
  <1>3. CASE StartFan(f) \/ CallFan(f) \/ SwitchFan(f)
    BY <1>1, <1>3, StartFanWell, CommandKeeps DEF StartFan, CallFan, SwitchFan, PlantInv
  <1>4. CASE FanForceStop(fan[f], f)
    BY <1>1, <1>2, <1>4, FanForceStopWell, CommandKeeps DEF PlantInv
  <1>5. CASE FanStop(pump, fan[f], f)
    BY <1>1, <1>2, <1>5, FanStopWell, CommandKeeps DEF PlantInv
  <1>6. CASE FanStop(pump, [fan[f] EXCEPT !.refs = 1], f)
    BY <1>1, <1>2, <1>6, FanStopWell, CommandKeeps DEF PlantInv
  <1>7. CASE FanUncall(f)
    BY <1>1, <1>7, FanUncallWell, CommandKeeps DEF PlantInv
  <1>8. QED
    BY <1>3, <1>4, <1>5, <1>6, <1>7 DEF StopFan, ForceStopFan, UncallFan, RevokeFan

\* clear_error("all")
LEMMA ClearErrorsStep ==
  ASSUME PlantInv, ClearErrors
  PROVE  PlantInv'
  <1>1. granted' = granted /\ mode' = mode
    BY DEF ClearErrors, Commanded
  <1>2. ASSUME NEW p \in Pumps
        PROVE  /\ [pump[p] EXCEPT !.error = FALSE] \in PumpShape
               /\ GoodPump([pump[p] EXCEPT !.error = FALSE], p, granted)
    BY WellPump DEF PlantInv, PumpShape, GoodPump
  <1>3. ASSUME NEW u \in Units
        PROVE  /\ [unit[u] EXCEPT !.error = FALSE] \in UnitShape
               /\ GoodUnit([unit[u] EXCEPT !.error = FALSE], u, granted)
    <2>1. unit[u] \in UnitShape /\ GoodUnit(unit[u], u, granted)
      BY WellUnit DEF PlantInv
    <2>2. QED
      BY <2>1 DEF UnitShape, GoodUnit
  <1>4. ASSUME NEW f \in Fans
        PROVE  /\ [fan[f] EXCEPT !.error = FALSE] \in FanShape
               /\ GoodFan([fan[f] EXCEPT !.error = FALSE], f, granted)
    BY WellFan DEF PlantInv, FanShape, GoodFan
  <1>5. WellPumps(pump', granted)
    BY <1>2 DEF ClearErrors, WellPumps
  <1>6. WellUnits(unit', granted)
    BY <1>3 DEF ClearErrors, WellUnits
  <1>7. WellFans(fan', granted)
    BY <1>4 DEF ClearErrors, WellFans
  <1>8. QED
    BY <1>1, <1>5, <1>6, <1>7, CommandKeeps DEF PlantInv

\* The mode of a unit says nothing of its power.
LEMMA SetModeStep ==
  ASSUME PlantInv, NEW m \in Modes, SetMode(m)
  PROVE  PlantInv'
  <1>1. granted' = granted /\ mode' = m /\ pump' = pump /\ fan' = fan
    BY DEF SetMode, Commanded
  <1>2. ASSUME NEW u \in Units
        PROVE  /\ [unit[u] EXCEPT !.mode = m] \in UnitShape
               /\ GoodUnit([unit[u] EXCEPT !.mode = m], u, granted)
    <2> DEFINE r == [unit[u] EXCEPT !.mode = m]
    <2>1. unit[u] \in UnitShape /\ GoodUnit(unit[u], u, granted)
      BY WellUnit DEF PlantInv
    <2>2. r \in UnitShape /\ r.state = unit[u].state
      BY <2>1 DEF UnitShape
    <2> HIDE DEF r
    <2>3. GoodUnit(r, u, granted)
      BY <2>1, <2>2 DEF GoodUnit
    <2>4. QED
      BY <2>2, <2>3 DEF r
  <1>3. \A u \in Units : unit[u] \in UnitShape /\ GoodUnit(unit[u], u, granted)
    BY DEF PlantInv, WellUnits
  <1>4. WellUnits(unit', granted)
    BY <1>2, <1>3 DEF SetMode, WellUnits
  <1>5. QED
    BY <1>1, <1>4, CommandKeeps DEF PlantInv

\* A restart switches everything off.
LEMMA RestartStep ==
  ASSUME PlantInv, Restart
  PROVE  PlantInv'
  <1>1. granted' = granted /\ mode' = mode /\ granted \subseteq Reserving /\ mode \in Modes
    BY DEF Restart, Commanded, PlantInv
  <1>2. ASSUME NEW p \in Pumps
        PROVE  LET s == SwitchedOff([pump[p] EXCEPT !.refs = 0, !.error = FALSE], p)
               IN  s \in PumpShape /\ GoodPump(s, p, granted)
    <2>1. [pump[p] EXCEPT !.refs = 0, !.error = FALSE] \in PumpShape
      BY WellPump DEF PlantInv, PumpShape
    <2>2. QED
      BY <1>1, <2>1, SwitchedOffGood
  <1>3. ASSUME NEW u \in Units
        PROVE  LET s == UnitOffRecord([unit[u] EXCEPT !.mode = ModeFound(unit[u]),
                                                     !.refs = 0, !.error = FALSE], u)
               IN  s \in UnitShape /\ GoodUnit(s, u, granted)
    <2> DEFINE r == [unit[u] EXCEPT !.mode = ModeFound(unit[u]), !.refs = 0,
                                    !.error = FALSE]
    <2>1. unit[u] \in UnitShape /\ GoodUnit(unit[u], u, granted)
      BY WellUnit DEF PlantInv
    <2>2. ModeFound(unit[u]) \in Modes
      BY <1>1, <2>1 DEF ModeFound, UnitShape
    <2>3. PICK m \in Modes : m = ModeFound(unit[u])
      BY <2>2
    <2>4. r \in UnitShape
      BY <2>1, <2>3 DEF UnitShape
    <2> HIDE DEF r
    <2>5. UnitOffRecord(r, u) \in UnitShape /\ GoodUnit(UnitOffRecord(r, u), u, granted)
      BY <1>1, <2>4, UnitOffGood
    <2>6. QED
      BY <2>5 DEF r
  <1>4. ASSUME NEW f \in Fans
        PROVE  LET s == [fan[f] EXCEPT !.state = OffState(f), !.refs = 0,
                                       !.error = FALSE, !.called = FALSE]
               IN  s \in FanShape /\ GoodFan(s, f, granted)
    BY <1>1, WellFan DEF PlantInv, FanShape, GoodFan, OffState
  <1>5. WellPumps(pump', granted)
    BY <1>2 DEF Restart, WellPumps
  <1>6. WellUnits(unit', granted)
    BY <1>3 DEF Restart, WellUnits
  <1>7. WellFans(fan', granted)
    BY <1>4 DEF Restart, WellFans
  <1>8. QED
    BY <1>1, <1>5, <1>6, <1>7, CommandKeeps

-----------------------------------------------------------------------------
(* The theorems.                                                           *)

LEMMA PlantInitially ==
  ASSUME Init PROVE PlantInv
  BY DEF Init, PlantInv, WellPumps, WellUnits, WellFans, PumpShape, UnitShape,
         FanShape, GoodPump, GoodUnit, GoodFan, Powered

LEMMA PlantStep ==
  ASSUME PlantInv, [Next]_vars PROVE PlantInv'
  <1>1. CASE Command
    BY <1>1, PumpCommandStep, UnitCommandStep, FanCommandStep, ClearErrorsStep,
       SetModeStep, RestartStep DEF Command
  <1>2. CASE Cycle
    BY <1>2, PumpTurnStep, UnitTurnStep, FanTurnStep DEF Cycle
  <1>3. CASE UNCHANGED vars
    BY <1>3 DEF vars, PlantInv, WellPumps, WellUnits, WellFans
  <1>4. QED
    BY <1>1, <1>2, <1>3 DEF Next

\* Whatever commands, turns, answers of the PA, failures and restarts go before:
\* what the state of an object says of its power, its pins and its count is so.
THEOREM PlantInvariant == Spec => []PlantInv
  BY PlantInitially, PlantStep, PTL DEF Spec

\* Every way to STOPPED, by unit_off, pump_off, fan_off, a force stop, a failure or
\* a restart, goes through the release of the power that was granted.
THEOREM PowerIsReleased == Spec => []GrantedIsReleased
  <1>1. PlantInv => GrantedIsReleased
    BY DEF PlantInv, WellPumps, WellUnits, WellFans, GoodPump, GoodUnit, GoodFan,
           GrantedIsReleased
  <1>2. QED
    BY <1>1, PlantInvariant, PTL

\* pump_stop, pump_force_stop, pump_revoke and the restart leave no pump on that
\* nobody counts on, unless it cools down.
THEOREM UnusedPumpsAreOff == Spec => []OffWhenUnused
  <1>1. PlantInv => OffWhenUnused
    <2> SUFFICES ASSUME PlantInv, NEW p \in Pumps, pump[p].pin, pump[p].refs = 0
                 PROVE  pump[p].state = "cooldown"
      BY DEF OffWhenUnused
    <2>1. pump[p].pin \in BOOLEAN
      BY DEF PlantInv, WellPumps, PumpShape
    <2>2. pump[p].pin = TRUE
      BY <2>1
    <2>3. QED
      BY <2>2 DEF PlantInv, WellPumps, GoodPump
  <1>2. QED
    BY <1>1, PlantInvariant, PTL

\* Whatever is on, in RUNNING or about to be switched off, has power the PA granted
\* and that was not released; and so has every pump whose relay is closed.
THEOREM PowerIsGranted == Spec => []PoweredMeansGranted
  <1>1. PlantInv => PoweredMeansGranted
    <2> SUFFICES ASSUME PlantInv PROVE PoweredMeansGranted
      OBVIOUS
    <2>1. ASSUME NEW u \in Units \cap Reserving, unit[u].state \in {"running", "error"}
          PROVE  u \in granted
      BY <2>1 DEF PlantInv, WellUnits, GoodUnit, Powered
    <2>2. ASSUME NEW p \in Pumps \cap Reserving, pump[p].pin
          PROVE  p \in granted
      <3>1. pump[p].pin \in BOOLEAN
        BY DEF PlantInv, WellPumps, PumpShape
      <3>2. pump[p].pin = TRUE
        BY <2>2, <3>1
      <3>3. QED
        BY <3>2 DEF PlantInv, WellPumps, GoodPump
    <2>3. QED
      BY <2>1, <2>2 DEF PoweredMeansGranted
  <1>2. QED
    BY <1>1, PlantInvariant, PTL

-----------------------------------------------------------------------------
(* The control over the compressors.                                       *)

\* No unit loses the control over its compressor
ControlKept == \A u \in Units : Controlled(unit[u]) => Controlled(unit'[u])

\* One unit is replaced by a record that is under control if it was.
LEMMA OneUnitControlled ==
  ASSUME NEW u \in Units, NEW r, unit \in [Units -> UnitShape],
         unit' = [unit EXCEPT ![u] = r],
         Controlled(unit[u]) => Controlled(r)
  PROVE  ControlKept
  BY DEF ControlKept

\* unit_off opens the only contactor that may be closed.
LEMMA UnitOffControlled ==
  ASSUME NEW u, NEW r \in UnitShape, mode \in Modes, Controlled(r)
  PROVE  Controlled(UnitOffRecord(r, u))
  <1> DEFINE o == UnitOffRecord(r, u)
  <1>1. o.contactors = r.contactors \ {r.mode}
    BY DEF UnitOffRecord, UnitShape
  <1> HIDE DEF o
  <1>2. o.contactors = {}
    BY <1>1 DEF Controlled
  <1>3. Controlled(o)
    BY <1>2 DEF Controlled
  <1>4. QED
    BY <1>3 DEF o

\* unit_stop, unit_force_stop
LEMMA UnitStopControlled ==
  ASSUME NEW u \in Units, NEW P, NEW r \in UnitShape, unit \in [Units -> UnitShape],
         mode \in Modes, UnitStop(P, r, u), Controlled(unit[u]) => Controlled(r)
  PROVE  ControlKept
  <1>1. ASSUME NEW n \in Nat, Controlled(r) PROVE Controlled([r EXCEPT !.refs = n])
    BY <1>1 DEF Controlled, UnitShape
  <1>2. CASE r.refs = 0
    <2>1. unit' = [unit EXCEPT ![u] = r]
      BY <1>2 DEF UnitStop
    <2>2. QED
      BY <2>1, OneUnitControlled
  <1>3. CASE r.refs = 1
    <2> DEFINE z == [r EXCEPT !.refs = 0]
               o == UnitOffRecord(z, u)
    <2>1. z \in UnitShape
      BY DEF UnitShape
    <2>2. Controlled(unit[u]) => Controlled(z)
      BY <1>1
    <2>3. unit' = [unit EXCEPT ![u] = o]
      BY <1>3 DEF UnitStop
    <2> HIDE DEF z
    <2>4. Controlled(unit[u]) => Controlled(o)
      BY <2>1, <2>2, UnitOffControlled
    <2> HIDE DEF o
    <2>5. QED
      BY <2>3, <2>4, OneUnitControlled
  <1>4. CASE r.refs # 0 /\ r.refs # 1
    <2>1. PICK n \in Nat : n = r.refs - 1
      <3>1. r.refs \in Nat
        BY DEF UnitShape
      <3> QED BY <1>4, <3>1
    <2>2. unit' = [unit EXCEPT ![u] = [r EXCEPT !.refs = n]]
      BY <1>4, <2>1 DEF UnitStop
    <2>3. Controlled(unit[u]) => Controlled([r EXCEPT !.refs = n])
      BY <1>1
    <2>4. QED
      BY <2>2, <2>3, OneUnitControlled
  <1>5. QED
    BY <1>2, <1>3, <1>4

LEMMA UnitForceStopControlled ==
  ASSUME NEW u \in Units, NEW r \in UnitShape, unit \in [Units -> UnitShape],
         mode \in Modes, UnitForceStop(r, u), Controlled(unit[u]) => Controlled(r)
  PROVE  ControlKept
  <1> DEFINE s == [r EXCEPT !.refs = 1]
  <1>1. s \in UnitShape /\ (Controlled(unit[u]) => Controlled(s))
    BY DEF UnitShape, Controlled
  <1>2. UnitStop(PumpForceStop(pump, PumpOf[u]), s, u)
    BY DEF UnitForceStop
  <1> HIDE DEF s
  <1>3. QED
    BY <1>1, <1>2, UnitStopControlled

\* A unit whose compressor is off may go anywhere, and any unit may fail.
LEMMA UnitToControlled ==
  ASSUME NEW u \in Units, unit \in [Units -> UnitShape], NEW s, UnitTo(u, s),
         unit[u].state \notin {"running", "error"} \/ s = "error"
  PROVE  ControlKept
  <1> DEFINE r == [unit[u] EXCEPT !.state = s]
  <1>1. /\ r.state = s /\ r.contactors = unit[u].contactors /\ r.mode = unit[u].mode
    BY DEF UnitShape
  <1>2. unit' = [unit EXCEPT ![u] = r]
    BY DEF UnitTo
  <1> HIDE DEF r
  <1>3. Controlled(unit[u]) => Controlled(r)
    BY <1>1 DEF Controlled
  <1>4. QED
    BY <1>2, <1>3, OneUnitControlled

LEMMA UnitTurnControlled ==
  ASSUME PlantInv, NEW u \in Units, NEW late \in BOOLEAN, UnitTurn(u, late)
  PROVE  ControlKept
  <1>1. unit \in [Units -> UnitShape] /\ unit[u] \in UnitShape /\ mode \in Modes
    BY DEF PlantInv, WellUnits
  <1>2. CASE UnitStays
    BY <1>2 DEF UnitStays, ControlKept
  <1>3. ASSUME NEW s, UnitTo(u, s),
               \/ UnitIn(u, "stopped") \/ UnitIn(u, "reserve") \/ UnitIn(u, "start pump")
               \/ UnitIn(u, "wait pump") \/ UnitIn(u, "release")
        PROVE  ControlKept
    BY <1>1, <1>3, UnitToControlled DEF UnitIn
  <1>4. CASE UnitStarts(u)
    <2> DEFINE r == [unit[u] EXCEPT !.state = "running", !.mode = mode,
                                    !.contactors = unit[u].contactors \cup {mode}]
    <2>1. unit[u].state = "start" /\ unit' = [unit EXCEPT ![u] = r]
      BY <1>1, <1>4 DEF UnitStarts, UnitIn
    <2>2. /\ r.state = "running" /\ r.mode = mode
          /\ r.contactors = unit[u].contactors \cup {mode}
      BY <1>1 DEF UnitShape
    <2> HIDE DEF r
    <2>3. Controlled(unit[u]) => Controlled(r)
      BY <2>1, <2>2 DEF Controlled
    <2>4. QED
      BY <1>1, <2>1, <2>3, OneUnitControlled
  <1>5. CASE UnitRuns(u)
    <2> DEFINE r == [unit[u] EXCEPT !.refs = 1]
    <2>1. r \in UnitShape /\ (Controlled(unit[u]) => Controlled(r))
      BY <1>1 DEF UnitShape, Controlled
    <2>2. CASE UnitStop(pump, r, u)
      <3> HIDE DEF r
      <3> QED BY <1>1, <2>1, <2>2, UnitStopControlled
    <2>3. CASE UnitForceStop(unit[u], u)
      BY <1>1, <2>3, UnitForceStopControlled
    <2>4. CASE UnitTo(u, "error")
      BY <1>1, <2>4, UnitToControlled
    <2>5. QED
      BY <1>2, <1>5, <2>2, <2>3, <2>4 DEF UnitRuns
  <1>6. CASE UnitFails(u)
    <2> DEFINE r == [unit[u] EXCEPT !.enabled = FALSE, !.error = TRUE]
    <2>1. r \in UnitShape /\ (Controlled(unit[u]) => Controlled(r))
      BY <1>1 DEF UnitShape, Controlled
    <2>2. UnitForceStop(r, u)
      BY <1>6 DEF UnitFails
    <2> HIDE DEF r
    <2>3. QED
      BY <1>1, <2>1, <2>2, UnitForceStopControlled
  <1>7. CASE UnitReserves(u) \/ UnitReleases(u) \/ UnitStartsPump(u) \/ UnitWaits(u, late)
    BY <1>3, <1>7 DEF UnitReserves, UnitReleases, UnitStartsPump, UnitWaits
  <1>8. QED
    BY <1>2, <1>3, <1>4, <1>5, <1>6, <1>7 DEF UnitTurn

LEMMA UnitCommandControlled ==
  ASSUME PlantInv, NEW u \in Units,
         StartUnit(u) \/ StopUnit(u) \/ ForceStopUnit(u) \/ RevokeUnit(u) \/ SwitchUnit(u)
  PROVE  ControlKept
  <1>1. unit \in [Units -> UnitShape] /\ unit[u] \in UnitShape /\ mode \in Modes
    BY DEF PlantInv, WellUnits
  <1>2. CASE StartUnit(u)
    <2>1. PICK r : r = [unit[u] EXCEPT !.refs = @ + 1]
      OBVIOUS
    <2>2. unit' = [unit EXCEPT ![u] = r]
      BY <1>2, <2>1 DEF StartUnit
    <2>3. Controlled(unit[u]) => Controlled(r)
      BY <1>1, <2>1 DEF UnitShape, Controlled
    <2>4. QED
      BY <1>1, <2>2, <2>3, OneUnitControlled
  <1>3. CASE SwitchUnit(u)
    <2>1. PICK r : r = [unit[u] EXCEPT !.enabled = ~@]
      OBVIOUS
    <2>2. unit' = [unit EXCEPT ![u] = r]
      BY <1>3, <2>1 DEF SwitchUnit
    <2>3. Controlled(unit[u]) => Controlled(r)
      BY <1>1, <2>1 DEF UnitShape, Controlled
    <2>4. QED
      BY <1>1, <2>2, <2>3, OneUnitControlled
  <1>4. CASE UnitForceStop(unit[u], u)
    BY <1>1, <1>4, UnitForceStopControlled
  <1>5. CASE UnitStop(pump, unit[u], u)
    BY <1>1, <1>5, UnitStopControlled
  <1>6. CASE UnitStop(pump, [unit[u] EXCEPT !.refs = 1], u)
    <2> DEFINE r == [unit[u] EXCEPT !.refs = 1]
    <2>1. r \in UnitShape /\ (Controlled(unit[u]) => Controlled(r))
      BY <1>1 DEF UnitShape, Controlled
    <2> HIDE DEF r
    <2>2. QED
      BY <1>1, <1>6, <2>1, UnitStopControlled DEF r
  <1>7. QED
    BY <1>2, <1>3, <1>4, <1>5, <1>6 DEF StopUnit, ForceStopUnit, RevokeUnit

\* _unit_init finds the contactor that is closed, whatever the mode was before:
\* under control, only one is.
LEMMA RestartControlled ==
  ASSUME PlantInv, Restart
  PROVE  ControlKept
  <1>1. mode \in Modes /\ unit \in [Units -> UnitShape]
    BY DEF PlantInv, WellUnits
  <1>2. ASSUME NEW u \in Units, Controlled(unit[u])
        PROVE  Controlled(unit'[u])
    <2>1. PICK m : m = ModeFound(unit[u])
      OBVIOUS
    <2> DEFINE r == [unit[u] EXCEPT !.mode = m, !.refs = 0, !.error = FALSE]
               o == UnitOffRecord(r, u)
    <2>2. unit'[u] = o
      BY <2>1 DEF Restart
    <2>3. unit[u] \in UnitShape
      BY <1>1
    <2>4. r.contactors = unit[u].contactors /\ r.mode = m
      BY <2>3 DEF UnitShape
    <2>5. "contactors" \in DOMAIN r /\ "mode" \in DOMAIN r /\ "state" \in DOMAIN r
      BY <2>3 DEF UnitShape
    <2> HIDE DEF r
    <2>6. o.contactors = r.contactors \ {r.mode}
      BY <2>5 DEF UnitOffRecord
    <2>7. unit[u].contactors \subseteq {m}
      BY <1>2, <2>1, <2>3, ModesAssumption DEF Controlled, ModeFound, UnitShape
    <2>8. o.contactors = {}
      BY <2>4, <2>6, <2>7
    <2> HIDE DEF o
    <2>9. QED
      BY <2>2, <2>8 DEF Controlled
  <1>3. QED
    BY <1>2 DEF ControlKept

\* unit_mode leaves a unit in RUNNING alone, and one whose compressor is off
\* stays under control.
LEMMA SetModeControlled ==
  ASSUME PlantInv, NEW m \in Modes, SetMode(m), NEW u \in Units, Controlled(unit[u]),
         unit[u].state # "error", u \notin RvEvery
  PROVE  Controlled(unit'[u])
  <1>1. unit[u] \in UnitShape
    BY DEF PlantInv, WellUnits
  <1>2. CASE unit[u].state = "running"
    BY <1>2 DEF SetMode
  <1>3. CASE unit[u].state # "running"
    <2>1. unit[u].contactors = {}
      BY <1>3 DEF Controlled
    <2>2. unit'[u] = [unit[u] EXCEPT !.mode = m]
      BY <1>3 DEF SetMode
    <2>3. unit'[u].contactors = {}
      BY <1>1, <2>1, <2>2 DEF UnitShape
    <2>4. QED
      BY <2>3 DEF Controlled
  <1>4. QED
    BY <1>2, <1>3

LEMMA ControlStep ==
  ASSUME PlantInv, [Next]_vars
  PROVE  ControlKept \/ \E m \in Modes : SetMode(m)
  <1>1. CASE unit' = unit
    BY <1>1 DEF ControlKept
  <1>2. ASSUME NEW p \in Pumps,
               \/ StartPump(p) \/ StopPump(p) \/ ForceStopPump(p) \/ RevokePump(p)
               \/ SwitchPump(p) \/ (\E late \in BOOLEAN : PumpTurn(p, late))
        PROVE  unit' = unit
    BY <1>2 DEF StartPump, StopPump, ForceStopPump, RevokePump, SwitchPump, PumpTurn
  <1>3. ASSUME NEW f \in Fans,
               \/ StartFan(f) \/ StopFan(f) \/ ForceStopFan(f)
               \/ CallFan(f) \/ UncallFan(f) \/ RevokeFan(f) \/ SwitchFan(f)
               \/ (\E late \in BOOLEAN : FanTurn(f, late))
        PROVE  unit' = unit
    BY <1>3 DEF StartFan, StopFan, ForceStopFan, CallFan, UncallFan, RevokeFan,
                SwitchFan, FanTurn
  <1>4. CASE ClearErrors
    <2>1. ASSUME NEW u \in Units, Controlled(unit[u]) PROVE Controlled(unit'[u])
      <3>1. unit[u] \in UnitShape /\ unit'[u] = [unit[u] EXCEPT !.error = FALSE]
        BY <1>4 DEF PlantInv, WellUnits, ClearErrors
      <3>2. QED
        BY <2>1, <3>1 DEF UnitShape, Controlled
    <2>2. QED
      BY <2>1 DEF ControlKept
  <1>5. CASE Command
    BY <1>1, <1>2, <1>3, <1>4, <1>5, UnitCommandControlled, RestartControlled DEF Command
  <1>6. CASE Cycle
    BY <1>1, <1>2, <1>3, <1>6, UnitTurnControlled DEF Cycle
  <1>7. CASE UNCHANGED vars
    BY <1>1, <1>7 DEF vars
  <1>8. QED
    BY <1>5, <1>6, <1>7 DEF Next

\* In every mode and with every command: the one way to lose control over a
\* compressor is a change of the mode after the failure of its unit, or while a
\* unit with rvevery runs.
THEOREM CompressorControl == Spec => CompressorUnderControl
  <1> DEFINE Keeps(u) ==
        Controlled(unit[u]) =>
          \/ Controlled(unit'[u])
          \/ /\ unit[u].state = "error" \/ u \in RvEvery
             /\ \E m \in Modes : SetMode(m)
  <1>1. ASSUME PlantInv, [Next]_vars
        PROVE  [\A u \in Units : Keeps(u)]_vars
    <2>1. CASE ControlKept
      BY <2>1 DEF ControlKept
    <2>2. CASE \E m \in Modes : SetMode(m)
      BY <1>1, <2>2, SetModeControlled
    <2>3. QED
      BY <1>1, <2>1, <2>2, ControlStep
  <1>2. PlantInv /\ [Next]_vars => [\A u \in Units : Keeps(u)]_vars
    BY <1>1
  <1>3. QED
    BY <1>2, PlantInvariant, PTL DEF Spec, CompressorUnderControl

-----------------------------------------------------------------------------
HIDE DEF PumpStates, UnitStates, FanStates

(* The counts.  Commands and retries add a user to a pump only below       *)
(* MaxRefs; the count may pass it by those that count on the pump now:     *)
(* every other start in a later turn is preceded by a stop.                *)

Away == {"stopped", "reserve", "start pump", "start primer", "release"}

\* Who counts on the pump p: units and fans, and the pumps it is the primer of
UsersOf(p, P, U, F) ==
  {u \in Units : PumpOf[u] = p /\ U[u].state \notin Away}
    \cup {f \in Fans : PumpOf[f] = p /\ F[f].state \notin Away}
    \cup {q \in DOMAIN Primer : Primer[q] = p /\ P[q].state \notin Away}

BoundOf(p, P, U, F) == P[p].refs <= MaxRefs + Cardinality(UsersOf(p, P, U, F))

\* A revocation leaves a pump in its cool-down counted once
CoolPump(r) == r.state = "cooldown" => r.refs <= 1

Bounded(P, U, F) ==
  /\ \A p \in Pumps : CoolPump(P[p]) /\ BoundOf(p, P, U, F)
  /\ \A u \in Units : U[u].refs <= MaxRefs
  /\ \A f \in Fans : F[f].refs <= MaxRefs

\* The users of a pump are finitely many, no more than there are objects.
LEMMA UsersFinite ==
  ASSUME NEW p, NEW P, NEW U, NEW F
  PROVE  /\ IsFiniteSet(UsersOf(p, P, U, F))
         /\ Cardinality(UsersOf(p, P, U, F)) \in 0..Len(Order)
<1>1. Len(Order) \in Nat /\ Order \in [1..Len(Order) -> Objects]
  BY ObjectsAssumption
<1>2. \A x \in Objects : \E i \in 1..Len(Order) : Order[i] = x
  BY <1>1, ObjectsAssumption DEF Range
<1>3. Order \in Surjection(1..Len(Order), Objects)
  BY <1>1, <1>2 DEF Surjection
<1>4. IsFiniteSet(Objects) /\ Cardinality(Objects) <= Len(Order)
  <2>1. ExistsSurjection(1..Len(Order), Objects)
    BY <1>3 DEF ExistsSurjection
  <2> QED BY <1>1, <2>1, FS_SurjCardinalityBound, ObjectsAssumption
<1>5. UsersOf(p, P, U, F) \in SUBSET Objects
  BY PumpsAssumption, PrimerFacts DEF UsersOf, Objects
<1> HIDE DEF Objects
<1>6. /\ IsFiniteSet(UsersOf(p, P, U, F))
      /\ Cardinality(UsersOf(p, P, U, F)) <= Cardinality(Objects)
  BY <1>4, <1>5, FS_Subset
<1>7. Cardinality(UsersOf(p, P, U, F)) \in Nat /\ Cardinality(Objects) \in Nat
  BY <1>4, <1>6, FS_CardinalityType
<1> QED BY <1>1, <1>4, <1>6, <1>7

\* One user more, or one user less
LEMMA OneUserLess ==
  ASSUME NEW S, NEW T, NEW x, IsFiniteSet(S), IsFiniteSet(T), S \ {x} \subseteq T
  PROVE  Cardinality(S) - 1 <= Cardinality(T)
         /\ Cardinality(S) \in Nat /\ Cardinality(T) \in Nat
<1>1. IsFiniteSet(S \ {x}) /\ Cardinality(S \ {x}) >= Cardinality(S) - 1
  <2>1. Cardinality(S) \in Nat
    BY FS_CardinalityType
  <2>2. /\ IsFiniteSet(S \ {x})
        /\ Cardinality(S \ {x}) = IF x \in S THEN Cardinality(S) - 1 ELSE Cardinality(S)
    BY FS_RemoveElement
  <2> QED BY <2>1, <2>2
<1>2. Cardinality(S \ {x}) <= Cardinality(T)
  <2>1. S \ {x} \in SUBSET T
    OBVIOUS
  <2> QED BY <2>1, FS_Subset
<1>3. Cardinality(S) \in Nat /\ Cardinality(T) \in Nat /\ Cardinality(S \ {x}) \in Nat
  BY <1>1, FS_CardinalityType
<1> QED BY <1>1, <1>2, <1>3

LEMMA OneUserMore ==
  ASSUME NEW S, NEW T, NEW x, IsFiniteSet(S), IsFiniteSet(T), S \subseteq T,
         x \in T, x \notin S
  PROVE  Cardinality(S) + 1 <= Cardinality(T)
         /\ Cardinality(S) \in Nat /\ Cardinality(T) \in Nat
<1>1. IsFiniteSet(S \cup {x}) /\ Cardinality(S \cup {x}) = Cardinality(S) + 1
  BY FS_AddElement
<1>2. Cardinality(S \cup {x}) <= Cardinality(T)
  <2>1. S \cup {x} \in SUBSET T
    OBVIOUS
  <2> QED BY <2>1, FS_Subset
<1>3. Cardinality(S) \in Nat /\ Cardinality(T) \in Nat
  BY FS_CardinalityType
<1> QED BY <1>1, <1>2, <1>3

-----------------------------------------------------------------------------
(* What the operations do to the counts.                                   *)

Less(r, s) == s.refs < r.refs \/ s.refs <= 1

\* P becomes Q by an operation that takes users away from the pump q: no count
\* grows but to one, and a pump that stops for good gives back its primer.
Eased(P, Q, q) ==
  /\ Q \in [Pumps -> PumpShape]
  /\ \A p \in Pumps : CoolPump(Q[p]) /\ (Q[p].refs <= P[p].refs \/ Q[p].refs <= 1)
  /\ \A p \in DOMAIN Primer \ {q} : Q[p].state = P[p].state
  /\ q \in DOMAIN Primer /\ P[q].state \notin Away /\ Q[q].state \in Away
       => Less(P[Primer[q]], Q[Primer[q]])

LEMMA StopAloneEases ==
  ASSUME NEW p \in Pumps, NEW r \in PumpShape, CoolPump(r)
  PROVE  /\ StopAlone(r, p) \in PumpShape /\ CoolPump(StopAlone(r, p))
         /\ Less(r, StopAlone(r, p)) /\ StopAlone(r, p).refs <= r.refs
<1>1. r.refs \in Nat
  BY DEF PumpShape
<1>2. CASE r.state = "cooldown" \/ r.refs = 0
  BY <1>1, <1>2 DEF StopAlone, Less, CoolPump
<1>3. CASE r.state # "cooldown" /\ r.refs > 1
  <2>1. PICK n \in Nat : n = r.refs - 1
    BY <1>1, <1>3
  <2>2. StopAlone(r, p) = [r EXCEPT !.refs = n]
    BY <1>3, <2>1 DEF StopAlone
  <2> QED BY <1>1, <1>3, <2>1, <2>2 DEF PumpShape, Less, CoolPump
<1>4. CASE r.state # "cooldown" /\ r.refs = 1
  <2>1. \/ StopAlone(r, p) = [r EXCEPT !.refs = 0, !.state = "cooldown"]
        \/ StopAlone(r, p) = [r EXCEPT !.refs = 0, !.pin = FALSE, !.state = OffState(p)]
    BY <1>4 DEF StopAlone, SwitchedOff
  <2>2. PICK s \in {"release", "stopped"} : s = OffState(p)
    BY DEF OffState
  <2>3. CASE StopAlone(r, p) = [r EXCEPT !.refs = 0, !.state = "cooldown"]
    <3> DEFINE z == StopAlone(r, p)
    <3>1. z = [r EXCEPT !.refs = 0, !.state = "cooldown"]
      BY <2>3
    <3> HIDE DEF z
    <3>2. z \in PumpShape /\ z.refs = 0
      BY <3>1 DEF PumpShape, PumpStates
    <3>3. CoolPump(z) /\ Less(r, z) /\ z.refs <= r.refs
      BY <1>4, <3>2 DEF CoolPump, Less
    <3> QED BY <3>2, <3>3 DEF z
  <2>4. CASE StopAlone(r, p) = [r EXCEPT !.refs = 0, !.pin = FALSE, !.state = OffState(p)]
    <3> DEFINE z == StopAlone(r, p)
    <3>1. z = [r EXCEPT !.refs = 0, !.pin = FALSE, !.state = s]
      BY <2>2, <2>4
    <3> HIDE DEF z
    <3>2. z \in PumpShape /\ z.refs = 0
      BY <3>1 DEF PumpShape, PumpStates
    <3>3. CoolPump(z) /\ Less(r, z) /\ z.refs <= r.refs
      BY <1>4, <3>2 DEF CoolPump, Less
    <3> QED BY <3>2, <3>3 DEF z
  <2> QED BY <2>1, <2>3, <2>4
<1> QED BY <1>1, <1>2, <1>3, <1>4

LEMMA StopPrimerEases ==
  ASSUME NEW P \in [Pumps -> PumpShape], NEW p \in Pumps,
         \A q \in Pumps \ {p} : CoolPump(P[q])
  PROVE  LET S == StopPrimer(P, p)
         IN  /\ S \in [Pumps -> PumpShape] /\ S[p] = P[p]
             /\ \A q \in Pumps \ {p} : CoolPump(S[q])
             /\ \A q \in Pumps : S[q].refs <= P[q].refs
             /\ \A q \in DOMAIN Primer : S[q].state = P[q].state
             /\ p \in DOMAIN Primer => Less(P[Primer[p]], S[Primer[p]])
<1>1. \A q \in Pumps : P[q].refs <= P[q].refs
  BY DEF PumpShape
<1>2. CASE p \in DOMAIN Primer
  <2> DEFINE q == Primer[p]
             s == StopAlone(P[q], q)
  <2>1. q \in Pumps /\ q # p /\ q \notin DOMAIN Primer
    BY <1>2, PrimerFacts
  <2>2. s \in PumpShape /\ CoolPump(s) /\ Less(P[q], s) /\ s.refs <= P[q].refs
    BY <2>1, StopAloneEases
  <2>3. StopPrimer(P, p) = [P EXCEPT ![q] = s]
    BY <1>2 DEF StopPrimer
  <2> HIDE DEF s
  <2> QED BY <1>1, <2>1, <2>2, <2>3
<1>3. CASE p \notin DOMAIN Primer
  BY <1>1, <1>3 DEF StopPrimer
<1> QED BY <1>2, <1>3

\* pump_off
LEMMA PumpOffEases ==
  ASSUME NEW P \in [Pumps -> PumpShape], NEW p \in Pumps,
         \A q \in Pumps \ {p} : CoolPump(P[q])
  PROVE  Eased(P, PumpOff(P, p), p) /\ PumpOff(P, p)[p].refs = P[p].refs
<1> DEFINE S == StopPrimer(P, p)
           o == SwitchedOff(S[p], p)
<1>1. /\ S \in [Pumps -> PumpShape] /\ S[p] = P[p]
      /\ \A q \in Pumps \ {p} : CoolPump(S[q])
      /\ \A q \in Pumps : S[q].refs <= P[q].refs
      /\ \A q \in DOMAIN Primer : S[q].state = P[q].state
      /\ p \in DOMAIN Primer => Less(P[Primer[p]], S[Primer[p]])
  BY StopPrimerEases
<1>2. PumpOff(P, p) = [S EXCEPT ![p] = o]
  BY DEF PumpOff
<1> HIDE DEF S
<1>3. o \in PumpShape /\ o.state # "cooldown" /\ o.refs = P[p].refs
  <2>1. PICK s \in {"release", "stopped"} : s = OffState(p)
    BY DEF OffState
  <2>2. o = [P[p] EXCEPT !.pin = FALSE, !.state = s]
    BY <1>1, <2>1 DEF SwitchedOff
  <2> HIDE DEF o
  <2> QED BY <2>2 DEF PumpShape, PumpStates
<1>4. p \in DOMAIN Primer => Primer[p] \in Pumps \ {p}
  BY PrimerFacts
<1>5. DOMAIN Primer \subseteq Pumps
  BY PumpsAssumption
<1> HIDE DEF o
<1>6. /\ [S EXCEPT ![p] = o] \in [Pumps -> PumpShape]
      /\ [S EXCEPT ![p] = o][p] = o
      /\ \A q \in Pumps \ {p} : [S EXCEPT ![p] = o][q] = S[q]
  BY <1>1, <1>3
<1> DEFINE O == [S EXCEPT ![p] = o]
<1> HIDE DEF O
<1>7. /\ O \in [Pumps -> PumpShape] /\ O[p] = o
      /\ \A q \in Pumps \ {p} : O[q] = S[q]
  BY <1>6 DEF O
<1>8. Eased(P, O, p)
  <2>1. \A q \in Pumps : CoolPump(O[q]) /\ O[q].refs <= P[q].refs
    BY <1>1, <1>3, <1>7 DEF CoolPump, PumpShape
  <2>2. \A q \in DOMAIN Primer \ {p} : O[q].state = P[q].state
    BY <1>1, <1>5, <1>7
  <2>3. p \in DOMAIN Primer => Less(P[Primer[p]], O[Primer[p]])
    BY <1>1, <1>4, <1>7
  <2> QED BY <1>7, <2>1, <2>2, <2>3 DEF Eased
<1> QED BY <1>2, <1>3, <1>7, <1>8 DEF O

\* pump_stop
LEMMA PumpStopEases ==
  ASSUME NEW P \in [Pumps -> PumpShape], NEW p \in Pumps,
         \A q \in Pumps : CoolPump(P[q])
  PROVE  Eased(P, PumpStop(P, p), p) /\ Less(P[p], PumpStop(P, p)[p])
<1>1. P[p] \in PumpShape /\ P[p].refs \in Nat /\ \A q \in Pumps : P[q].refs <= P[q].refs
  BY DEF PumpShape
<1>2. CASE P[p].state = "cooldown" \/ P[p].refs = 0
  <2>1. PumpStop(P, p) = P
    BY <1>2 DEF PumpStop
  <2>2. P[p].refs <= 1
    BY <1>2, <1>1 DEF CoolPump
  <2> QED BY <1>1, <2>1, <2>2 DEF Eased, Less
<1>3. CASE P[p].state # "cooldown" /\ P[p].refs > 1
  <2>1. PICK n \in Nat : n = P[p].refs - 1
    BY <1>1, <1>3
  <2> DEFINE r == [P[p] EXCEPT !.refs = n]
  <2>2. PumpStop(P, p) = [P EXCEPT ![p] = r]
    BY <1>1, <1>3, <2>1 DEF PumpStop
  <2>3. /\ r \in PumpShape /\ r.refs < P[p].refs /\ r.refs <= P[p].refs
        /\ r.state = P[p].state /\ CoolPump(r)
    BY <1>1, <1>3, <2>1 DEF PumpShape, CoolPump
  <2> HIDE DEF r
  <2> QED BY <1>1, <2>2, <2>3 DEF Eased, Less
<1>4. CASE P[p].state # "cooldown" /\ P[p].refs = 1 /\ p \in Cooling
  <2> DEFINE r == [P[p] EXCEPT !.refs = 0, !.state = "cooldown"]
  <2>1. [P EXCEPT ![p].refs = 0, ![p].state = "cooldown"] = [P EXCEPT ![p] = r]
    BY <1>1
  <2>a. r \in PumpShape /\ r.refs = 0 /\ r.state = "cooldown"
    BY <1>1 DEF PumpShape, PumpStates
  <2> HIDE DEF r
  <2>2. /\ r \in PumpShape /\ r.refs <= 1 /\ r.refs <= P[p].refs
        /\ r.state \notin Away /\ CoolPump(r)
    BY <1>4, <2>a DEF CoolPump, Away
  <2>3. PumpStop(P, p) = [P EXCEPT ![p] = r]
    BY <1>4, <2>1 DEF PumpStop
  <2> QED BY <1>1, <2>2, <2>3 DEF Eased, Less
<1>5. CASE P[p].state # "cooldown" /\ P[p].refs = 1 /\ p \notin Cooling
  <2> DEFINE r == [P[p] EXCEPT !.refs = 0]
             Z == [P EXCEPT ![p] = r]
  <2>1. PumpStop(P, p) = PumpOff(Z, p)
    BY <1>5 DEF PumpStop
  <2>2. r \in PumpShape /\ r.refs = 0 /\ r.state = P[p].state
    BY <1>1 DEF PumpShape
  <2> HIDE DEF r
  <2>3. /\ Z \in [Pumps -> PumpShape] /\ Z[p] = r
        /\ \A q \in Pumps \ {p} : Z[q] = P[q]
    BY <2>2
  <2> HIDE DEF Z
  <2>4. \A q \in Pumps \ {p} : CoolPump(Z[q])
    BY <2>3
  <2> DEFINE O == PumpOff(Z, p)
  <2>5. Eased(Z, O, p) /\ O[p].refs = Z[p].refs
    BY <2>3, <2>4, PumpOffEases
  <2> HIDE DEF O
  <2>6. DOMAIN Primer \subseteq Pumps /\ (p \in DOMAIN Primer => Primer[p] \in Pumps \ {p})
    BY PrimerFacts, PumpsAssumption
  <2>7. Less(P[p], O[p])
    BY <2>2, <2>3, <2>5 DEF Less
  <2>8. \A q \in Pumps : CoolPump(O[q]) /\ (O[q].refs <= P[q].refs \/ O[q].refs <= 1)
    BY <1>1, <2>2, <2>3, <2>5 DEF Eased
  <2>9. \A q \in DOMAIN Primer \ {p} : O[q].state = P[q].state
    BY <2>3, <2>5, <2>6 DEF Eased
  <2>10. p \in DOMAIN Primer /\ P[p].state \notin Away /\ O[p].state \in Away
           => Less(P[Primer[p]], O[Primer[p]])
    BY <2>2, <2>3, <2>5, <2>6 DEF Eased
  <2>11. Eased(P, O, p)
    BY <2>5, <2>8, <2>9, <2>10 DEF Eased
  <2> QED BY <2>1, <2>7, <2>11 DEF O
<1> QED BY <1>1, <1>2, <1>3, <1>4, <1>5

\* pump_force_stop leaves no count
LEMMA PumpForceStopEases ==
  ASSUME NEW P \in [Pumps -> PumpShape], NEW p \in Pumps,
         \A q \in Pumps : CoolPump(P[q])
  PROVE  Eased(P, PumpForceStop(P, p), p) /\ PumpForceStop(P, p)[p].refs = 0
<1> DEFINE S == StopPrimer(P, p)
           r == [S[p] EXCEPT !.refs = 0]
           Z == [S EXCEPT ![p] = r]
           O == PumpOff(Z, p)
<1>1. /\ S \in [Pumps -> PumpShape] /\ S[p] = P[p]
      /\ \A q \in Pumps \ {p} : CoolPump(S[q])
      /\ \A q \in Pumps : S[q].refs <= P[q].refs
      /\ \A q \in DOMAIN Primer : S[q].state = P[q].state
      /\ p \in DOMAIN Primer => Less(P[Primer[p]], S[Primer[p]])
  BY StopPrimerEases
<1>2. PumpForceStop(P, p) = O
  BY DEF PumpForceStop
<1> HIDE DEF S
<1>3. r \in PumpShape /\ r.refs = 0 /\ r.state = P[p].state
  BY <1>1 DEF PumpShape
<1> HIDE DEF r
<1>4. /\ Z \in [Pumps -> PumpShape] /\ Z[p] = r
      /\ \A q \in Pumps \ {p} : Z[q] = S[q]
  BY <1>1, <1>3
<1> HIDE DEF Z
<1>5. Eased(Z, O, p) /\ O[p].refs = Z[p].refs
  BY <1>1, <1>4, PumpOffEases
<1> HIDE DEF O
<1>6. DOMAIN Primer \subseteq Pumps /\ (p \in DOMAIN Primer => Primer[p] \in Pumps \ {p})
  BY PrimerFacts, PumpsAssumption
<1>7. O[p].refs = 0 /\ O \in [Pumps -> PumpShape]
  BY <1>3, <1>4, <1>5 DEF Eased
<1>8. \A q \in Pumps : P[q].refs \in Nat /\ S[q].refs \in Nat /\ O[q].refs \in Nat
  BY <1>1, <1>7 DEF PumpShape
<1>9. \A q \in Pumps \ {p} : O[q].refs <= S[q].refs \/ O[q].refs <= 1
  BY <1>4, <1>5 DEF Eased
<1>10. \A q \in Pumps : CoolPump(O[q]) /\ (O[q].refs <= P[q].refs \/ O[q].refs <= 1)
  <2>1. \A q \in Pumps : CoolPump(O[q])
    BY <1>5 DEF Eased
  <2>2. \A q \in Pumps \ {p} : O[q].refs <= P[q].refs \/ O[q].refs <= 1
    BY <1>1, <1>8, <1>9
  <2> QED BY <1>7, <2>1, <2>2
<1>11. \A q \in DOMAIN Primer \ {p} : O[q].state = P[q].state
  BY <1>1, <1>4, <1>5, <1>6 DEF Eased
<1>12. p \in DOMAIN Primer => Less(P[Primer[p]], O[Primer[p]])
  BY <1>1, <1>6, <1>8, <1>9 DEF Less
<1> QED BY <1>2, <1>7, <1>10, <1>11, <1>12 DEF Eased

\* pump_revoke
LEMMA PumpRevokeEases ==
  ASSUME NEW P \in [Pumps -> PumpShape], NEW p \in Pumps,
         \A q \in Pumps : CoolPump(P[q])
  PROVE  Eased(P, PumpRevoke(P, p), p)
<1> DEFINE r == [P[p] EXCEPT !.refs = 1]
           Z == [P EXCEPT ![p] = r]
           O == PumpStop(Z, p)
<1>1. PumpRevoke(P, p) = O
  BY DEF PumpRevoke
<1>2. r \in PumpShape /\ r.refs = 1 /\ r.state = P[p].state
  BY DEF PumpShape
<1> HIDE DEF r
<1>3. /\ Z \in [Pumps -> PumpShape] /\ Z[p] = r
      /\ \A q \in Pumps \ {p} : Z[q] = P[q]
  BY <1>2
<1> HIDE DEF Z
<1>4. \A q \in Pumps : CoolPump(Z[q])
  BY <1>2, <1>3 DEF CoolPump
<1>5. Eased(Z, O, p) /\ Less(Z[p], O[p])
  BY <1>3, <1>4, PumpStopEases
<1> HIDE DEF O
<1>6. DOMAIN Primer \subseteq Pumps /\ (p \in DOMAIN Primer => Primer[p] \in Pumps \ {p})
  BY PrimerFacts, PumpsAssumption
<1>7. O[p].refs <= 1
  <2>1. O[p].refs \in Nat
    BY <1>5 DEF Eased, PumpShape
  <2> QED BY <1>2, <1>3, <1>5, <2>1 DEF Less
<1>8. \A q \in Pumps : CoolPump(O[q]) /\ (O[q].refs <= P[q].refs \/ O[q].refs <= 1)
  BY <1>3, <1>5, <1>7 DEF Eased
<1>9. \A q \in DOMAIN Primer \ {p} : O[q].state = P[q].state
  BY <1>3, <1>5, <1>6 DEF Eased
<1>10. p \in DOMAIN Primer /\ P[p].state \notin Away /\ O[p].state \in Away
         => Less(P[Primer[p]], O[Primer[p]])
  BY <1>2, <1>3, <1>5, <1>6 DEF Eased
<1> QED BY <1>1, <1>5, <1>8, <1>9, <1>10 DEF Eased

-----------------------------------------------------------------------------
(* What keeps the counts bounded.                                          *)

\* Nobody but these gives up the pump it counts on
OnlyLeaves(P, U, F, Q, V, G, leavers) ==
  /\ \A u \in Units \ leavers : V[u].state \in Away => U[u].state \in Away
  /\ \A f \in Fans \ leavers : G[f].state \in Away => F[f].state \in Away
  /\ \A q \in DOMAIN Primer \ leavers : Q[q].state \in Away => P[q].state \in Away

Limited(V, G) ==
  (\A u \in Units : V[u].refs <= MaxRefs) /\ (\A f \in Fans : G[f].refs <= MaxRefs)

LEMMA UsersStay ==
  ASSUME NEW P, NEW U, NEW F, NEW Q, NEW V, NEW G, NEW L,
         OnlyLeaves(P, U, F, Q, V, G, L), NEW p
  PROVE  UsersOf(p, P, U, F) \ L \subseteq UsersOf(p, Q, V, G)
  BY DEF OnlyLeaves, UsersOf

\* A count that does not grow, of a pump that no user leaves
LEMMA StayBounds ==
  ASSUME NEW P, NEW U, NEW F, NEW Q, NEW V, NEW G, NEW p,
         P[p].refs \in Nat, Q[p].refs \in Nat, Q[p].refs <= P[p].refs,
         BoundOf(p, P, U, F),
         UsersOf(p, P, U, F) \subseteq UsersOf(p, Q, V, G)
  PROVE  BoundOf(p, Q, V, G)
<1> DEFINE S == UsersOf(p, P, U, F)
           T == UsersOf(p, Q, V, G)
<1>1. /\ IsFiniteSet(T) /\ S \in SUBSET T
      /\ Cardinality(S) \in Nat /\ Cardinality(T) \in Nat
  BY UsersFinite
<1>2. P[p].refs <= MaxRefs + Cardinality(S)
  BY DEF BoundOf
<1> HIDE DEF S
<1>3. Cardinality(S) <= Cardinality(T)
  BY <1>1, FS_Subset
<1> HIDE DEF T
<1>4. Q[p].refs <= MaxRefs + Cardinality(T)
  BY <1>1, <1>2, <1>3, RefsAssumption
<1> QED BY <1>4 DEF BoundOf, T

AllBut(x, S, T) == S \ {x} \subseteq T

\* A count that shrinks, of a pump that one user leaves
LEMMA LessBounds ==
  ASSUME NEW P, NEW U, NEW F, NEW Q, NEW V, NEW G, NEW p, NEW x,
         P[p].refs \in Nat, Q[p].refs \in Nat, Q[p].refs < P[p].refs,
         BoundOf(p, P, U, F),
         AllBut(x, UsersOf(p, P, U, F), UsersOf(p, Q, V, G))
  PROVE  BoundOf(p, Q, V, G)
<1> DEFINE S == UsersOf(p, P, U, F)
           T == UsersOf(p, Q, V, G)
<1>1. IsFiniteSet(S) /\ IsFiniteSet(T) /\ S \ {x} \subseteq T
  BY UsersFinite DEF AllBut
<1>2. P[p].refs <= MaxRefs + Cardinality(S)
  BY DEF BoundOf
<1> HIDE DEF S, T
<1>3. /\ Cardinality(S) - 1 <= Cardinality(T)
      /\ Cardinality(S) \in Nat /\ Cardinality(T) \in Nat
  BY <1>1, OneUserLess
<1>4. Q[p].refs <= MaxRefs + Cardinality(T)
  BY <1>2, <1>3, RefsAssumption
<1> QED BY <1>4 DEF BoundOf, T

\* A count that grows by one, of a pump that one user comes to
LEMMA MoreBounds ==
  ASSUME NEW P, NEW U, NEW F, NEW Q, NEW V, NEW G, NEW p, NEW x,
         P[p].refs \in Nat, Q[p].refs \in Nat, Q[p].refs <= P[p].refs + 1,
         BoundOf(p, P, U, F),
         UsersOf(p, P, U, F) \subseteq UsersOf(p, Q, V, G),
         x \in UsersOf(p, Q, V, G), x \notin UsersOf(p, P, U, F)
  PROVE  BoundOf(p, Q, V, G)
<1> DEFINE S == UsersOf(p, P, U, F)
           T == UsersOf(p, Q, V, G)
<1>1. IsFiniteSet(S) /\ IsFiniteSet(T) /\ S \subseteq T /\ x \in T /\ x \notin S
  BY UsersFinite
<1>2. P[p].refs <= MaxRefs + Cardinality(S)
  BY DEF BoundOf
<1> HIDE DEF S, T
<1>3. /\ Cardinality(S) + 1 <= Cardinality(T)
      /\ Cardinality(S) \in Nat /\ Cardinality(T) \in Nat
  BY <1>1, OneUserMore
<1>4. Q[p].refs <= MaxRefs + Cardinality(T)
  BY <1>2, <1>3, RefsAssumption
<1> QED BY <1>4 DEF BoundOf, T

\* A count within MaxRefs needs no users
LEMMA SmallBounds ==
  ASSUME NEW Q, NEW V, NEW G, NEW p, Q[p].refs \in Nat, Q[p].refs <= MaxRefs
  PROVE  BoundOf(p, Q, V, G)
<1>1. Cardinality(UsersOf(p, Q, V, G)) \in Nat
  BY UsersFinite
<1>2. PICK n \in Nat : n = Cardinality(UsersOf(p, Q, V, G))
  BY <1>1
<1>3. Q[p].refs <= MaxRefs + n
  BY RefsAssumption
<1> QED BY <1>2, <1>3 DEF BoundOf

LEMMA CountsNat ==
  ASSUME NEW P \in [Pumps -> PumpShape]
  PROVE  \A p \in Pumps : P[p].refs \in Nat
  BY DEF PumpShape

\* No count grows, and whoever leaves a pump leaves one within MaxRefs.
LEMMA MovesKeep ==
  ASSUME NEW P, NEW U, NEW F, NEW Q \in [Pumps -> PumpShape], NEW V, NEW G, NEW L,
         P \in [Pumps -> PumpShape], Bounded(P, U, F), Limited(V, G),
         OnlyLeaves(P, U, F, Q, V, G, L),
         \A p \in Pumps : CoolPump(Q[p]) /\ (Q[p].refs <= P[p].refs \/ Q[p].refs <= 1),
         \A x \in L \cap (Units \cup Fans) : P[PumpOf[x]].refs <= MaxRefs,
         \A x \in L \cap DOMAIN Primer : P[Primer[x]].refs <= MaxRefs
  PROVE  Bounded(Q, V, G)
<1> SUFFICES ASSUME NEW p \in Pumps PROVE BoundOf(p, Q, V, G)
  BY DEF Bounded, Limited
<1>1. P[p].refs \in Nat /\ Q[p].refs \in Nat /\ BoundOf(p, P, U, F)
  BY CountsNat DEF Bounded
<1>2. CASE Q[p].refs <= MaxRefs
  BY <1>1, <1>2, SmallBounds
<1>3. CASE ~(Q[p].refs <= MaxRefs)
  <2>1. Q[p].refs <= P[p].refs /\ ~(P[p].refs <= MaxRefs)
    BY <1>1, <1>3, RefsAssumption
  <2>2. UsersOf(p, P, U, F) \cap L = {}
    BY <2>1 DEF UsersOf
  <2>3. UsersOf(p, P, U, F) \subseteq UsersOf(p, Q, V, G)
    BY <2>2, UsersStay
  <2> QED BY <1>1, <2>1, <2>3, StayBounds
<1> QED BY <1>2, <1>3

\* A stop: x leaves the pump q, or nobody does but q its primer.
LEMMA StopKeeps ==
  ASSUME NEW P, NEW U, NEW F, NEW Q, NEW V, NEW G, NEW q \in Pumps, NEW x \in Objects,
         P \in [Pumps -> PumpShape], Bounded(P, U, F), Limited(V, G),
         Eased(P, Q, q), OnlyLeaves(P, U, F, Q, V, G, {x, q}),
         x \in Units \cup Fans => PumpOf[x] = q /\ Less(P[q], Q[q]),
         x \in DOMAIN Primer => x = q
  PROVE  Bounded(Q, V, G)
<1>1. Q \in [Pumps -> PumpShape]
      /\ \A p \in Pumps : CoolPump(Q[p]) /\ (Q[p].refs <= P[p].refs \/ Q[p].refs <= 1)
  BY DEF Eased
<1> SUFFICES ASSUME NEW p \in Pumps PROVE BoundOf(p, Q, V, G)
  BY <1>1 DEF Bounded, Limited
<1>2. P[p].refs \in Nat /\ Q[p].refs \in Nat /\ BoundOf(p, P, U, F)
  BY <1>1, CountsNat DEF Bounded
<1>3. UsersOf(p, P, U, F) \ {x, q} \subseteq UsersOf(p, Q, V, G)
  BY UsersStay
<1>4. q \in UsersOf(p, P, U, F) =>
        q \in DOMAIN Primer /\ Primer[q] = p /\ P[q].state \notin Away
  BY ObjectsAssumption DEF UsersOf
<1>5. CASE Q[p].refs <= 1
  <2>1. Q[p].refs <= MaxRefs
    BY <1>2, <1>5, RefsAssumption
  <2> QED BY <1>2, <2>1, SmallBounds
<1>6. CASE ~(Q[p].refs <= 1) /\ q \in UsersOf(p, P, U, F)
  <2>1. q \in DOMAIN Primer /\ Primer[q] = p /\ P[q].state \notin Away /\ p # q
    BY <1>4, <1>6, PrimerFacts
  <2>2. x \in UsersOf(p, P, U, F) => x = q
    BY <2>1 DEF UsersOf
  <2>3. UsersOf(p, P, U, F) \ {q} \subseteq UsersOf(p, Q, V, G)
    BY <1>3, <2>2
  <2>4. CASE Q[q].state \in Away
    <3>1. Q[p].refs < P[p].refs
      BY <1>6, <2>1, <2>4 DEF Eased, Less
    <3>2. AllBut(q, UsersOf(p, P, U, F), UsersOf(p, Q, V, G))
      BY <2>3 DEF AllBut
    <3> QED BY <1>2, <3>1, <3>2, LessBounds
  <2>5. CASE Q[q].state \notin Away
    <3>1. q \in UsersOf(p, Q, V, G)
      BY <2>1, <2>5 DEF UsersOf
    <3>2. UsersOf(p, P, U, F) \subseteq UsersOf(p, Q, V, G)
      BY <2>3, <3>1
    <3>3. Q[p].refs <= P[p].refs
      BY <1>1, <1>6
    <3> QED BY <1>2, <3>2, <3>3, StayBounds
  <2> QED BY <2>4, <2>5
<1>7. CASE ~(Q[p].refs <= 1) /\ q \notin UsersOf(p, P, U, F)
  <2>1. Q[p].refs <= P[p].refs
    BY <1>1, <1>7
  <2>2. CASE x \in UsersOf(p, P, U, F)
    <3>1. x # q
      BY <1>7, <2>2
    <3>2. p = q /\ Less(P[q], Q[q])
      BY <2>2, <3>1 DEF UsersOf
    <3>3. Q[p].refs < P[p].refs
      BY <1>7, <3>2 DEF Less
    <3>4. AllBut(x, UsersOf(p, P, U, F), UsersOf(p, Q, V, G))
      BY <1>3, <1>7 DEF AllBut
    <3> QED BY <1>2, <3>3, <3>4, LessBounds
  <2>3. CASE x \notin UsersOf(p, P, U, F)
    <3>1. UsersOf(p, P, U, F) \subseteq UsersOf(p, Q, V, G)
      BY <1>3, <1>7, <2>3
    <3> QED BY <1>2, <2>1, <3>1, StayBounds
  <2> QED BY <2>2, <2>3
<1> QED BY <1>5, <1>6, <1>7

\* A start: the user x comes to the pump q, or q is within MaxRefs before.
LEMMA StartKeeps ==
  ASSUME NEW P, NEW U, NEW F, NEW Q \in [Pumps -> PumpShape], NEW V, NEW G,
         NEW q \in Pumps, NEW x,
         P \in [Pumps -> PumpShape], Bounded(P, U, F), Limited(V, G),
         OnlyLeaves(P, U, F, Q, V, G, {}),
         Q[q].refs <= P[q].refs + 1,
         \A p \in Pumps : CoolPump(Q[p]) /\ (p # q => Q[p].refs <= P[p].refs),
         \/ x \in UsersOf(q, Q, V, G) /\ x \notin UsersOf(q, P, U, F)
         \/ P[q].refs < MaxRefs
  PROVE  Bounded(Q, V, G)
<1> SUFFICES ASSUME NEW p \in Pumps PROVE BoundOf(p, Q, V, G)
  BY DEF Bounded, Limited
<1>1. P[p].refs \in Nat /\ Q[p].refs \in Nat /\ BoundOf(p, P, U, F)
  BY CountsNat DEF Bounded
<1>2. UsersOf(p, P, U, F) \subseteq UsersOf(p, Q, V, G)
  BY UsersStay
<1>3. CASE p # q
  BY <1>1, <1>2, <1>3, StayBounds
<1>4. CASE p = q /\ P[q].refs < MaxRefs
  <2>1. Q[p].refs <= MaxRefs
    BY <1>1, <1>4, RefsAssumption
  <2> QED BY <1>1, <2>1, SmallBounds
<1>5. CASE p = q /\ x \in UsersOf(q, Q, V, G) /\ x \notin UsersOf(q, P, U, F)
  BY <1>1, <1>2, <1>5, MoreBounds
<1> QED BY <1>3, <1>4, <1>5

-----------------------------------------------------------------------------
(* The steps keep the counts bounded.                                      *)

CountsBounded == Bounded(pump, unit, fan)

StateOf(x) == IF x \in Units THEN unit[x].state ELSE fan[x].state

\* Of the units and fans a step changes x alone
OnlyOne(x) ==
  /\ \A u \in Units \ {x} : unit'[u] = unit[u]
  /\ \A f \in Fans \ {x} : fan'[f] = fan[f]

LEMMA PlantShapes ==
  ASSUME PlantInv
  PROVE  /\ pump \in [Pumps -> PumpShape] /\ unit \in [Units -> UnitShape]
         /\ fan \in [Fans -> FanShape]
  BY DEF PlantInv, WellPumps, WellUnits, WellFans

\* A unit or a fan moves on, and nothing happens to the pumps.
LEMMA ObjectMoves ==
  ASSUME PlantInv, CountsBounded, NEW x \in Units \cup Fans, OnlyOne(x),
         Limited(unit', fan'), pump' = pump,
         \/ StateOf(x)' \notin Away \/ StateOf(x) \in Away
         \/ pump[PumpOf[x]].refs <= MaxRefs
  PROVE  CountsBounded'
<1>1. /\ pump \in [Pumps -> PumpShape] /\ Bounded(pump, unit, fan)
      /\ x \notin DOMAIN Primer
  BY PlantShapes, PumpsAssumption, ObjectsAssumption DEF CountsBounded
<1>2. \A p \in Pumps : CoolPump(pump'[p]) /\ pump'[p].refs <= pump[p].refs
  BY <1>1, CountsNat DEF Bounded
<1>3. CASE StateOf(x)' \notin Away \/ StateOf(x) \in Away
  <2>1. OnlyLeaves(pump, unit, fan, pump', unit', fan', {})
    BY <1>3, ObjectsAssumption DEF OnlyLeaves, OnlyOne, StateOf
  <2>2. Bounded(pump', unit', fan')
    BY <1>1, <1>2, <2>1, MovesKeep
  <2> QED BY <2>2 DEF CountsBounded
<1>4. CASE pump[PumpOf[x]].refs <= MaxRefs
  <2>1. OnlyLeaves(pump, unit, fan, pump', unit', fan', {x})
    BY DEF OnlyLeaves, OnlyOne
  <2>2. \A y \in {x} \cap DOMAIN Primer : pump[Primer[y]].refs <= MaxRefs
    BY <1>1
  <2>3. \A y \in {x} \cap (Units \cup Fans) : pump[PumpOf[y]].refs <= MaxRefs
    BY <1>4
  <2>4. Bounded(pump', unit', fan')
    BY <1>1, <1>2, <2>1, <2>2, <2>3, MovesKeep
  <2> QED BY <2>4 DEF CountsBounded
<1> QED BY <1>3, <1>4

\* A unit or a fan gives its pump back, whatever becomes of it.
LEMMA ObjectStops ==
  ASSUME PlantInv, CountsBounded, NEW x \in Units \cup Fans, OnlyOne(x),
         Limited(unit', fan'), Eased(pump, pump', PumpOf[x]),
         Less(pump[PumpOf[x]], pump'[PumpOf[x]])
  PROVE  CountsBounded'
<1>1. /\ pump \in [Pumps -> PumpShape] /\ Bounded(pump, unit, fan)
      /\ x \notin DOMAIN Primer /\ PumpOf[x] \in Pumps /\ x \in Objects
  BY PlantShapes, PumpsAssumption, ObjectsAssumption DEF CountsBounded, Objects
<1>2. OnlyLeaves(pump, unit, fan, pump', unit', fan', {x, PumpOf[x]})
  BY DEF OnlyLeaves, OnlyOne, Eased
<1>3. Bounded(pump', unit', fan')
  BY <1>1, <1>2, StopKeeps
<1> QED BY <1>3 DEF CountsBounded

\* A pump stops or is stopped, and the units and fans stay as they are.
LEMMA PumpStops ==
  ASSUME PlantInv, CountsBounded, NEW p \in Pumps, Eased(pump, pump', p),
         unit' = unit, fan' = fan
  PROVE  CountsBounded'
<1>1. /\ pump \in [Pumps -> PumpShape] /\ Bounded(pump, unit, fan)
      /\ p \notin Units \cup Fans /\ p \in Objects
  BY PlantShapes, ObjectsAssumption DEF CountsBounded, Objects
<1>2. OnlyLeaves(pump, unit, fan, pump', unit', fan', {p, p})
  BY DEF OnlyLeaves, Eased
<1>3. Limited(unit', fan')
  BY <1>1 DEF Bounded, Limited
<1>4. Bounded(pump', unit', fan')
  BY <1>1, <1>2, <1>3, StopKeeps
<1> QED BY <1>4 DEF CountsBounded

\* A disabled pump is not counted; otherwise it counts once more, and the state of
\* no pump changes but from COOLDOWN to RUNNING.
LEMMA PumpStartCounts ==
  ASSUME NEW P \in [Pumps -> PumpShape], NEW q \in Pumps,
         \A p \in Pumps : CoolPump(P[p])
  PROVE  LET Q == PumpStart(P, q)
         IN  /\ Q \in [Pumps -> PumpShape]
             /\ Q[q].refs <= P[q].refs + 1
             /\ \A p \in Pumps : CoolPump(Q[p]) /\ (p # q => Q[p] = P[p])
             /\ Q[q].state \in Away => P[q].state \in Away
<1>1. P[q] \in PumpShape /\ P[q].refs \in Nat
  BY DEF PumpShape
<1>2. CASE ~P[q].enabled
  BY <1>1, <1>2 DEF PumpStart
<1>3. CASE P[q].enabled
  <2>1. PICK n \in Nat : n = P[q].refs + 1
    BY <1>1
  <2>2. PICK s \in PumpStates : s = IF P[q].state = "cooldown" THEN "running" ELSE P[q].state
    BY <1>1 DEF PumpShape, PumpStates
  <2> DEFINE r == [P[q] EXCEPT !.refs = n, !.state = s]
  <2>3. PumpStart(P, q) = [P EXCEPT ![q] = r]
    BY <1>3, <2>1, <2>2 DEF PumpStart
  <2>4. r \in PumpShape /\ r.refs = n /\ r.state = s
    BY <1>1 DEF PumpShape
  <2> HIDE DEF r
  <2>5. CoolPump(r) /\ (r.state \in Away => P[q].state \in Away)
    BY <2>2, <2>4 DEF CoolPump, Away
  <2> QED BY <2>1, <2>3, <2>4, <2>5
<1> QED BY <1>2, <1>3

\* A unit or a fan begins to count on its pump.
LEMMA ObjectStarts ==
  ASSUME PlantInv, CountsBounded, NEW x \in Units \cup Fans, OnlyOne(x),
         Limited(unit', fan'), pump' = PumpStart(pump, PumpOf[x]),
         StateOf(x)' \notin Away, StateOf(x) \in Away
  PROVE  CountsBounded'
<1> DEFINE q == PumpOf[x]
<1>1. /\ pump \in [Pumps -> PumpShape] /\ Bounded(pump, unit, fan) /\ q \in Pumps
      /\ \A p \in Pumps : CoolPump(pump[p])
  BY PlantShapes, PumpsAssumption DEF CountsBounded, Bounded
<1>2. /\ pump' \in [Pumps -> PumpShape] /\ pump'[q].refs <= pump[q].refs + 1
      /\ \A p \in Pumps : CoolPump(pump'[p]) /\ (p # q => pump'[p] = pump[p])
      /\ pump'[q].state \in Away => pump[q].state \in Away
  BY <1>1, PumpStartCounts
<1>3. \A p \in Pumps : p # q => pump'[p].refs <= pump[p].refs
  BY <1>1, <1>2, CountsNat
<1>4. OnlyLeaves(pump, unit, fan, pump', unit', fan', {})
  BY <1>2, ObjectsAssumption, PumpsAssumption DEF OnlyLeaves, OnlyOne, StateOf
<1>5. x \in UsersOf(q, pump', unit', fan')
  BY DEF UsersOf, StateOf
<1>6. x \notin UsersOf(q, pump, unit, fan)
  BY ObjectsAssumption, PumpsAssumption DEF UsersOf, StateOf
<1>7. Bounded(pump', unit', fan')
  <2> HIDE DEF q
  <2> QED BY <1>1, <1>2, <1>3, <1>4, <1>5, <1>6, StartKeeps
<1> QED BY <1>7 DEF CountsBounded

\* One unit changes, and its own count stays within MaxRefs.
LEMMA OneUnit ==
  ASSUME PlantInv, CountsBounded, NEW u \in Units, NEW r,
         unit' = [unit EXCEPT ![u] = r], fan' = fan, r.refs <= MaxRefs
  PROVE  /\ Limited(unit', fan') /\ OnlyOne(u)
         /\ StateOf(u) = unit[u].state /\ StateOf(u)' = r.state
<1>1. unit'[u] = r /\ \A x \in Units \ {u} : unit'[x] = unit[x]
  BY PlantShapes
<1>2. OnlyOne(u)
  BY <1>1 DEF OnlyOne
<1>3. Limited(unit', fan')
  <2>1. \A x \in Units : unit[x].refs <= MaxRefs
    BY DEF CountsBounded, Bounded
  <2>2. \A x \in Units : unit'[x].refs <= MaxRefs
    BY <1>1, <2>1
  <2>3. \A f \in Fans : fan'[f].refs <= MaxRefs
    BY DEF CountsBounded, Bounded
  <2> QED BY <2>2, <2>3 DEF Limited
<1>4. StateOf(u) = unit[u].state /\ StateOf(u)' = r.state
  BY <1>1 DEF StateOf
<1> QED BY <1>2, <1>3, <1>4

LEMMA UnitMoves ==
  ASSUME PlantInv, CountsBounded, NEW u \in Units, NEW r,
         unit' = [unit EXCEPT ![u] = r], fan' = fan, pump' = pump,
         r.refs <= MaxRefs,
         \/ r.state \notin Away \/ unit[u].state \in Away
         \/ pump[PumpOf[u]].refs <= MaxRefs
  PROVE  CountsBounded'
<1>1. /\ Limited(unit', fan') /\ OnlyOne(u)
      /\ StateOf(u) = unit[u].state /\ StateOf(u)' = r.state
  BY OneUnit
<1> QED BY <1>1, ObjectMoves

\* A change of the state alone
LEMMA UnitToMoves ==
  ASSUME PlantInv, CountsBounded, NEW u \in Units, NEW s,
         UnitTo(u, s), fan' = fan, pump' = pump,
         \/ s \notin Away \/ unit[u].state \in Away
         \/ pump[PumpOf[u]].refs <= MaxRefs
  PROVE  CountsBounded'
<1> DEFINE r == [unit[u] EXCEPT !.state = s]
<1>1. unit[u] \in UnitShape /\ unit[u].refs <= MaxRefs
  BY PlantShapes DEF CountsBounded, Bounded
<1>2. r.state = s /\ r.refs <= MaxRefs
  BY <1>1 DEF UnitShape
<1>3. unit' = [unit EXCEPT ![u] = r]
  BY DEF UnitTo
<1> HIDE DEF r
<1> QED BY <1>2, <1>3, UnitMoves

LEMMA UnitOffCounts ==
  ASSUME PlantInv, CountsBounded, NEW u \in Units, NEW r,
         unit' = [unit EXCEPT ![u] = r], fan' = fan, r.refs <= MaxRefs,
         Eased(pump, pump', PumpOf[u]), Less(pump[PumpOf[u]], pump'[PumpOf[u]])
  PROVE  CountsBounded'
<1>1. Limited(unit', fan') /\ OnlyOne(u)
  BY OneUnit
<1> QED BY <1>1, ObjectStops

\* unit_stop
LEMMA UnitStopCounts ==
  ASSUME PlantInv, CountsBounded, NEW u \in Units, NEW r \in UnitShape,
         r.state = unit[u].state, r.refs <= MaxRefs, UnitStop(pump, r, u), fan' = fan
  PROVE  CountsBounded'
<1>1. /\ pump \in [Pumps -> PumpShape] /\ PumpOf[u] \in Pumps
      /\ \A p \in Pumps : CoolPump(pump[p])
  BY PlantShapes, PumpsAssumption DEF CountsBounded, Bounded
<1>2. r.refs \in Nat
  BY DEF UnitShape
<1>3. CASE r.refs = 0
  <2>1. unit' = [unit EXCEPT ![u] = r] /\ pump' = pump
    BY <1>3 DEF UnitStop
  <2> QED BY <2>1, UnitMoves
<1>4. CASE r.refs = 1
  <2> DEFINE o == UnitOffRecord([r EXCEPT !.refs = 0], u)
  <2>1. unit' = [unit EXCEPT ![u] = o] /\ pump' = PumpStop(pump, PumpOf[u])
    BY <1>4 DEF UnitStop
  <2>2. o.refs = 0
    BY DEF UnitOffRecord, UnitShape
  <2> HIDE DEF o
  <2>3. o.refs <= MaxRefs
    BY <2>2, RefsAssumption
  <2>4. Eased(pump, pump', PumpOf[u]) /\ Less(pump[PumpOf[u]], pump'[PumpOf[u]])
    BY <1>1, <2>1, PumpStopEases
  <2> QED BY <2>1, <2>3, <2>4, UnitOffCounts
<1>5. CASE r.refs # 0 /\ r.refs # 1
  <2>1. PICK n \in Nat : n = r.refs - 1
    BY <1>2, <1>5
  <2> DEFINE s == [r EXCEPT !.refs = n]
  <2>2. unit' = [unit EXCEPT ![u] = s] /\ pump' = pump
    BY <1>5, <2>1 DEF UnitStop
  <2>3. s.refs = n /\ s.state = unit[u].state
    BY DEF UnitShape
  <2> HIDE DEF s
  <2>4. s.refs <= MaxRefs
    BY <1>2, <2>1, <2>3, RefsAssumption
  <2> QED BY <2>2, <2>3, <2>4, UnitMoves
<1> QED BY <1>3, <1>4, <1>5

\* unit_force_stop: after pump_force_stop there is no count to give back
LEMMA UnitForceStopCounts ==
  ASSUME PlantInv, CountsBounded, NEW u \in Units, NEW r \in UnitShape,
         UnitForceStop(r, u), fan' = fan
  PROVE  CountsBounded'
<1> DEFINE q == PumpOf[u]
           O == PumpForceStop(pump, q)
           r1 == [r EXCEPT !.refs = 1]
           o == UnitOffRecord([r1 EXCEPT !.refs = 0], u)
<1>1. /\ pump \in [Pumps -> PumpShape] /\ q \in Pumps
      /\ \A p \in Pumps : CoolPump(pump[p])
  BY PlantShapes, PumpsAssumption DEF CountsBounded, Bounded
<1>2. Eased(pump, O, q) /\ O[q].refs = 0
  BY <1>1, PumpForceStopEases
<1>3. PumpStop(O, q) = O
  BY <1>2 DEF PumpStop
<1>4. r1.refs = 1
  BY DEF UnitShape
<1>5. UnitStop(O, r1, u)
  BY DEF UnitForceStop
<1> HIDE DEF O
<1>6. pump' = O /\ unit' = [unit EXCEPT ![u] = o]
  <2> HIDE DEF r1
  <2> QED BY <1>3, <1>4, <1>5 DEF UnitStop
<1>7. o.refs = 0
  BY DEF UnitOffRecord, UnitShape
<1> HIDE DEF o
<1>8. o.refs <= MaxRefs
  BY <1>7, RefsAssumption
<1>9. Less(pump[q], pump'[q])
  BY <1>2, <1>6 DEF Less
<1> QED BY <1>2, <1>6, <1>8, <1>9, UnitOffCounts

LEMMA UnitTurnCounts ==
  ASSUME PlantInv, CountsBounded, NEW u \in Units, NEW late \in BOOLEAN,
         UnitTurn(u, late)
  PROVE  CountsBounded'
<1>1. fan' = fan
  BY DEF UnitTurn
<1>2. unit[u] \in UnitShape /\ unit[u].refs \in Nat /\ unit[u].refs <= MaxRefs
  BY PlantShapes DEF CountsBounded, Bounded, UnitShape
<1>3. /\ [unit[u] EXCEPT !.refs = 1] \in UnitShape
      /\ [unit[u] EXCEPT !.refs = 1].state = unit[u].state
      /\ [unit[u] EXCEPT !.refs = 1].refs <= MaxRefs
  BY <1>2, RefsAssumption DEF UnitShape
<1>4. CASE UnitStays /\ PumpStays
  BY <1>1, <1>4 DEF UnitStays, PumpStays, CountsBounded
<1>5. CASE UnitIn(u, "stopped") /\ UnitTo(u, FirstState(u, "start pump")) /\ PumpStays
  BY <1>1, <1>5, UnitToMoves DEF UnitIn, PumpStays, Away
<1>6. CASE UnitStartsPump(u)
  <2>1. unit[u].state = "start pump" /\ pump' = PumpStart(pump, PumpOf[u])
        /\ UnitTo(u, "wait pump")
    BY <1>6 DEF UnitStartsPump, UnitIn
  <2> DEFINE r == [unit[u] EXCEPT !.state = "wait pump"]
  <2>2. r.refs <= MaxRefs /\ r.state = "wait pump"
    BY <1>2 DEF UnitShape
  <2>3. unit' = [unit EXCEPT ![u] = r]
    BY <2>1 DEF UnitTo
  <2> HIDE DEF r
  <2>4. /\ Limited(unit', fan') /\ OnlyOne(u)
        /\ StateOf(u) = unit[u].state /\ StateOf(u)' = r.state
    BY <1>1, <2>2, <2>3, OneUnit
  <2>5. StateOf(u)' \notin Away /\ StateOf(u) \in Away
    BY <2>1, <2>2, <2>4 DEF Away
  <2> QED BY <2>1, <2>4, <2>5, ObjectStarts
<1>7. CASE UnitWaits(u, late)
  <2>1. PICK s \in WaitOutcomes(PumpOf[u], late) : UnitTo(u, s)
    BY <1>7 DEF UnitWaits
  <2>2. pump' = pump
    BY <1>7 DEF UnitWaits, PumpStays
  <2>3. s \in {"error", "start", "wait pump"} \/ pump[PumpOf[u]].refs < MaxRefs
    BY <2>1 DEF WaitOutcomes
  <2>4. CASE s \in {"error", "start", "wait pump"}
    <3>1. s \notin Away
      BY <2>4 DEF Away
    <3> QED BY <1>1, <2>1, <2>2, <3>1, UnitToMoves
  <2>5. CASE pump[PumpOf[u]].refs < MaxRefs
    <3>1. pump[PumpOf[u]].refs \in Nat
      BY PlantShapes, CountsNat, PumpsAssumption
    <3>2. pump[PumpOf[u]].refs <= MaxRefs
      BY <2>5, <3>1, RefsAssumption
    <3> QED BY <1>1, <2>1, <2>2, <3>2, UnitToMoves
  <2> QED BY <2>3, <2>4, <2>5
<1>8. CASE UnitStarts(u)
  <2> DEFINE r == [unit[u] EXCEPT !.state = "running", !.mode = mode,
                                  !.contactors = unit[u].contactors \cup {mode}]
  <2>1. unit' = [unit EXCEPT ![u] = r] /\ pump' = pump
    BY <1>8, PlantShapes DEF UnitStarts, PumpStays
  <2>2. r.refs = unit[u].refs /\ r.state = "running"
    BY <1>2 DEF UnitShape
  <2> HIDE DEF r
  <2>3. r.refs <= MaxRefs /\ r.state \notin Away
    BY <1>2, <2>2 DEF Away
  <2> QED BY <1>1, <2>1, <2>3, UnitMoves
<1>9. CASE UnitRuns(u)
  <2>1. CASE UnitTo(u, "error") /\ PumpStays
    BY <1>1, <2>1, UnitToMoves DEF PumpStays, Away
  <2>2. CASE UnitForceStop(unit[u], u)
    BY <1>1, <1>2, <2>2, UnitForceStopCounts
  <2>3. CASE UnitStop(pump, [unit[u] EXCEPT !.refs = 1], u)
    BY <1>1, <1>3, <2>3, UnitStopCounts
  <2> QED BY <1>4, <1>9, <2>1, <2>2, <2>3 DEF UnitRuns
<1>10. CASE UnitFails(u)
  <2>1. PICK r : r = [unit[u] EXCEPT !.enabled = FALSE, !.error = TRUE]
    OBVIOUS
  <2>2. r \in UnitShape
    BY <1>2, <2>1 DEF UnitShape
  <2>3. UnitForceStop(r, u)
    BY <1>10, <2>1 DEF UnitFails
  <2> QED BY <1>1, <2>2, <2>3, UnitForceStopCounts
<1>11. CASE UnitReserves(u)
  <2>1. unit[u].state = "reserve" /\ pump' = pump
        /\ \E s : UnitTo(u, s)
    BY <1>11 DEF UnitReserves, UnitIn, PumpStays
  <2>2. unit[u].state \in Away
    BY <2>1 DEF Away
  <2> QED BY <1>1, <2>1, <2>2, UnitToMoves
<1>12. CASE UnitReleases(u)
  <2>1. unit[u].state = "release" /\ pump' = pump /\ UnitTo(u, "stopped")
    BY <1>12 DEF UnitReleases, UnitIn, PumpStays
  <2>2. unit[u].state \in Away
    BY <2>1 DEF Away
  <2> QED BY <1>1, <2>1, <2>2, UnitToMoves
<1> QED BY <1>4, <1>5, <1>6, <1>7, <1>8, <1>9, <1>10, <1>11, <1>12 DEF UnitTurn

\* One fan changes, and its own count stays within MaxRefs.
LEMMA OneFan ==
  ASSUME PlantInv, CountsBounded, NEW f \in Fans, NEW r,
         fan' = [fan EXCEPT ![f] = r], unit' = unit, r.refs <= MaxRefs
  PROVE  /\ Limited(unit', fan') /\ OnlyOne(f)
         /\ StateOf(f) = fan[f].state /\ StateOf(f)' = r.state
<1>1. fan'[f] = r /\ \A x \in Fans \ {f} : fan'[x] = fan[x]
  BY PlantShapes
<1>2. OnlyOne(f)
  BY <1>1 DEF OnlyOne
<1>3. Limited(unit', fan')
  <2>1. \A x \in Fans : fan[x].refs <= MaxRefs
    BY DEF CountsBounded, Bounded
  <2>2. \A x \in Fans : fan'[x].refs <= MaxRefs
    BY <1>1, <2>1
  <2>3. \A u \in Units : unit'[u].refs <= MaxRefs
    BY DEF CountsBounded, Bounded
  <2> QED BY <2>2, <2>3 DEF Limited
<1>4. StateOf(f) = fan[f].state /\ StateOf(f)' = r.state
  BY <1>1, ObjectsAssumption DEF StateOf
<1> QED BY <1>2, <1>3, <1>4

LEMMA FanMoves ==
  ASSUME PlantInv, CountsBounded, NEW f \in Fans, NEW r,
         fan' = [fan EXCEPT ![f] = r], unit' = unit, pump' = pump,
         r.refs <= MaxRefs,
         \/ r.state \notin Away \/ fan[f].state \in Away
         \/ pump[PumpOf[f]].refs <= MaxRefs
  PROVE  CountsBounded'
<1>1. /\ Limited(unit', fan') /\ OnlyOne(f)
      /\ StateOf(f) = fan[f].state /\ StateOf(f)' = r.state
  BY OneFan
<1> QED BY <1>1, ObjectMoves

LEMMA FanToMoves ==
  ASSUME PlantInv, CountsBounded, NEW f \in Fans, NEW s,
         FanTo(f, s), unit' = unit, pump' = pump,
         \/ s \notin Away \/ fan[f].state \in Away
         \/ pump[PumpOf[f]].refs <= MaxRefs
  PROVE  CountsBounded'
<1> DEFINE r == [fan[f] EXCEPT !.state = s]
<1>1. fan[f] \in FanShape /\ fan[f].refs <= MaxRefs
  BY PlantShapes DEF CountsBounded, Bounded
<1>2. r.state = s /\ r.refs <= MaxRefs
  BY <1>1 DEF FanShape
<1>3. fan' = [fan EXCEPT ![f] = r]
  BY DEF FanTo
<1> HIDE DEF r
<1> QED BY <1>2, <1>3, FanMoves

LEMMA FanOffCounts ==
  ASSUME PlantInv, CountsBounded, NEW f \in Fans, NEW r,
         fan' = [fan EXCEPT ![f] = r], unit' = unit, r.refs <= MaxRefs,
         Eased(pump, pump', PumpOf[f]), Less(pump[PumpOf[f]], pump'[PumpOf[f]])
  PROVE  CountsBounded'
<1>1. Limited(unit', fan') /\ OnlyOne(f)
  BY OneFan
<1> QED BY <1>1, ObjectStops

\* What fan_stop leaves of a fan
LEMMA FanStopped ==
  ASSUME NEW P, NEW f \in Fans, NEW r \in FanShape, r.refs <= MaxRefs, FanStop(P, r, f)
  PROVE  \E s : /\ fan' = [fan EXCEPT ![f] = s] /\ s.refs <= MaxRefs
                /\ r.refs # 1 => s.state = r.state
<1>1. r.refs \in Nat
  BY DEF FanShape
<1>2. PICK answers \in BOOLEAN :
        fan' = [fan EXCEPT ![f] =
          CASE r.refs = 0 -> r
            [] r.refs = 1 -> [r EXCEPT !.refs = 0, !.state = OffState(f),
                                       !.enabled = @ /\ answers]
            [] OTHER -> [r EXCEPT !.refs = @ - 1]]
  BY DEF FanStop
<1>3. CASE r.refs = 0
  <2>1. fan' = [fan EXCEPT ![f] = r]
    BY <1>2, <1>3
  <2> QED BY <2>1
<1>4. CASE r.refs = 1
  <2>1. PICK s : s = [r EXCEPT !.refs = 0, !.state = OffState(f), !.enabled = @ /\ answers]
    OBVIOUS
  <2>2. fan' = [fan EXCEPT ![f] = s]
    BY <1>2, <1>4, <2>1
  <2>3. s.refs = 0
    BY <2>1 DEF FanShape
  <2>4. s.refs <= MaxRefs
    BY <2>3, RefsAssumption
  <2> QED BY <1>4, <2>2, <2>4
<1>5. CASE r.refs # 0 /\ r.refs # 1
  <2>1. PICK n \in Nat : n = r.refs - 1
    BY <1>1, <1>5
  <2>2. PICK s : s = [r EXCEPT !.refs = n]
    OBVIOUS
  <2>3. fan' = [fan EXCEPT ![f] = s]
    BY <1>2, <1>5, <2>1, <2>2
  <2>4. s.refs = n /\ s.state = r.state
    BY <2>2 DEF FanShape
  <2>5. s.refs <= MaxRefs
    BY <1>1, <2>1, <2>4, RefsAssumption
  <2> QED BY <2>3, <2>4, <2>5
<1> QED BY <1>3, <1>4, <1>5

\* fan_stop
LEMMA FanStopCounts ==
  ASSUME PlantInv, CountsBounded, NEW f \in Fans, NEW r \in FanShape,
         r.state = fan[f].state, r.refs <= MaxRefs, FanStop(pump, r, f), unit' = unit
  PROVE  CountsBounded'
<1>1. /\ pump \in [Pumps -> PumpShape] /\ PumpOf[f] \in Pumps
      /\ \A p \in Pumps : CoolPump(pump[p])
  BY PlantShapes, PumpsAssumption DEF CountsBounded, Bounded
<1>2. PICK s : /\ fan' = [fan EXCEPT ![f] = s] /\ s.refs <= MaxRefs
               /\ r.refs # 1 => s.state = fan[f].state
  BY FanStopped
<1>3. CASE r.refs = 1
  <2>1. pump' = PumpStop(pump, PumpOf[f])
    BY <1>3 DEF FanStop
  <2>2. Eased(pump, pump', PumpOf[f]) /\ Less(pump[PumpOf[f]], pump'[PumpOf[f]])
    BY <1>1, <2>1, PumpStopEases
  <2> QED BY <1>2, <2>2, FanOffCounts
<1>4. CASE r.refs # 1
  <2>1. pump' = pump
    BY <1>4 DEF FanStop
  <2>2. s.state \notin Away \/ fan[f].state \in Away
    BY <1>2, <1>4
  <2> QED BY <1>2, <2>1, <2>2, FanMoves
<1> QED BY <1>3, <1>4

\* fan_force_stop
LEMMA FanForceStopCounts ==
  ASSUME PlantInv, CountsBounded, NEW f \in Fans, NEW r \in FanShape,
         FanForceStop(r, f), unit' = unit
  PROVE  CountsBounded'
<1> DEFINE q == PumpOf[f]
           O == PumpForceStop(pump, q)
           r1 == [r EXCEPT !.refs = 1]
<1>1. /\ pump \in [Pumps -> PumpShape] /\ q \in Pumps
      /\ \A p \in Pumps : CoolPump(pump[p])
  BY PlantShapes, PumpsAssumption DEF CountsBounded, Bounded
<1>2. Eased(pump, O, q) /\ O[q].refs = 0
  BY <1>1, PumpForceStopEases
<1>3. PumpStop(O, q) = O
  BY <1>2 DEF PumpStop
<1>4. r1 \in FanShape /\ r1.refs = 1
  BY DEF FanShape
<1>5. FanStop(O, r1, f)
  BY DEF FanForceStop
<1> HIDE DEF O, r1
<1>6. r1.refs <= MaxRefs
  BY <1>4, RefsAssumption
<1>7. PICK s : fan' = [fan EXCEPT ![f] = s] /\ s.refs <= MaxRefs
  BY <1>4, <1>5, <1>6, FanStopped
<1>8. pump' = O
  BY <1>3, <1>4, <1>5 DEF FanStop
<1>9. Less(pump[q], pump'[q])
  BY <1>2, <1>8 DEF Less
<1> QED BY <1>2, <1>7, <1>8, <1>9, FanOffCounts

\* fan_set_mode(name, FAN_MODE_NONE)
LEMMA FanUncallCounts ==
  ASSUME PlantInv, CountsBounded, NEW f \in Fans, FanUncall(f), unit' = unit
  PROVE  CountsBounded'
<1>1. CASE fan[f].called
  <2>1. PICK r : r = [fan[f] EXCEPT !.refs = 1, !.called = FALSE]
    OBVIOUS
  <2>2. r \in FanShape /\ r.state = fan[f].state /\ r.refs = 1
    BY <2>1, PlantShapes DEF FanShape
  <2>3. r.refs <= MaxRefs
    BY <2>2, RefsAssumption
  <2>4. FanStop(pump, r, f)
    BY <1>1, <2>1 DEF FanUncall
  <2> QED BY <2>2, <2>3, <2>4, FanStopCounts
<1>2. CASE ~fan[f].called
  BY <1>2 DEF FanUncall, CountsBounded
<1> QED BY <1>1, <1>2

LEMMA FanTurnCounts ==
  ASSUME PlantInv, CountsBounded, NEW f \in Fans, NEW late \in BOOLEAN,
         FanTurn(f, late)
  PROVE  CountsBounded'
<1>1. unit' = unit
  BY DEF FanTurn
<1>2. fan[f] \in FanShape /\ fan[f].refs \in Nat /\ fan[f].refs <= MaxRefs
  BY PlantShapes DEF CountsBounded, Bounded, FanShape
<1>3. CASE FanStays /\ PumpStays
  BY <1>1, <1>3 DEF FanStays, PumpStays, CountsBounded
<1>4. CASE FanBegins(f)
  <2>1. fan[f].state \in Away /\ pump' = pump
    BY <1>4 DEF FanBegins, FanIn, Away, PumpStays
  <2>2. FanStays \/ \E s : FanTo(f, s)
    BY <1>4 DEF FanBegins
  <2> QED BY <1>1, <1>3, <2>1, <2>2, FanToMoves DEF PumpStays
<1>5. CASE FanStartsPump(f)
  <2>1. fan[f].state = "start pump" /\ fan[f].state \in Away
        /\ pump' = PumpStart(pump, PumpOf[f])
    BY <1>5 DEF FanStartsPump, FanIn, Away
  <2>2. CASE pump[PumpOf[f]].enabled
    <3>1. FanTo(f, "wait pump")
      BY <1>5, <2>2 DEF FanStartsPump
    <3>2. PICK r : r = [fan[f] EXCEPT !.state = "wait pump"]
      OBVIOUS
    <3>3. r.refs <= MaxRefs /\ r.state = "wait pump"
      BY <1>2, <3>2 DEF FanShape
    <3>4. fan' = [fan EXCEPT ![f] = r]
      BY <3>1, <3>2 DEF FanTo
    <3>5. /\ Limited(unit', fan') /\ OnlyOne(f)
          /\ StateOf(f) = fan[f].state /\ StateOf(f)' = r.state
      BY <1>1, <3>3, <3>4, OneFan
    <3>6. StateOf(f)' \notin Away /\ StateOf(f) \in Away
      BY <2>1, <3>3, <3>5 DEF Away
    <3> QED BY <2>1, <3>5, <3>6, ObjectStarts
  <2>3. CASE ~pump[PumpOf[f]].enabled
    <3>1. FanTo(f, OffState(f)) /\ pump' = pump
      BY <1>5, <2>1, <2>3 DEF FanStartsPump, PumpStart
    <3> QED BY <1>1, <2>1, <3>1, FanToMoves
  <2> QED BY <2>2, <2>3
<1>6. CASE FanWaitsPump(f, late)
  <2>1. PICK s \in WaitOutcomes(PumpOf[f], late) : FanTo(f, s)
    BY <1>6 DEF FanWaitsPump
  <2>2. pump' = pump
    BY <1>6 DEF FanWaitsPump, PumpStays
  <2>3. s \in {"error", "start", "wait pump"} \/ pump[PumpOf[f]].refs < MaxRefs
    BY <2>1 DEF WaitOutcomes
  <2>4. CASE s \in {"error", "start", "wait pump"}
    <3>1. s \notin Away
      BY <2>4 DEF Away
    <3> QED BY <1>1, <2>1, <2>2, <3>1, FanToMoves
  <2>5. CASE pump[PumpOf[f]].refs < MaxRefs
    <3>1. pump[PumpOf[f]].refs \in Nat
      BY PlantShapes, CountsNat, PumpsAssumption
    <3>2. pump[PumpOf[f]].refs <= MaxRefs
      BY <2>5, <3>1, RefsAssumption
    <3> QED BY <1>1, <2>1, <2>2, <3>2, FanToMoves
  <2> QED BY <2>3, <2>4, <2>5
<1>7. CASE FanStarts(f)
  <2>1. pump' = pump
    BY <1>7 DEF FanStarts, PumpStays
  <2>2. CASE FanTo(f, "wait start")
    BY <1>1, <2>1, <2>2, FanToMoves DEF Away
  <2>3. CASE fan' = [fan EXCEPT ![f].state = "error", ![f].enabled = FALSE]
    <3>1. PICK r : r = [fan[f] EXCEPT !.state = "error", !.enabled = FALSE]
      OBVIOUS
    <3>2. fan' = [fan EXCEPT ![f] = r]
      BY <2>3, <3>1, PlantShapes
    <3>3. r.refs <= MaxRefs /\ r.state = "error"
      BY <1>2, <3>1 DEF FanShape
    <3>4. r.state \notin Away
      BY <3>3 DEF Away
    <3> QED BY <1>1, <2>1, <3>2, <3>3, <3>4, FanMoves
  <2> QED BY <1>7, <2>2, <2>3 DEF FanStarts
<1>8. CASE FanWaits(f, late)
  <2>1. pump' = pump /\ (FanStays \/ \E s \in {"running", "error"} : FanTo(f, s))
    BY <1>8 DEF FanWaits, PumpStays
  <2>2. \A s \in {"running", "error"} : s \notin Away
    BY DEF Away
  <2> QED BY <1>1, <1>3, <2>1, <2>2, FanToMoves DEF PumpStays
<1>9. CASE FanRuns(f)
  BY <1>1, <1>3, <1>9, FanUncallCounts DEF FanRuns
<1>10. CASE FanFails(f)
  <2>1. PICK r : r = [fan[f] EXCEPT !.enabled = FALSE, !.error = TRUE]
    OBVIOUS
  <2>2. r \in FanShape
    BY <1>2, <2>1 DEF FanShape
  <2>3. FanForceStop(r, f)
    BY <1>10, <2>1 DEF FanFails
  <2> QED BY <1>1, <2>2, <2>3, FanForceStopCounts
<1>11. CASE FanReserves(f)
  <2>1. fan[f].state = "reserve" /\ pump' = pump /\ \E s : FanTo(f, s)
    BY <1>11 DEF FanReserves, FanIn, PumpStays
  <2>2. fan[f].state \in Away
    BY <2>1 DEF Away
  <2> QED BY <1>1, <2>1, <2>2, FanToMoves
<1>12. CASE FanReleases(f)
  <2>1. fan[f].state = "release" /\ pump' = pump
        /\ fan' = [fan EXCEPT ![f].state = "stopped", ![f].called = FALSE]
    BY <1>12 DEF FanReleases, FanIn, PumpStays
  <2>2. PICK r : r = [fan[f] EXCEPT !.state = "stopped", !.called = FALSE]
    OBVIOUS
  <2>3. fan' = [fan EXCEPT ![f] = r]
    BY <2>1, <2>2, PlantShapes
  <2>4. r.refs <= MaxRefs
    BY <1>2, <2>2 DEF FanShape
  <2>5. fan[f].state \in Away
    BY <2>1 DEF Away
  <2> QED BY <1>1, <2>1, <2>3, <2>4, <2>5, FanMoves
<1> QED BY <1>3, <1>4, <1>5, <1>6, <1>7, <1>8, <1>9, <1>10, <1>11, <1>12 DEF FanTurn

\* No count grows, nobody leaves a pump, and the units and fans keep their counts.
LEMMA NobodyLeaves ==
  ASSUME PlantInv, CountsBounded, PlantInv', Limited(unit', fan'),
         \A p \in Pumps : CoolPump(pump'[p]) /\ pump'[p].refs <= pump[p].refs,
         OnlyLeaves(pump, unit, fan, pump', unit', fan', {})
  PROVE  CountsBounded'
<1>1. /\ pump \in [Pumps -> PumpShape] /\ Bounded(pump, unit, fan)
      /\ pump' \in [Pumps -> PumpShape]
  BY PlantShapes DEF CountsBounded, PlantInv, WellPumps
<1>2. Bounded(pump', unit', fan')
  BY <1>1, MovesKeep
<1> QED BY <1>2 DEF CountsBounded

\* A pump changes, but not its count, and does not give up its primer.
LEMMA PumpMoves ==
  ASSUME PlantInv, CountsBounded, PlantInv', NEW p \in Pumps, NEW r,
         pump' = [pump EXCEPT ![p] = r], unit' = unit, fan' = fan,
         r.refs = pump[p].refs, r.state # "cooldown" \/ r.state = pump[p].state,
         \/ r.state \notin Away \/ pump[p].state \in Away
         \/ (p \in DOMAIN Primer /\ pump[Primer[p]].refs <= MaxRefs)
  PROVE  CountsBounded'
<1>1. /\ pump \in [Pumps -> PumpShape] /\ Bounded(pump, unit, fan)
      /\ pump' \in [Pumps -> PumpShape]
  BY PlantShapes DEF CountsBounded, PlantInv, WellPumps
<1>2. pump'[p] = r /\ \A x \in Pumps \ {p} : pump'[x] = pump[x]
  BY <1>1
<1>3. \A x \in Pumps : pump[x].refs \in Nat /\ CoolPump(pump[x])
  BY <1>1, CountsNat DEF Bounded
<1>4. \A x \in Pumps : CoolPump(pump'[x]) /\ pump'[x].refs <= pump[x].refs
  BY <1>2, <1>3 DEF CoolPump
<1>5. Limited(unit', fan')
  BY <1>1 DEF Bounded, Limited
<1>6. DOMAIN Primer \subseteq Pumps /\ p \notin Units \cup Fans
  BY PumpsAssumption, ObjectsAssumption
<1>7. CASE r.state \notin Away \/ pump[p].state \in Away
  <2>1. OnlyLeaves(pump, unit, fan, pump', unit', fan', {})
    BY <1>2, <1>6, <1>7 DEF OnlyLeaves
  <2> QED BY <1>4, <1>5, <2>1, NobodyLeaves
<1>8. CASE p \in DOMAIN Primer /\ pump[Primer[p]].refs <= MaxRefs
  <2>1. OnlyLeaves(pump, unit, fan, pump', unit', fan', {p})
    BY <1>2, <1>6 DEF OnlyLeaves
  <2>2. \A x \in {p} \cap DOMAIN Primer : pump[Primer[x]].refs <= MaxRefs
    BY <1>8
  <2>3. \A x \in {p} \cap (Units \cup Fans) : pump[PumpOf[x]].refs <= MaxRefs
    BY <1>6
  <2>4. Bounded(pump', unit', fan')
    BY <1>1, <1>4, <1>5, <2>1, <2>2, <2>3, MovesKeep
  <2> QED BY <2>4 DEF CountsBounded
<1> QED BY <1>7, <1>8

\* A change of the state alone
LEMMA PumpToMoves ==
  ASSUME PlantInv, CountsBounded, PlantInv', NEW p \in Pumps, NEW s,
         PumpTo(p, s), unit' = unit, fan' = fan, s # "cooldown",
         \/ s \notin Away \/ pump[p].state \in Away
         \/ (p \in DOMAIN Primer /\ pump[Primer[p]].refs <= MaxRefs)
  PROVE  CountsBounded'
<1>1. PICK r : r = [pump[p] EXCEPT !.state = s]
  OBVIOUS
<1>2. pump[p] \in PumpShape
  BY PlantShapes
<1>3. r.state = s /\ r.refs = pump[p].refs
  BY <1>1, <1>2 DEF PumpShape
<1>4. pump' = [pump EXCEPT ![p] = r]
  BY <1>1 DEF PumpTo
<1> QED BY <1>3, <1>4, PumpMoves

\* START_PRIMER: the pump p begins to count on its primer.
LEMMA PrimerStartCounts ==
  ASSUME PlantInv, CountsBounded, PlantInv', NEW p \in Pumps, PumpStartsPrimer(p),
         unit' = unit, fan' = fan
  PROVE  CountsBounded'
<1> DEFINE q == Primer[p]
           P == PumpStart(pump, q)
           s == IF P[q].state = "running" THEN "start" ELSE "wait primer"
<1>1. /\ pump \in [Pumps -> PumpShape] /\ pump[p].state = "start primer"
      /\ p \in DOMAIN Primer
  BY PumpInStep DEF PumpStartsPrimer
<1>2. q \in Pumps /\ q # p /\ q \notin DOMAIN Primer /\ p \notin Units \cup Fans
      /\ DOMAIN Primer \subseteq Pumps
  BY <1>1, PrimerFacts, ObjectsAssumption, PumpsAssumption
<1>3. /\ Bounded(pump, unit, fan) /\ pump' \in [Pumps -> PumpShape]
      /\ \A x \in Pumps : CoolPump(pump[x]) /\ pump[x].refs \in Nat
  BY <1>1, PlantShapes, CountsNat DEF CountsBounded, Bounded, PlantInv, WellPumps
<1>4. /\ P \in [Pumps -> PumpShape] /\ P[q].refs <= pump[q].refs + 1
      /\ \A x \in Pumps : CoolPump(P[x]) /\ (x # q => P[x] = pump[x])
  BY <1>1, <1>2, <1>3, PumpStartCounts
<1>5. pump' = [P EXCEPT ![p].state = s]
  BY DEF PumpStartsPrimer
<1>6. s \in {"start", "wait primer"}
  OBVIOUS
<1> HIDE DEF P, s, q
<1>7. /\ pump'[p].state = s /\ pump'[p].refs = pump[p].refs
      /\ \A x \in Pumps \ {p} : pump'[x] = P[x]
  <2>1. P[p] \in PumpShape /\ P[p] = pump[p]
    BY <1>2, <1>4
  <2>2. pump'[p] = [P[p] EXCEPT !.state = s]
    BY <1>4, <1>5
  <2>3. pump'[p].state = s /\ pump'[p].refs = P[p].refs
    BY <2>1, <2>2 DEF PumpShape
  <2>4. \A x \in Pumps \ {p} : pump'[x] = P[x]
    BY <1>4, <1>5
  <2> QED BY <2>1, <2>3, <2>4
<1>8. pump'[q].refs <= pump[q].refs + 1
  BY <1>2, <1>4, <1>7
<1>9. \A x \in Pumps : CoolPump(pump'[x]) /\ (x # q => pump'[x].refs <= pump[x].refs)
  <2>1. CoolPump(pump'[p])
    BY <1>6, <1>7 DEF CoolPump
  <2>a. pump'[p].refs <= pump[p].refs
    <3>1. p \in Pumps
      BY <1>1, <1>2
    <3>2. pump[p].refs \in Nat
      BY <1>3, <3>1
    <3> QED BY <1>7, <3>2
  <2>2. \A x \in Pumps \ {p} : CoolPump(pump'[x]) /\ (x # q => pump'[x].refs <= pump[x].refs)
    BY <1>3, <1>4, <1>7
  <2> QED BY <2>1, <2>a, <2>2
<1>10. OnlyLeaves(pump, unit, fan, pump', unit', fan', {})
  <2>1. s \notin Away
    BY <1>6 DEF Away
  <2>2. \A x \in DOMAIN Primer \ {p} : pump'[x] = pump[x]
    BY <1>2, <1>4, <1>7
  <2> QED BY <1>7, <2>1, <2>2 DEF OnlyLeaves
<1>11. p \in UsersOf(q, pump', unit', fan')
  BY <1>1, <1>6, <1>7 DEF UsersOf, Away, q
<1>12. p \notin UsersOf(q, pump, unit, fan)
  BY <1>1, <1>2 DEF UsersOf, Away
<1>13. Limited(unit', fan')
  BY <1>3 DEF Bounded, Limited
<1>14. Bounded(pump', unit', fan')
  BY <1>1, <1>2, <1>3, <1>8, <1>9, <1>10, <1>11, <1>12, <1>13, StartKeeps
<1> QED BY <1>14 DEF CountsBounded

\* A pump leaves its primer, which gives its count back.
LEMMA PrimerLeft ==
  ASSUME NEW P \in [Pumps -> PumpShape], NEW U, NEW F, NEW Q \in [Pumps -> PumpShape],
         NEW V, NEW G, NEW x \in DOMAIN Primer,
         x \notin Units \cup Fans,
         Bounded(P, U, F), Limited(V, G), OnlyLeaves(P, U, F, Q, V, G, {x}),
         \A p \in Pumps : CoolPump(Q[p]) /\ (Q[p].refs <= P[p].refs \/ Q[p].refs <= 1),
         Less(P[Primer[x]], Q[Primer[x]])
  PROVE  Bounded(Q, V, G)
<1> SUFFICES ASSUME NEW p \in Pumps PROVE BoundOf(p, Q, V, G)
  BY DEF Bounded, Limited
<1>1. P[p].refs \in Nat /\ Q[p].refs \in Nat /\ BoundOf(p, P, U, F)
  BY CountsNat DEF Bounded
<1>2. UsersOf(p, P, U, F) \ {x} \subseteq UsersOf(p, Q, V, G)
  BY UsersStay
<1>3. CASE Q[p].refs <= 1
  <2>1. Q[p].refs <= MaxRefs
    BY <1>1, <1>3, RefsAssumption
  <2> QED BY <1>1, <2>1, SmallBounds
<1>4. CASE ~(Q[p].refs <= 1) /\ p = Primer[x]
  <2>1. Q[p].refs < P[p].refs
    BY <1>4 DEF Less
  <2>2. AllBut(x, UsersOf(p, P, U, F), UsersOf(p, Q, V, G))
    BY <1>2 DEF AllBut
  <2> QED BY <1>1, <2>1, <2>2, LessBounds
<1>5. CASE ~(Q[p].refs <= 1) /\ p # Primer[x]
  <2>1. x \notin UsersOf(p, P, U, F)
    BY <1>5 DEF UsersOf
  <2>2. UsersOf(p, P, U, F) \subseteq UsersOf(p, Q, V, G)
    BY <1>2, <2>1
  <2>3. Q[p].refs <= P[p].refs
    BY <1>5
  <2> QED BY <1>1, <2>2, <2>3, StayBounds
<1> QED BY <1>3, <1>4, <1>5

LEMMA PrimerGivenBack ==
  ASSUME PlantInv, CountsBounded, PlantInv', NEW p \in DOMAIN Primer,
         p \notin Units \cup Fans, Limited(unit', fan'),
         OnlyLeaves(pump, unit, fan, pump', unit', fan', {p}),
         \A x \in Pumps :
           CoolPump(pump'[x]) /\ (pump'[x].refs <= pump[x].refs \/ pump'[x].refs <= 1),
         Less(pump[Primer[p]], pump'[Primer[p]])
  PROVE  CountsBounded'
<1>1. /\ Bounded(pump, unit, fan) /\ pump' \in [Pumps -> PumpShape]
      /\ pump \in [Pumps -> PumpShape]
  BY PlantShapes DEF CountsBounded, PlantInv, WellPumps
<1>2. Bounded(pump', unit', fan')
  BY <1>1, PrimerLeft
<1> QED BY <1>2 DEF CountsBounded

\* The retry of WAIT_PRIMER: the pump p gives its primer back and starts over.
LEMMA PrimerLeftCounts ==
  ASSUME PlantInv, CountsBounded, PlantInv', NEW p \in DOMAIN Primer,
         pump' = [PumpStop(pump, Primer[p]) EXCEPT ![p].state = "start primer"],
         unit' = unit, fan' = fan
  PROVE  CountsBounded'
<1> DEFINE q == Primer[p]
           P == PumpStop(pump, q)
<1>1. q \in Pumps /\ q # p /\ q \notin DOMAIN Primer /\ p \in Pumps
      /\ p \notin Units \cup Fans /\ DOMAIN Primer \subseteq Pumps
  BY PrimerFacts, ObjectsAssumption, PumpsAssumption
<1>2. /\ Bounded(pump, unit, fan) /\ pump' \in [Pumps -> PumpShape]
      /\ pump \in [Pumps -> PumpShape]
      /\ \A x \in Pumps : CoolPump(pump[x]) /\ pump[x].refs \in Nat
  BY PlantShapes, CountsNat DEF CountsBounded, Bounded, PlantInv, WellPumps
<1>3. Eased(pump, P, q) /\ Less(pump[q], P[q])
  BY <1>1, <1>2, PumpStopEases
<1>4. P \in [Pumps -> PumpShape]
  BY <1>3 DEF Eased
<1> HIDE DEF P
<1>5. pump' = [P EXCEPT ![p].state = "start primer"]
  BY DEF P
<1>6. /\ pump'[p].state = "start primer" /\ pump'[p].refs = P[p].refs
      /\ \A x \in Pumps \ {p} : pump'[x] = P[x]
  <2>1. pump'[p] = [P[p] EXCEPT !.state = "start primer"] /\ P[p] \in PumpShape
    BY <1>1, <1>4, <1>5
  <2>2. pump'[p].state = "start primer" /\ pump'[p].refs = P[p].refs
    BY <2>1 DEF PumpShape
  <2>3. \A x \in Pumps \ {p} : pump'[x] = P[x]
    BY <1>4, <1>5
  <2> QED BY <2>2, <2>3
<1>7. OnlyLeaves(pump, unit, fan, pump', unit', fan', {p})
  BY <1>1, <1>3, <1>6 DEF OnlyLeaves, Eased
<1> HIDE DEF q
<1>8. \A x \in Pumps : CoolPump(pump'[x]) /\ (pump'[x].refs <= pump[x].refs \/ pump'[x].refs <= 1)
  <2>1. \A x \in Pumps : CoolPump(P[x]) /\ (P[x].refs <= pump[x].refs \/ P[x].refs <= 1)
    BY <1>3 DEF Eased
  <2>2. CoolPump(pump'[p])
    BY <1>6 DEF CoolPump
  <2>3. pump'[p].refs <= pump[p].refs \/ pump'[p].refs <= 1
    BY <1>1, <1>6, <2>1
  <2>4. ASSUME NEW x \in Pumps, x # p
        PROVE  CoolPump(pump'[x]) /\ (pump'[x].refs <= pump[x].refs \/ pump'[x].refs <= 1)
    <3>1. pump'[x] = P[x]
      BY <1>6, <2>4
    <3> QED BY <2>1, <3>1
  <2> QED BY <2>2, <2>3, <2>4
<1>9. Less(pump[q], pump'[q])
  BY <1>1, <1>3, <1>6
<1>10. Limited(unit', fan')
  BY <1>2 DEF Bounded, Limited
<1>11. p \notin Units \cup Fans /\ Less(pump[Primer[p]], pump'[Primer[p]])
  BY <1>1, <1>9 DEF q
<1> QED BY <1>7, <1>8, <1>10, <1>11, PrimerGivenBack

LEMMA PumpTurnCounts ==
  ASSUME PlantInv, CountsBounded, PlantInv', NEW p \in Pumps, NEW late \in BOOLEAN,
         PumpTurn(p, late)
  PROVE  CountsBounded'
<1>1. unit' = unit /\ fan' = fan
  BY DEF PumpTurn
<1>2. /\ pump \in [Pumps -> PumpShape] /\ pump[p] \in PumpShape
      /\ \A q \in Pumps : CoolPump(pump[q])
  BY PlantShapes DEF CountsBounded, Bounded
<1>3. CASE pump' = pump
  BY <1>1, <1>3 DEF CountsBounded
<1>4. ASSUME NEW s, PumpTo(p, s), s \notin Away, s # "cooldown"
      PROVE  CountsBounded'
  BY <1>1, <1>4, PumpToMoves
<1>5. ASSUME NEW s, PumpTo(p, s), pump[p].state \in Away, s # "cooldown"
      PROVE  CountsBounded'
  BY <1>1, <1>5, PumpToMoves
<1>6. CASE PumpIn(p, "stopped") /\ PumpTo(p, FirstState(p, FirstOfPump(p)))
  <2>1. pump[p].state \in Away
    BY <1>6 DEF PumpIn, Away
  <2>2. FirstState(p, FirstOfPump(p)) # "cooldown"
    BY DEF FirstState, FirstOfPump
  <2> QED BY <1>5, <1>6, <2>1, <2>2
<1>7. CASE PumpStartsPrimer(p)
  BY <1>1, <1>7, PrimerStartCounts
<1>8. CASE PumpWaitsPrimer(p, late)
  <2>1. p \in DOMAIN Primer
    BY <1>8, PumpInStep DEF PumpWaitsPrimer
  <2>2. CASE PumpTo(p, "start") \/ PumpTo(p, "error")
    BY <1>4, <2>2 DEF Away
  <2>3. CASE PumpTo(p, "start primer") /\ pump[Primer[p]].refs < MaxRefs
    <3>1. pump[Primer[p]].refs \in Nat
      BY <1>2, <2>1, PrimerFacts, CountsNat
    <3>2. PICK n \in Nat : n = pump[Primer[p]].refs /\ n < MaxRefs
      BY <2>3, <3>1
    <3>3. n <= MaxRefs
      BY <3>2, RefsAssumption
    <3>4. pump[Primer[p]].refs <= MaxRefs
      BY <3>2, <3>3
    <3> QED BY <1>1, <2>1, <2>3, <3>4, PumpToMoves
  <2>4. CASE pump' = [PumpStop(pump, Primer[p]) EXCEPT ![p].state = "start primer"]
    BY <1>1, <2>1, <2>4, PrimerLeftCounts
  <2>5. \/ PumpTo(p, "start") \/ PumpTo(p, "error") \/ pump' = pump
        \/ PumpTo(p, "start primer") /\ pump[Primer[p]].refs < MaxRefs
        \/ pump' = [PumpStop(pump, Primer[p]) EXCEPT ![p].state = "start primer"]
    BY <1>8 DEF PumpWaitsPrimer, PumpStays
  <2> QED BY <1>3, <2>2, <2>3, <2>4, <2>5
<1>9. CASE PumpStarts(p)
  <2>1. PICK r : r = [pump[p] EXCEPT !.pin = TRUE, !.state = "wait pump"]
    OBVIOUS
  <2>2. pump' = [pump EXCEPT ![p] = r]
    BY <1>2, <1>9, <2>1 DEF PumpStarts
  <2>3. r.refs = pump[p].refs /\ r.state = "wait pump"
    BY <1>2, <2>1 DEF PumpShape
  <2>4. r.state \notin Away /\ r.state # "cooldown"
    BY <2>3 DEF Away
  <2> QED BY <1>1, <2>2, <2>3, <2>4, PumpMoves
<1>10. CASE PumpWaits(p, late)
  <2> DEFINE S == StopPrimer(pump, p)
             s == Started(p)
  <2>1. CASE pump' = [S EXCEPT ![p].state = s]
    <3>1. /\ S \in [Pumps -> PumpShape] /\ S[p] = pump[p]
          /\ \A q \in Pumps \ {p} : CoolPump(S[q])
          /\ \A q \in Pumps : S[q].refs <= pump[q].refs
          /\ \A q \in DOMAIN Primer : S[q].state = pump[q].state
      BY <1>2, StopPrimerEases
    <3>2. s \notin Away /\ s # "cooldown"
      BY DEF Started, Warm, Away
    <3> HIDE DEF S, s
    <3>3. /\ pump'[p] = [S[p] EXCEPT !.state = s] /\ S[p] \in PumpShape
          /\ \A q \in Pumps \ {p} : pump'[q] = S[q]
      BY <2>1, <3>1
    <3>4. pump'[p].state = s /\ pump'[p].refs = S[p].refs
      BY <3>3 DEF PumpShape
    <3>5. CoolPump(pump'[p]) /\ pump'[p].refs <= pump[p].refs
      BY <3>1, <3>2, <3>4 DEF CoolPump
    <3>6. \A q \in Pumps : CoolPump(pump'[q]) /\ pump'[q].refs <= pump[q].refs
      BY <3>1, <3>3, <3>5
    <3>7. DOMAIN Primer \subseteq Pumps
      BY PumpsAssumption
    <3>8. OnlyLeaves(pump, unit, fan, pump', unit', fan', {})
      BY <1>1, <3>1, <3>2, <3>3, <3>4, <3>7 DEF OnlyLeaves
    <3>9. Limited(unit', fan')
      BY <1>1 DEF CountsBounded, Bounded, Limited
    <3> QED BY <3>6, <3>8, <3>9, NobodyLeaves
  <2>2. pump' = [S EXCEPT ![p].state = s] \/ pump' = pump
    BY <1>10 DEF PumpWaits, PumpStays
  <2> QED BY <1>3, <2>1, <2>2
<1>11. CASE PumpFlows(p, late) \/ PumpWarms(p, late) \/ PumpRuns(p)
  <2>1. \/ \E s \in {"warmup", "running", "error"} : PumpTo(p, s)
        \/ pump' = pump
    BY <1>11 DEF PumpFlows, PumpWarms, PumpRuns, PumpStays, Warm
  <2>2. \A s \in {"warmup", "running", "error"} : s \notin Away /\ s # "cooldown"
    BY DEF Away
  <2> QED BY <1>3, <1>4, <2>1, <2>2
<1>12. CASE PumpCools(p, late)
  <2>1. CASE pump' = PumpOff(pump, p)
    <3>1. Eased(pump, pump', p)
      BY <1>2, <2>1, PumpOffEases
    <3> QED BY <1>1, <3>1, PumpStops
  <2> QED BY <1>3, <1>12, <2>1 DEF PumpCools
<1>13. CASE PumpFails(p)
  <2> DEFINE O == PumpForceStop(pump, p)
  <2>1. Eased(pump, O, p)
    BY <1>2, PumpForceStopEases
  <2>2. pump' = [O EXCEPT ![p].enabled = FALSE, ![p].error = TRUE]
    BY <1>13 DEF PumpFails
  <2>3. pump' \in [Pumps -> PumpShape] /\ DOMAIN Primer \subseteq Pumps
    BY PlantShapes, PumpsAssumption DEF PlantInv, WellPumps
  <2> HIDE DEF O
  <2>4. O \in [Pumps -> PumpShape]
    BY <2>1 DEF Eased
  <2>5. pump'[p].refs = O[p].refs /\ pump'[p].state = O[p].state
        /\ \A q \in Pumps \ {p} : pump'[q] = O[q]
    BY <2>2, <2>4 DEF PumpShape
  <2>6. \A q \in Pumps : pump'[q].refs = O[q].refs /\ pump'[q].state = O[q].state
    BY <2>5
  <2>7. \A q \in Pumps : CoolPump(pump'[q]) /\ (pump'[q].refs <= pump[q].refs \/ pump'[q].refs <= 1)
    BY <2>1, <2>6 DEF Eased, CoolPump
  <2>8. \A q \in DOMAIN Primer \ {p} : pump'[q].state = pump[q].state
    BY <2>1, <2>3, <2>6 DEF Eased
  <2>9. p \in DOMAIN Primer /\ pump[p].state \notin Away /\ pump'[p].state \in Away
          => Less(pump[Primer[p]], pump'[Primer[p]])
    BY <2>1, <2>6, PrimerFacts DEF Eased, Less
  <2>10. Eased(pump, pump', p)
    BY <2>3, <2>7, <2>8, <2>9 DEF Eased
  <2> QED BY <1>1, <2>10, PumpStops
<1>14. CASE PumpReserves(p)
  <2>1. pump[p].state \in Away
    BY <1>14 DEF PumpReserves, PumpIn, Away
  <2>2. \E s \in {"start primer", "start", "reserve"} : PumpTo(p, s)
    BY <1>14 DEF PumpReserves, FirstOfPump
  <2> QED BY <1>5, <2>1, <2>2
<1>15. CASE PumpReleases(p)
  <2>1. pump[p].state \in Away
    BY <1>15 DEF PumpReleases, PumpIn, Away
  <2>2. PumpTo(p, "stopped")
    BY <1>15 DEF PumpReleases
  <2> QED BY <1>5, <2>1, <2>2
<1> QED BY <1>3, <1>6, <1>7, <1>8, <1>9, <1>10, <1>11, <1>12, <1>13, <1>14, <1>15
        DEF PumpTurn, PumpStays

-----------------------------------------------------------------------------
(* The commands.                                                           *)

LEMMA PumpCommandCounts ==
  ASSUME PlantInv, CountsBounded, PlantInv', NEW p \in Pumps,
         StartPump(p) \/ StopPump(p) \/ ForceStopPump(p) \/ RevokePump(p) \/ SwitchPump(p)
  PROVE  CountsBounded'
<1>1. unit' = unit /\ fan' = fan
  BY DEF StartPump, StopPump, ForceStopPump, RevokePump, SwitchPump
<1>2. /\ pump \in [Pumps -> PumpShape] /\ pump[p] \in PumpShape
      /\ \A q \in Pumps : CoolPump(pump[q]) /\ pump[q].refs \in Nat
      /\ Bounded(pump, unit, fan) /\ Limited(unit', fan')
  BY <1>1, PlantShapes, CountsNat DEF CountsBounded, Bounded, Limited
<1>3. CASE StartPump(p)
  <2>1. pump[p].refs < MaxRefs /\ pump' = PumpStart(pump, p)
    BY <1>3 DEF StartPump
  <2>2. /\ pump' \in [Pumps -> PumpShape] /\ pump'[p].refs <= pump[p].refs + 1
        /\ \A q \in Pumps : CoolPump(pump'[q]) /\ (q # p => pump'[q] = pump[q])
        /\ pump'[p].state \in Away => pump[p].state \in Away
    BY <1>2, <2>1, PumpStartCounts
  <2>3. \A q \in Pumps : q # p => pump'[q].refs <= pump[q].refs
    BY <1>2, <2>2
  <2>4. OnlyLeaves(pump, unit, fan, pump', unit', fan', {})
    BY <1>1, <2>2, PumpsAssumption DEF OnlyLeaves
  <2>5. Bounded(pump', unit', fan')
    BY <1>2, <2>1, <2>2, <2>3, <2>4, StartKeeps
  <2> QED BY <2>5 DEF CountsBounded
<1>4. CASE StopPump(p) \/ ForceStopPump(p) \/ RevokePump(p)
  <2>1. Eased(pump, pump', p)
    BY <1>2, <1>4, PumpStopEases, PumpForceStopEases, PumpRevokeEases
       DEF StopPump, ForceStopPump, RevokePump
  <2> QED BY <1>1, <2>1, PumpStops
<1>5. CASE SwitchPump(p)
  <2>1. PICK r : r = [pump[p] EXCEPT !.enabled = ~@]
    OBVIOUS
  <2>2. pump' = [pump EXCEPT ![p] = r]
    BY <1>5, <2>1 DEF SwitchPump
  <2>3. r.refs = pump[p].refs /\ r.state = pump[p].state
    BY <1>2, <2>1 DEF PumpShape
  <2> QED BY <1>1, <2>2, <2>3, PumpMoves
<1> QED BY <1>3, <1>4, <1>5

LEMMA UnitCommandCounts ==
  ASSUME PlantInv, CountsBounded, NEW u \in Units,
         StartUnit(u) \/ StopUnit(u) \/ ForceStopUnit(u) \/ RevokeUnit(u) \/ SwitchUnit(u)
  PROVE  CountsBounded'
<1>1. fan' = fan
  BY DEF StartUnit, StopUnit, ForceStopUnit, RevokeUnit, SwitchUnit
<1>2. unit[u] \in UnitShape /\ unit[u].refs \in Nat /\ unit[u].refs <= MaxRefs
  BY PlantShapes DEF CountsBounded, Bounded, UnitShape
<1>3. PICK r1 : r1 = [unit[u] EXCEPT !.refs = 1]
  OBVIOUS
<1>4. r1 \in UnitShape /\ r1.state = unit[u].state /\ r1.refs <= MaxRefs
  BY <1>2, <1>3, RefsAssumption DEF UnitShape
<1>5. CASE StartUnit(u)
  <2>1. PICK n \in Nat : n = unit[u].refs + 1 /\ n <= MaxRefs
    BY <1>2, <1>5, RefsAssumption DEF StartUnit
  <2>2. PICK r : r = [unit[u] EXCEPT !.refs = n]
    OBVIOUS
  <2>3. unit' = [unit EXCEPT ![u] = r] /\ pump' = pump
    BY <1>5, <2>1, <2>2 DEF StartUnit
  <2>4. r.refs <= MaxRefs /\ r.state = unit[u].state
    BY <1>2, <2>1, <2>2 DEF UnitShape
  <2> QED BY <1>1, <2>3, <2>4, UnitMoves
<1>6. CASE SwitchUnit(u)
  <2>1. PICK r : r = [unit[u] EXCEPT !.enabled = ~@]
    OBVIOUS
  <2>2. unit' = [unit EXCEPT ![u] = r] /\ pump' = pump
    BY <1>6, <2>1 DEF SwitchUnit
  <2>3. r.refs <= MaxRefs /\ r.state = unit[u].state
    BY <1>2, <2>1 DEF UnitShape
  <2> QED BY <1>1, <2>2, <2>3, UnitMoves
<1>7. CASE UnitForceStop(unit[u], u)
  BY <1>1, <1>2, <1>7, UnitForceStopCounts
<1>8. CASE UnitStop(pump, unit[u], u)
  BY <1>1, <1>2, <1>8, UnitStopCounts
<1>9. CASE UnitStop(pump, r1, u)
  BY <1>1, <1>4, <1>9, UnitStopCounts
<1> QED BY <1>3, <1>5, <1>6, <1>7, <1>8, <1>9 DEF StopUnit, ForceStopUnit, RevokeUnit

LEMMA FanCommandCounts ==
  ASSUME PlantInv, CountsBounded, NEW f \in Fans,
         \/ StartFan(f) \/ StopFan(f) \/ ForceStopFan(f)
         \/ CallFan(f) \/ UncallFan(f) \/ RevokeFan(f) \/ SwitchFan(f)
  PROVE  CountsBounded'
<1>1. unit' = unit
  BY DEF StartFan, StopFan, ForceStopFan, CallFan, UncallFan, RevokeFan, SwitchFan
<1>2. /\ fan[f] \in FanShape /\ fan[f].refs \in Nat /\ fan[f].refs <= MaxRefs
      /\ fan \in [Fans -> FanShape]
  BY PlantShapes DEF CountsBounded, Bounded, FanShape
<1>3. PICK r1 : r1 = [fan[f] EXCEPT !.refs = 1]
  OBVIOUS
<1>4. r1 \in FanShape /\ r1.state = fan[f].state /\ r1.refs <= MaxRefs
  BY <1>2, <1>3, RefsAssumption DEF FanShape
<1>5. ASSUME NEW r, fan' = [fan EXCEPT ![f] = r], pump' = pump,
             r.refs <= MaxRefs, r.state = fan[f].state
      PROVE  CountsBounded'
  BY <1>1, <1>5, FanMoves
<1>6. CASE StartFan(f)
  <2>1. PICK n \in Nat : n = fan[f].refs + 1 /\ n <= MaxRefs
    BY <1>2, <1>6, RefsAssumption DEF StartFan
  <2>2. PICK r : r = [fan[f] EXCEPT !.refs = n]
    OBVIOUS
  <2>3. fan' = [fan EXCEPT ![f] = r] /\ pump' = pump
    BY <1>6, <2>1, <2>2 DEF StartFan
  <2>4. r.refs <= MaxRefs /\ r.state = fan[f].state
    BY <1>2, <2>1, <2>2 DEF FanShape
  <2> QED BY <1>5, <2>3, <2>4
<1>7. CASE CallFan(f)
  <2>1. pump' = pump
    BY <1>7 DEF CallFan
  <2>2. CASE fan' = [fan EXCEPT ![f].called = TRUE]
    <3>1. PICK r : r = [fan[f] EXCEPT !.called = TRUE]
      OBVIOUS
    <3>2. fan' = [fan EXCEPT ![f] = r]
      BY <2>2, <3>1
    <3>3. r.refs <= MaxRefs /\ r.state = fan[f].state
      BY <1>2, <3>1 DEF FanShape
    <3> QED BY <1>5, <2>1, <3>2, <3>3
  <2>3. CASE /\ fan[f].refs < MaxRefs
             /\ fan' = [fan EXCEPT ![f].called = TRUE, ![f].refs = @ + 1]
    <3>1. PICK n \in Nat : n = fan[f].refs + 1 /\ n <= MaxRefs
      BY <1>2, <2>3, RefsAssumption
    <3>2. PICK r : r = [fan[f] EXCEPT !.called = TRUE, !.refs = n]
      OBVIOUS
    <3>3. fan' = [fan EXCEPT ![f] = r]
      BY <1>2, <2>3, <3>1, <3>2
    <3>4. r.refs <= MaxRefs /\ r.state = fan[f].state
      BY <1>2, <3>1, <3>2 DEF FanShape
    <3> QED BY <1>5, <2>1, <3>3, <3>4
  <2> QED BY <1>7, <2>2, <2>3 DEF CallFan
<1>8. CASE SwitchFan(f)
  <2>1. PICK r : r = [fan[f] EXCEPT !.enabled = ~@, !.called = @ /\ fan[f].enabled]
    OBVIOUS
  <2>2. fan' = [fan EXCEPT ![f] = r] /\ pump' = pump
    BY <1>2, <1>8, <2>1 DEF SwitchFan
  <2>3. r.refs <= MaxRefs /\ r.state = fan[f].state
    BY <1>2, <2>1 DEF FanShape
  <2> QED BY <1>5, <2>2, <2>3
<1>9. CASE FanForceStop(fan[f], f)
  BY <1>1, <1>2, <1>9, FanForceStopCounts
<1>10. CASE FanStop(pump, fan[f], f)
  BY <1>1, <1>2, <1>10, FanStopCounts
<1>11. CASE FanStop(pump, r1, f)
  BY <1>1, <1>4, <1>11, FanStopCounts
<1>12. CASE FanUncall(f)
  BY <1>1, <1>12, FanUncallCounts
<1> QED BY <1>3, <1>6, <1>7, <1>8, <1>9, <1>10, <1>11, <1>12
        DEF StopFan, ForceStopFan, UncallFan, RevokeFan

\* clear_error and unit_mode leave the counts and the states alone
LEMMA AllCommandCounts ==
  ASSUME PlantInv, CountsBounded, PlantInv', ClearErrors \/ \E m \in Modes : SetMode(m)
  PROVE  CountsBounded'
<1>1. \A p \in Pumps : pump'[p].refs = pump[p].refs /\ pump'[p].state = pump[p].state
  <2>1. CASE pump' = pump
    BY <2>1
  <2>2. CASE ClearErrors
    <3>1. ASSUME NEW p \in Pumps
          PROVE  pump'[p].refs = pump[p].refs /\ pump'[p].state = pump[p].state
      <4>1. pump'[p] = [pump[p] EXCEPT !.error = FALSE] /\ pump[p] \in PumpShape
        BY <2>2, PlantShapes DEF ClearErrors
      <4> QED BY <4>1 DEF PumpShape
    <3> QED BY <3>1
  <2> QED BY <2>1, <2>2 DEF SetMode
<1>2. \A u \in Units : unit'[u].refs = unit[u].refs /\ unit'[u].state = unit[u].state
  <2>1. ASSUME NEW u \in Units
        PROVE  unit'[u].refs = unit[u].refs /\ unit'[u].state = unit[u].state
    <3>1. unit[u] \in UnitShape
      BY PlantShapes
    <3>2. \/ unit'[u] = [unit[u] EXCEPT !.error = FALSE] \/ unit'[u] = unit[u]
          \/ \E m \in Modes : unit'[u] = [unit[u] EXCEPT !.mode = m]
      BY DEF ClearErrors, SetMode
    <3> QED BY <3>1, <3>2 DEF UnitShape
  <2> QED BY <2>1
<1>3. \A f \in Fans : fan'[f].refs = fan[f].refs /\ fan'[f].state = fan[f].state
  <2>1. ASSUME NEW f \in Fans
        PROVE  fan'[f].refs = fan[f].refs /\ fan'[f].state = fan[f].state
    <3>1. fan[f] \in FanShape
      BY PlantShapes
    <3>2. fan'[f] = [fan[f] EXCEPT !.error = FALSE] \/ fan'[f] = fan[f]
      BY DEF ClearErrors, SetMode
    <3> QED BY <3>1, <3>2 DEF FanShape
  <2> QED BY <2>1
<1>4. /\ \A p \in Pumps : pump[p].refs \in Nat /\ CoolPump(pump[p])
      /\ Limited(unit, fan) /\ DOMAIN Primer \subseteq Pumps
  BY PlantShapes, CountsNat, PumpsAssumption DEF CountsBounded, Bounded, Limited
<1>5. \A p \in Pumps : CoolPump(pump'[p]) /\ pump'[p].refs <= pump[p].refs
  BY <1>1, <1>4 DEF CoolPump
<1>6. Limited(unit', fan')
  BY <1>2, <1>3, <1>4 DEF Limited
<1>7. OnlyLeaves(pump, unit, fan, pump', unit', fan', {})
  BY <1>1, <1>2, <1>3, <1>4 DEF OnlyLeaves
<1> QED BY <1>5, <1>6, <1>7, NobodyLeaves

\* A restart clears every count.
LEMMA RestartCounts ==
  ASSUME PlantInv, CountsBounded, PlantInv', Restart
  PROVE  CountsBounded'
<1>1. ASSUME NEW p \in Pumps PROVE pump'[p].refs = 0 /\ CoolPump(pump'[p])
  <2>1. pump'[p] = [pump[p] EXCEPT !.refs = 0, !.error = FALSE, !.pin = FALSE,
                                   !.state = OffState(p)] /\ pump[p] \in PumpShape
    BY PlantShapes DEF Restart, SwitchedOff, PumpShape
  <2>2. pump'[p].refs = 0 /\ pump'[p].state = OffState(p)
    BY <2>1 DEF PumpShape
  <2> QED BY <2>2 DEF CoolPump, OffState
<1>2. \A u \in Units : unit'[u].refs = 0
  <2>1. ASSUME NEW u \in Units PROVE unit'[u].refs = 0
    <3>1. PICK r : r = [unit[u] EXCEPT !.mode = ModeFound(unit[u]), !.refs = 0,
                                       !.error = FALSE]
      OBVIOUS
    <3>2. unit'[u] = UnitOffRecord(r, u) /\ unit[u] \in UnitShape
      BY <3>1, PlantShapes DEF Restart
    <3>3. r.refs = 0 /\ "refs" \in DOMAIN r
      BY <3>1, <3>2 DEF UnitShape
    <3> QED BY <3>2, <3>3 DEF UnitOffRecord
  <2> QED BY <2>1
<1>3. \A f \in Fans : fan'[f].refs = 0
  <2>1. ASSUME NEW f \in Fans PROVE fan'[f].refs = 0
    <3>1. /\ fan'[f] = [fan[f] EXCEPT !.state = OffState(f), !.refs = 0, !.error = FALSE,
                                      !.called = FALSE]
          /\ fan[f] \in FanShape
      BY PlantShapes DEF Restart
    <3> QED BY <3>1 DEF FanShape
  <2> QED BY <2>1
<1>4. 0 <= MaxRefs /\ 0 \in Nat
  BY RefsAssumption
<1>5. ASSUME NEW p \in Pumps PROVE BoundOf(p, pump', unit', fan')
  BY <1>1, <1>4, SmallBounds
<1> QED BY <1>1, <1>2, <1>3, <1>4, <1>5 DEF CountsBounded, Bounded

LEMMA CountStep ==
  ASSUME PlantInv, CountsBounded, [Next]_vars
  PROVE  CountsBounded'
<1>1. PlantInv'
  BY PlantStep
<1>2. CASE Command
  BY <1>1, <1>2, PumpCommandCounts, UnitCommandCounts, FanCommandCounts,
     AllCommandCounts, RestartCounts DEF Command
<1>3. CASE Cycle
  BY <1>1, <1>3, PumpTurnCounts, UnitTurnCounts, FanTurnCounts DEF Cycle
<1>4. CASE UNCHANGED vars
  BY <1>4 DEF vars, CountsBounded
<1> QED BY <1>2, <1>3, <1>4 DEF Next

LEMMA CountsInitially == Init => CountsBounded
<1> SUFFICES ASSUME Init PROVE CountsBounded
  OBVIOUS
<1>1. \A p \in Pumps : pump[p].refs = 0 /\ CoolPump(pump[p])
  BY DEF Init, CoolPump
<1>2. (\A u \in Units : unit[u].refs = 0) /\ (\A f \in Fans : fan[f].refs = 0)
  BY DEF Init
<1>3. 0 <= MaxRefs /\ 0 \in Nat
  BY RefsAssumption
<1>4. ASSUME NEW p \in Pumps PROVE BoundOf(p, pump, unit, fan)
  BY <1>1, <1>3, SmallBounds
<1> QED BY <1>1, <1>2, <1>3, <1>4 DEF CountsBounded, Bounded

Round == turn \in 1..Len(Order)

\* The turn goes round the order.
LEMMA TurnStep ==
  ASSUME Round, [Next]_vars
  PROVE  Round'
<1>1. turn' = turn \/ turn' = (turn % Len(Order)) + 1
  <2>1. ASSUME NEW p \in Pumps,
               StartPump(p) \/ StopPump(p) \/ ForceStopPump(p) \/ RevokePump(p) \/ SwitchPump(p)
        PROVE  turn' = turn
    BY <2>1 DEF StartPump, StopPump, ForceStopPump, RevokePump, SwitchPump, Commanded
  <2>2. ASSUME NEW u \in Units,
               StartUnit(u) \/ StopUnit(u) \/ ForceStopUnit(u) \/ RevokeUnit(u) \/ SwitchUnit(u)
        PROVE  turn' = turn
    BY <2>2 DEF StartUnit, StopUnit, ForceStopUnit, RevokeUnit, SwitchUnit, Commanded
  <2>3. ASSUME NEW f \in Fans,
               \/ StartFan(f) \/ StopFan(f) \/ ForceStopFan(f)
               \/ CallFan(f) \/ UncallFan(f) \/ RevokeFan(f) \/ SwitchFan(f)
        PROVE  turn' = turn
    BY <2>3 DEF StartFan, StopFan, ForceStopFan, CallFan, UncallFan, RevokeFan,
                SwitchFan, Commanded
  <2>4. ClearErrors \/ Restart \/ (\E m \in Modes : SetMode(m)) => turn' = turn
    BY DEF ClearErrors, Restart, SetMode, Commanded
  <2>5. CASE Command
    BY <2>1, <2>2, <2>3, <2>4, <2>5 DEF Command
  <2>6. ASSUME NEW p \in Pumps, NEW late \in BOOLEAN, PumpTurn(p, late)
        PROVE  MyTurn(p)
    BY <2>6 DEF PumpTurn, PumpReserves, PumpReleases, PumpStartsPrimer,
                PumpWaitsPrimer, PumpStarts, PumpWaits, PumpFlows, PumpWarms, PumpRuns,
                PumpCools, PumpFails, PumpIn
  <2>7. ASSUME NEW u \in Units, NEW late \in BOOLEAN, UnitTurn(u, late)
        PROVE  MyTurn(u)
    BY <2>7 DEF UnitTurn, UnitReserves, UnitReleases, UnitStartsPump, UnitWaits,
                UnitStarts, UnitRuns, UnitFails, UnitIn
  <2>8. ASSUME NEW f \in Fans, NEW late \in BOOLEAN, FanTurn(f, late)
        PROVE  MyTurn(f)
    BY <2>8 DEF FanTurn, FanBegins, FanReserves, FanStartsPump, FanWaitsPump,
                FanStarts, FanWaits, FanRuns, FanReleases, FanFails, FanIn
  <2>9. CASE Cycle
    <3>1. \E x : MyTurn(x)
      BY <2>6, <2>7, <2>8, <2>9 DEF Cycle
    <3> QED BY <3>1 DEF MyTurn
  <2>10. CASE UNCHANGED vars
    BY <2>10 DEF vars
  <2> QED BY <2>5, <2>9, <2>10 DEF Next
<1>2. Len(Order) \in Nat
  BY ObjectsAssumption
<1> DEFINE n == Len(Order)
<1> HIDE DEF n
<1>3. n \in Nat /\ turn \in 1..n
  BY <1>2 DEF n, Round
<1>4. (turn % n) + 1 \in 1..n
  BY <1>3
<1> QED BY <1>1, <1>3, <1>4 DEF n, Round

\* However often pumps are shared, started again, revoked and primed: a count
\* passes MaxRefs by no more than the objects there are, and everything keeps its type.
THEOREM TypeCorrect ==
  ASSUME Objects # {}
  PROVE  Spec => []TypeOK
<1>1. Init => Round
  <2> SUFFICES ASSUME Init PROVE Round
    OBVIOUS
  <2>1. Len(Order) \in Nat /\ Len(Order) # 0
    BY ObjectsAssumption DEF Range
  <2>2. PICK n \in Nat : n = Len(Order) /\ n # 0
    BY <2>1
  <2>3. 1 \in 1..n
    BY <2>2
  <2> QED BY <2>2, <2>3 DEF Init, Round
<1>2. ASSUME PlantInv, CountsBounded, Round
      PROVE  TypeOK
  <2>1. /\ pump \in [Pumps -> PumpShape] /\ unit \in [Units -> UnitShape]
        /\ fan \in [Fans -> FanShape] /\ mode \in Modes /\ granted \subseteq Reserving
    BY <1>2, PlantShapes DEF PlantInv
  <2>2. Len(Order) \in Nat
    BY ObjectsAssumption
  <2>3. ASSUME NEW p \in Pumps PROVE pump[p].refs \in Refs
    <3>1. /\ pump[p].refs \in Nat
          /\ pump[p].refs <= MaxRefs + Cardinality(UsersOf(p, pump, unit, fan))
          /\ Cardinality(UsersOf(p, pump, unit, fan)) \in 0..Len(Order)
      BY <1>2, <2>1, CountsNat, UsersFinite DEF CountsBounded, Bounded, BoundOf
    <3> QED BY <2>2, <3>1, RefsAssumption DEF Refs
  <2>4. ASSUME NEW u \in Units PROVE unit[u].refs \in Refs
    <3>1. unit[u].refs \in Nat /\ unit[u].refs <= MaxRefs
      BY <1>2, <2>1 DEF CountsBounded, Bounded, UnitShape
    <3> QED BY <2>2, <3>1, RefsAssumption DEF Refs
  <2>5. ASSUME NEW f \in Fans PROVE fan[f].refs \in Refs
    <3>1. fan[f].refs \in Nat /\ fan[f].refs <= MaxRefs
      BY <1>2, <2>1 DEF CountsBounded, Bounded, FanShape
    <3> QED BY <2>2, <3>1, RefsAssumption DEF Refs
  <2>6. pump \in [Pumps -> PumpRecord]
    BY <2>1, <2>3 DEF PumpShape, PumpRecord
  <2>7. unit \in [Units -> UnitRecord]
    BY <2>1, <2>4, ModesAssumption DEF UnitShape, UnitRecord
  <2>8. fan \in [Fans -> FanRecord]
    BY <2>1, <2>5 DEF FanShape, FanRecord
  <2> QED BY <1>2, <2>1, <2>6, <2>7, <2>8 DEF TypeOK, Round
<1>3. PlantInv /\ CountsBounded /\ [Next]_vars => CountsBounded'
  BY CountStep
<1>4. Round /\ [Next]_vars => Round'
  BY TurnStep
<1>5. PlantInv /\ CountsBounded /\ Round => TypeOK
  BY <1>2
<1> QED BY <1>1, <1>3, <1>4, <1>5, CountsInitially, PlantInvariant, PTL DEF Spec

=============================================================================
