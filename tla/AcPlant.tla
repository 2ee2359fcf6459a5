------------------------------ MODULE AcPlant ------------------------------
(***************************************************************************)
(* The AC agent's plant (agents/ac): compressor units, air-handler fans    *)
(* and the water pumps they share, each a state machine that run_main      *)
(* advances once per cycle, all fans first, then pumps, then units.        *)
(*                                                                         *)
(* A pump is shared by reference counting: whoever needs it calls          *)
(* pump_start and later pump_stop, and run_main moves the pump along while *)
(* its count is positive.  The count does not say who holds it.  Commands  *)
(* (the agent's functions, revocations by the PA, the thermostat) arrive   *)
(* between two cycles, when it is the turn of the first object.            *)
(*                                                                         *)
(* Every comparison of a timer is a free choice (late), and so is every    *)
(* answer of the PA and every sensor.  Contactors and pump relays obey.    *)
(* Direct groups are not part of this module: no fan has one, no unit is   *)
(* in_direct and no pump is direct.                                        *)
(***************************************************************************)
EXTENDS Integers, SequencesExt

CONSTANTS
  Units, Fans, Pumps,
  Order,      \* the pass of run_main: fans, pumps, units
  PumpOf,     \* unit.pump, fan.pump
  Primer,     \* pump.primer, for the pumps that have one
  Reserving,  \* objects with a `reserve`
  Cooling,    \* pumps with a `cooldown`
  Warming,    \* pumps with a `warmup`
  Metered,    \* pumps with a `min_flow`
  RvEvery,    \* units with `rvevery`
  Commands,   \* the commands that are given, see Commanded
  Modes,      \* the values ac.mode takes
  MaxRefs     \* bound: counts at which no command and no retry adds a user

Objects == Units \cup Fans \cup Pumps

ASSUME ObjectsAssumption ==
  /\ IsFiniteSet(Objects)
  /\ Units \cap Fans = {} /\ Units \cap Pumps = {} /\ Fans \cap Pumps = {}
  /\ Order \in Seq(Objects) /\ Range(Order) = Objects /\ IsInjective(Order)
ASSUME PumpsAssumption ==
  /\ PumpOf \in [Units \cup Fans -> Pumps]
  /\ DOMAIN Primer \subseteq Pumps
  /\ Range(Primer) \subseteq Pumps \ DOMAIN Primer
ASSUME SettingsAssumption ==
  /\ Reserving \subseteq Objects
  /\ Cooling \cup Warming \cup Metered \subseteq Pumps
  /\ RvEvery \subseteq Units
ASSUME ModesAssumption == Modes \subseteq {"cool", "heat"} /\ Modes # {}
ASSUME RefsAssumption == MaxRefs \in Nat \ {0}

VARIABLES
  pump,     \* pumps[name]
  unit,     \* units[name]; contactors is the set of its pins that are HIGH
  fan,      \* fans[name]; called says that fan.mode is not NONE
  mode,     \* ac.mode
  granted,  \* objects whose reserve was granted and not released since
  turn      \* whose turn it is in Order

vars == <<pump, unit, fan, mode, granted, turn>>

PumpStates == {"stopped", "reserve", "start primer", "wait primer", "start",
               "wait pump", "flow", "warmup", "running", "cooldown", "release",
               "error"}
UnitStates == {"stopped", "reserve", "start pump", "wait pump", "start",
               "running", "release", "error"}
FanStates == {"stopped", "reserve", "start pump", "wait pump", "start",
              "wait start", "running", "release", "error"}

Refs == 0..MaxRefs + Len(Order)
PumpRecord == [state : PumpStates, refs : Refs, enabled : BOOLEAN,
               error : BOOLEAN, pin : BOOLEAN]
UnitRecord == [state : UnitStates, refs : Refs, enabled : BOOLEAN,
               error : BOOLEAN, mode : Modes,
               contactors : SUBSET {"cool", "heat"}]
FanRecord == [state : FanStates, refs : Refs, enabled : BOOLEAN,
              error : BOOLEAN, called : BOOLEAN]

-----------------------------------------------------------------------------
(* Operations on the pumps: P is the value of variable pump.               *)

\* Where an object goes when it is off
OffState(x) == IF x \in Reserving THEN "release" ELSE "stopped"

\* Where an object begins
FirstState(x, next) == IF x \in Reserving THEN "reserve" ELSE next

IsPrimer(p) == p \in Range(Primer)

\* pump_start; a disabled pump is not counted, and nobody is told.  A pump that
\* cools down is taken to be on.
PumpStart(P, p) ==
  IF ~P[p].enabled THEN P
  ELSE [P EXCEPT ![p].refs = @ + 1,
                 ![p].state = IF @ = "cooldown" THEN "running" ELSE @]

SwitchedOff(r, p) == [r EXCEPT !.pin = FALSE, !.state = OffState(p)]

\* pump_stop of a pump r that has no primer
StopAlone(r, p) ==
  IF r.state = "cooldown" \/ r.refs = 0 THEN r
  ELSE IF r.refs > 1 THEN [r EXCEPT !.refs = @ - 1]
  ELSE IF p \in Cooling THEN [r EXCEPT !.refs = 0, !.state = "cooldown"]
  ELSE SwitchedOff([r EXCEPT !.refs = 0], p)

StopPrimer(P, p) ==
  IF p \in DOMAIN Primer
    THEN [P EXCEPT ![Primer[p]] = StopAlone(@, Primer[p])]
    ELSE P

PumpOff(P, p) == [StopPrimer(P, p) EXCEPT ![p] = SwitchedOff(@, p)]

\* Faulty variant: the count may go below zero
PumpStopUncounted(P, p) ==
  IF P[p].state = "cooldown" THEN P
  ELSE IF P[p].refs # 1 THEN [P EXCEPT ![p].refs = @ - 1]
  ELSE IF p \in Cooling
    THEN [P EXCEPT ![p].refs = 0, ![p].state = "cooldown"]
    ELSE PumpOff([P EXCEPT ![p].refs = 0], p)

\* pump_stop
PumpStop(P, p) ==
  IF P[p].state = "cooldown" \/ P[p].refs = 0 THEN P
  ELSE IF P[p].refs > 1 THEN [P EXCEPT ![p].refs = @ - 1]
  ELSE IF p \in Cooling
    THEN [P EXCEPT ![p].refs = 0, ![p].state = "cooldown"]
    ELSE PumpOff([P EXCEPT ![p].refs = 0], p)

\* pump_force_stop stops the primer itself, and pump_off does so again
PumpForceStop(P, p) == PumpOff([StopPrimer(P, p) EXCEPT ![p].refs = 0], p)

\* Faulty variant: the count is cleared first
RevokeCleared(P, p) == PumpStop([P EXCEPT ![p].refs = 0], p)

\* pump_revoke: one pump_stop must do
PumpRevoke(P, p) == PumpStop([P EXCEPT ![p].refs = 1], p)

-----------------------------------------------------------------------------
(* A turn: what run_main does with one object in one cycle.                *)

MyTurn(x) ==
  /\ Order[turn] = x
  /\ turn' = (turn % Len(Order)) + 1

\* run_main passes over a disabled or failed object and one without users,
\* unless it is on its way out
Passed(r, wayOut) == (r.error \/ ~r.enabled \/ r.refs = 0) /\ r.state \notin wayOut

\* Faulty variant: a pump nobody counts on is not moved along
PassedWhileCooling(p) == Passed(pump[p], {"release", "error"})

PumpPassed(p) == Passed(pump[p], {"cooldown", "release", "error"})
FanPassed(f) == Passed(fan[f], {"release", "error"})
UnitPassed(u) == Passed(unit[u], {"release", "error"})

\* The answer of the PA to the reserve call of x
Asks(x) == granted' \in {granted, granted \cup {x}}
Granted(x) == x \in granted'

PumpIn(p, s) == MyTurn(p) /\ ~PumpPassed(p) /\ pump[p].state = s
PumpTo(p, s) == pump' = [pump EXCEPT ![p].state = s]
PumpStays == UNCHANGED pump
FirstOfPump(p) == IF p \in DOMAIN Primer THEN "start primer" ELSE "start"
Warm(p) == IF p \in Warming THEN "warmup" ELSE "running"
Started(p) == IF p \in Metered THEN "flow" ELSE Warm(p)

\* Faulty variant: the pump does not wait for its power
PumpReservesAnyway(p) ==
  /\ PumpIn(p, "reserve")
  /\ Asks(p)
  /\ PumpTo(p, FirstOfPump(p))

PumpReserves(p) ==
  /\ PumpIn(p, "reserve")
  /\ Asks(p)
  /\ PumpTo(p, IF Granted(p) THEN FirstOfPump(p) ELSE "reserve")

\* START_PRIMER falls through into WAIT_PRIMER
PumpStartsPrimer(p) ==
  /\ PumpIn(p, "start primer")
  /\ LET P == PumpStart(pump, Primer[p])
     IN pump' = [P EXCEPT ![p].state =
                   IF P[Primer[p]].state = "running" THEN "start" ELSE "wait primer"]

\* The retry counts the primer again when that is stopped, and first gives its
\* count back when it takes too long
PumpWaitsPrimer(p, late) ==
  /\ PumpIn(p, "wait primer")
  /\ LET primer == pump[Primer[p]]
     IN CASE primer.state = "running" -> PumpTo(p, "start")
          [] primer.state # "running" /\ ~late -> PumpStays
          [] primer.state = "stopped" /\ late ->
               IF primer.refs < MaxRefs THEN PumpTo(p, "start primer") ELSE PumpStays
          [] primer.state = "error" /\ late -> PumpTo(p, "error")
          [] OTHER -> pump' = [PumpStop(pump, Primer[p]) EXCEPT ![p].state = "start primer"]

PumpStarts(p) ==
  /\ PumpIn(p, "start")
  /\ pump' = [pump EXCEPT ![p].pin = TRUE, ![p].state = "wait pump"]

PumpWaits(p, late) ==
  /\ PumpIn(p, "wait pump")
  /\ IF late THEN pump' = [StopPrimer(pump, p) EXCEPT ![p].state = Started(p)]
     ELSE PumpStays

PumpFlows(p, late) ==
  /\ PumpIn(p, "flow")
  /\ IF late THEN PumpTo(p, Warm(p)) \/ PumpTo(p, "error") ELSE PumpStays

PumpWarms(p, late) ==
  /\ PumpIn(p, "warmup")
  /\ IF late \/ IsPrimer(p) THEN PumpTo(p, "running") ELSE PumpStays

PumpRuns(p) ==
  /\ PumpIn(p, "running")
  /\ PumpStays \/ (p \in Metered /\ PumpTo(p, "error"))

PumpCools(p, late) ==
  /\ PumpIn(p, "cooldown")
  /\ pump' = IF late \/ IsPrimer(p) THEN PumpOff(pump, p) ELSE pump

PumpReleases(p) ==
  /\ PumpIn(p, "release")
  /\ PumpTo(p, "stopped")
  /\ granted' = granted \ {p}

PumpFails(p) ==
  /\ PumpIn(p, "error")
  /\ pump' = [PumpForceStop(pump, p) EXCEPT ![p].enabled = FALSE, ![p].error = TRUE]

PumpTurn(p, late) ==
  /\ \/ /\ \/ MyTurn(p) /\ PumpPassed(p) /\ PumpStays
           \/ PumpIn(p, "stopped") /\ PumpTo(p, FirstState(p, FirstOfPump(p)))
           \/ PumpStartsPrimer(p) \/ PumpWaitsPrimer(p, late)
           \/ PumpStarts(p) \/ PumpWaits(p, late) \/ PumpFlows(p, late)
           \/ PumpWarms(p, late) \/ PumpRuns(p) \/ PumpCools(p, late)
           \/ PumpFails(p)
        /\ UNCHANGED granted
     \/ PumpReserves(p)
     \/ PumpReleases(p)
  /\ UNCHANGED <<unit, fan, mode>>

-----------------------------------------------------------------------------
(* The units.                                                              *)

\* unit_off opens the contactor of unit.mode and then goes back to ac.mode
UnitOffRecord(r, u) ==
  [r EXCEPT !.state = OffState(u), !.contactors = @ \ {r.mode}, !.mode = mode]

\* unit_stop of the unit r, with the pumps P
UnitStop(P, r, u) ==
  /\ pump' = IF r.refs = 1 THEN PumpStop(P, PumpOf[u]) ELSE P
  /\ unit' = [unit EXCEPT ![u] =
       CASE r.refs = 0 -> r
         [] r.refs = 1 -> UnitOffRecord([r EXCEPT !.refs = 0], u)
         [] OTHER -> [r EXCEPT !.refs = @ - 1]]

\* unit_force_stop: the pump first, for all its users, then the unit
UnitForceStop(r, u) ==
  UnitStop(PumpForceStop(pump, PumpOf[u]), [r EXCEPT !.refs = 1], u)

UnitIn(u, s) == MyTurn(u) /\ ~UnitPassed(u) /\ unit[u].state = s
UnitTo(u, s) == unit' = [unit EXCEPT ![u].state = s]
UnitStays == UNCHANGED unit

UnitReserves(u) ==
  /\ UnitIn(u, "reserve")
  /\ Asks(u)
  /\ UnitTo(u, IF Granted(u) THEN "start pump" ELSE "reserve")
  /\ PumpStays

UnitStartsPump(u) ==
  /\ UnitIn(u, "start pump")
  /\ pump' = PumpStart(pump, PumpOf[u])
  /\ UnitTo(u, "wait pump")

\* Faulty variant: no time limit
WaitUnlimited(p, late) ==
  CASE pump[p].state = "error" -> {"error"}
    [] pump[p].state = "running" -> {"start"}
    [] OTHER -> {"wait pump"}

\* What a unit or a fan makes of its pump's state: it waits without a limit
\* while the pump makes progress, and starts over when the pump gets no power
\* (without giving its count of the pump back)
WaitOutcomes(p, late) ==
  CASE pump[p].state = "error" -> {"error"}
    [] pump[p].state = "running" -> {"start"}
    [] pump[p].state \in {"warmup", "flow", "cooldown"} -> {"wait pump"}
    [] ~late -> {"wait pump"}
    [] pump[p].state = "reserve" /\ pump[p].refs < MaxRefs -> {"error", "release"}
    [] OTHER -> {"error"}

UnitWaits(u, late) ==
  /\ UnitIn(u, "wait pump")
  /\ \E s \in WaitOutcomes(PumpOf[u], late) : UnitTo(u, s)
  /\ PumpStays

\* unit_on closes the contactor of ac.mode
UnitStarts(u) ==
  /\ UnitIn(u, "start")
  /\ unit' = [unit EXCEPT ![u].state = "running", ![u].mode = mode,
                          ![u].contactors = @ \cup {mode}]
  /\ PumpStays

\* Faulty variant: the unit changes state but is not switched off
RunsOffByState(u) ==
  /\ UnitIn(u, "running")
  /\ \/ pump[PumpOf[u]].state # "running" /\ UnitTo(u, OffState(u)) /\ PumpStays
     \/ pump[PumpOf[u]].state = "running" /\ UnitStays /\ PumpStays

\* Faulty variant: the pump is checked when the unit starts, not while it runs
RunsUnchecked(u) ==
  /\ UnitIn(u, "running")
  /\ \/ UnitStays /\ PumpStays
     \/ UnitTo(u, "error") /\ PumpStays
     \/ UnitStop(pump, [unit[u] EXCEPT !.refs = 1], u)

\* The pump has stopped: stop.  Otherwise go on, unless the vapor is too cold
\* or there is no flow (error), or the storage has reached its temperature
UnitRuns(u) ==
  /\ UnitIn(u, "running")
  /\ IF pump[PumpOf[u]].state # "running"
       THEN UnitForceStop(unit[u], u)
       ELSE \/ UnitStays /\ PumpStays
            \/ UnitTo(u, "error") /\ PumpStays
            \/ UnitStop(pump, [unit[u] EXCEPT !.refs = 1], u)

\* Faulty variant: nothing is released
UnitReleasesNothing(u) ==
  /\ UnitIn(u, "release")
  /\ UnitTo(u, "stopped")
  /\ UNCHANGED granted
  /\ PumpStays

UnitReleases(u) ==
  /\ UnitIn(u, "release")
  /\ UnitTo(u, "stopped")
  /\ granted' = granted \ {u}
  /\ PumpStays

UnitFails(u) ==
  /\ UnitIn(u, "error")
  /\ UnitForceStop([unit[u] EXCEPT !.enabled = FALSE, !.error = TRUE], u)

UnitTurn(u, late) ==
  /\ \/ /\ \/ MyTurn(u) /\ UnitPassed(u) /\ UnitStays /\ PumpStays
           \/ /\ UnitIn(u, "stopped")
              /\ UnitTo(u, FirstState(u, "start pump")) /\ PumpStays
           \/ UnitStartsPump(u) \/ UnitWaits(u, late) \/ UnitStarts(u)
           \/ UnitRuns(u) \/ UnitFails(u)
        /\ UNCHANGED granted
     \/ UnitReserves(u)
     \/ UnitReleases(u)
  /\ UNCHANGED <<fan, mode>>

-----------------------------------------------------------------------------
(* The fans.                                                               *)

\* fan_stop of the fan r, with the pumps P; an air handler that does not
\* answer fan_off is disabled
FanStop(P, r, f) ==
  /\ pump' = IF r.refs = 1 THEN PumpStop(P, PumpOf[f]) ELSE P
  /\ \E answers \in BOOLEAN :
       fan' = [fan EXCEPT ![f] =
         CASE r.refs = 0 -> r
           [] r.refs = 1 -> [r EXCEPT !.refs = 0, !.state = OffState(f),
                                      !.enabled = @ /\ answers]
           [] OTHER -> [r EXCEPT !.refs = @ - 1]]

FanForceStop(r, f) ==
  FanStop(PumpForceStop(pump, PumpOf[f]), [r EXCEPT !.refs = 1], f)

\* fan_set_mode(name, FAN_MODE_NONE)
FanUncall(f) ==
  IF fan[f].called
    THEN FanStop(pump, [fan[f] EXCEPT !.refs = 1, !.called = FALSE], f)
    ELSE UNCHANGED <<fan, pump>>

FanIn(f, s) == MyTurn(f) /\ ~FanPassed(f) /\ fan[f].state = s
FanTo(f, s) == fan' = [fan EXCEPT ![f].state = s]
FanStays == UNCHANGED fan

\* The water may be too warm or too cold to begin
FanBegins(f) ==
  /\ FanIn(f, "stopped")
  /\ FanStays \/ FanTo(f, FirstState(f, "start pump"))
  /\ PumpStays

FanReserves(f) ==
  /\ FanIn(f, "reserve")
  /\ Asks(f)
  /\ FanTo(f, IF Granted(f) THEN "start pump" ELSE "reserve")
  /\ PumpStays

FanStartsPump(f) ==
  /\ FanIn(f, "start pump")
  /\ pump' = PumpStart(pump, PumpOf[f])
  /\ FanTo(f, IF pump[PumpOf[f]].enabled THEN "wait pump" ELSE OffState(f))

FanWaitsPump(f, late) ==
  /\ FanIn(f, "wait pump")
  /\ \E s \in WaitOutcomes(PumpOf[f], late) : FanTo(f, s)
  /\ PumpStays

FanStarts(f) ==
  /\ FanIn(f, "start")
  /\ \/ FanTo(f, "wait start")
     \/ fan' = [fan EXCEPT ![f].state = "error", ![f].enabled = FALSE]
  /\ PumpStays

\* Until the air handler reports that its fan is on
FanWaits(f, late) ==
  /\ FanIn(f, "wait start")
  /\ \/ FanTo(f, "running")
     \/ IF late THEN FanTo(f, "error") ELSE FanStays
  /\ PumpStays

\* The pump has stopped, or the water is out of range: stop
FanRuns(f) ==
  /\ FanIn(f, "running")
  /\ \/ FanUncall(f)
     \/ pump[PumpOf[f]].state = "running" /\ FanStays /\ PumpStays

FanReleases(f) ==
  /\ FanIn(f, "release")
  /\ fan' = [fan EXCEPT ![f].state = "stopped", ![f].called = FALSE]
  /\ granted' = granted \ {f}
  /\ PumpStays

FanFails(f) ==
  /\ FanIn(f, "error")
  /\ FanForceStop([fan[f] EXCEPT !.enabled = FALSE, !.error = TRUE], f)

FanTurn(f, late) ==
  /\ \/ /\ \/ MyTurn(f) /\ FanPassed(f) /\ FanStays /\ PumpStays
           \/ FanBegins(f) \/ FanStartsPump(f) \/ FanWaitsPump(f, late)
           \/ FanStarts(f) \/ FanWaits(f, late) \/ FanRuns(f) \/ FanFails(f)
        /\ UNCHANGED granted
     \/ FanReserves(f)
     \/ FanReleases(f)
  /\ UNCHANGED <<unit, mode>>

-----------------------------------------------------------------------------
(* Commands, between two cycles.                                           *)

Commanded(c) ==
  /\ c \in Commands
  /\ turn = 1
  /\ UNCHANGED <<granted, turn>>

StartPump(p) ==
  /\ Commanded("pumps")
  /\ pump[p].refs < MaxRefs
  /\ pump' = PumpStart(pump, p)
  /\ UNCHANGED <<unit, fan, mode>>

StopPump(p) ==
  /\ Commanded("pumps")
  /\ pump' = PumpStop(pump, p)
  /\ UNCHANGED <<unit, fan, mode>>

ForceStopPump(p) ==
  /\ Commanded("force")
  /\ pump' = PumpForceStop(pump, p)
  /\ UNCHANGED <<unit, fan, mode>>

RevokePump(p) ==
  /\ Commanded("revoke")
  /\ pump' = PumpRevoke(pump, p)
  /\ UNCHANGED <<unit, fan, mode>>

StartUnit(u) ==
  /\ Commanded("start")
  /\ unit[u].enabled /\ unit[u].refs < MaxRefs
  /\ unit' = [unit EXCEPT ![u].refs = @ + 1]
  /\ UNCHANGED <<pump, fan, mode>>

StopUnit(u) ==
  /\ Commanded("start")
  /\ UnitStop(pump, unit[u], u)
  /\ UNCHANGED <<fan, mode>>

ForceStopUnit(u) ==
  /\ Commanded("force")
  /\ UnitForceStop(unit[u], u)
  /\ UNCHANGED <<fan, mode>>

RevokeUnit(u) ==
  /\ Commanded("revoke")
  /\ UnitStop(pump, [unit[u] EXCEPT !.refs = 1], u) \/ UnitForceStop(unit[u], u)
  /\ UNCHANGED <<fan, mode>>

\* start_fan does not set fan.mode
StartFan(f) ==
  /\ Commanded("fans")
  /\ fan[f].enabled /\ fan[f].refs < MaxRefs
  /\ fan' = [fan EXCEPT ![f].refs = @ + 1]
  /\ UNCHANGED <<pump, unit, mode>>

StopFan(f) ==
  /\ Commanded("fans")
  /\ FanStop(pump, fan[f], f)
  /\ UNCHANGED <<unit, mode>>

ForceStopFan(f) ==
  /\ Commanded("force")
  /\ FanForceStop(fan[f], f)
  /\ UNCHANGED <<unit, mode>>

\* The thermostat calls for heat or cold: fan_set_mode with the mode of the
\* storage.  In another mode, or with the water out of range, nothing happens.
CallFan(f) ==
  /\ Commanded("start")
  /\ ~fan[f].called
  /\ \/ fan[f].state = "running" /\ fan' = [fan EXCEPT ![f].called = TRUE]
     \/ /\ fan[f].state # "running" /\ fan[f].enabled /\ fan[f].refs < MaxRefs
        /\ fan' = [fan EXCEPT ![f].called = TRUE, ![f].refs = @ + 1]
  /\ UNCHANGED <<pump, unit, mode>>

UncallFan(f) ==
  /\ Commanded("start")
  /\ FanUncall(f)
  /\ UNCHANGED <<unit, mode>>

RevokeFan(f) ==
  /\ Commanded("revoke")
  /\ FanStop(pump, [fan[f] EXCEPT !.refs = 1], f) \/ FanForceStop(fan[f], f)
  /\ UNCHANGED <<unit, mode>>

\* disable_* and enable_* set the flag and nothing else
SwitchUnit(u) ==
  /\ Commanded("enable")
  /\ unit' = [unit EXCEPT ![u].enabled = ~@]
  /\ UNCHANGED <<pump, fan, mode>>

SwitchPump(p) ==
  /\ Commanded("enable")
  /\ pump' = [pump EXCEPT ![p].enabled = ~@]
  /\ UNCHANGED <<unit, fan, mode>>

\* enable_fan also forgets what the thermostat called for
SwitchFan(f) ==
  /\ Commanded("enable")
  /\ fan' = [fan EXCEPT ![f].enabled = ~@,
                        ![f].called = @ /\ fan[f].enabled]
  /\ UNCHANGED <<pump, unit, mode>>

\* clear_error("all")
ClearErrors ==
  /\ Commanded("clear")
  /\ pump' = [p \in Pumps |-> [pump[p] EXCEPT !.error = FALSE]]
  /\ unit' = [u \in Units |-> [unit[u] EXCEPT !.error = FALSE]]
  /\ fan' = [f \in Fans |-> [fan[f] EXCEPT !.error = FALSE]]
  /\ UNCHANGED mode

\* unit_mode for every unit: a running unit refuses, except with rvevery
SetMode(m) ==
  /\ Commanded("mode")
  /\ mode' = m
  /\ unit' = [u \in Units |->
       IF unit[u].state = "running" /\ u \notin RvEvery THEN unit[u]
       ELSE [unit[u] EXCEPT !.mode = m]]
  /\ UNCHANGED <<pump, fan>>

\* The pins outlive the process: _unit_init takes the mode of a unit from its
\* contactors, and start_main forces everything off
ModeFound(r) ==
  IF "cool" \in r.contactors THEN "cool"
  ELSE IF "heat" \in r.contactors THEN "heat" ELSE mode

Restart ==
  /\ Commanded("restart")
  /\ unit' = [u \in Units |->
       UnitOffRecord([unit[u] EXCEPT !.mode = ModeFound(unit[u]), !.refs = 0,
                                     !.error = FALSE], u)]
  /\ pump' = [p \in Pumps |->
       SwitchedOff([pump[p] EXCEPT !.refs = 0, !.error = FALSE], p)]
  /\ fan' = [f \in Fans |->
       [fan[f] EXCEPT !.state = OffState(f), !.refs = 0, !.error = FALSE,
                      !.called = FALSE]]
  /\ UNCHANGED mode

-----------------------------------------------------------------------------
Init ==
  /\ mode \in Modes
  /\ unit = [u \in Units |-> [state |-> "stopped", refs |-> 0, enabled |-> TRUE,
                              error |-> FALSE, mode |-> mode, contactors |-> {}]]
  /\ pump = [p \in Pumps |-> [state |-> "stopped", refs |-> 0, enabled |-> TRUE,
                              error |-> FALSE, pin |-> FALSE]]
  /\ fan = [f \in Fans |-> [state |-> "stopped", refs |-> 0, enabled |-> TRUE,
                            error |-> FALSE, called |-> FALSE]]
  /\ granted = {}
  /\ turn = 1

Command ==
  \/ \E p \in Pumps : \/ StartPump(p) \/ StopPump(p) \/ ForceStopPump(p)
                      \/ RevokePump(p) \/ SwitchPump(p)
  \/ \E u \in Units : \/ StartUnit(u) \/ StopUnit(u) \/ ForceStopUnit(u)
                      \/ RevokeUnit(u) \/ SwitchUnit(u)
  \/ \E f \in Fans : \/ StartFan(f) \/ StopFan(f) \/ ForceStopFan(f)
                     \/ CallFan(f) \/ UncallFan(f) \/ RevokeFan(f) \/ SwitchFan(f)
  \/ ClearErrors
  \/ \E m \in Modes : SetMode(m)
  \/ Restart

Cycle ==
  \E late \in BOOLEAN :
    \/ \E p \in Pumps : PumpTurn(p, late)
    \/ \E u \in Units : UnitTurn(u, late)
    \/ \E f \in Fans : FanTurn(f, late)

Next == Command \/ Cycle

Spec == Init /\ [][Next]_vars

\* A unit or a fan compares its timer with the time allowed for the pump
TimesPump(r, x) ==
  r.state = "wait pump" /\ pump[PumpOf[x]].state \notin {"warmup", "flow", "cooldown"}

\* The agent loop calls run_main for ever, and a timer is only set when its
\* object enters a state: one that is compared again and again runs out.
Fairness ==
  /\ WF_vars(Cycle)
  /\ \A p \in Pumps : SF_vars(PumpTurn(p, TRUE))
  /\ \A u \in Units : SF_vars(TimesPump(unit[u], u) /\ UnitTurn(u, TRUE))
  /\ \A f \in Fans :
       /\ SF_vars(TimesPump(fan[f], f) /\ FanTurn(f, TRUE))
       /\ SF_vars(fan[f].state = "wait start" /\ FanTurn(f, TRUE))

FairSpec == Spec /\ Fairness

-----------------------------------------------------------------------------
TypeOK ==
  /\ pump \in [Pumps -> PumpRecord]
  /\ unit \in [Units -> UnitRecord]
  /\ fan \in [Fans -> FanRecord]
  /\ mode \in Modes
  /\ granted \subseteq Reserving
  /\ turn \in 1..Len(Order)

\* The compressor is on only where its turn still looks after it, and by the
\* contactor that unit_off will open
Controlled(r) ==
  r.contactors \subseteq IF r.state \in {"running", "error"} THEN {r.mode} ELSE {}

\* Control over a compressor is lost in one way only: unit_mode gives the unit
\* another mode after its failure and before the turn that switches it off, or,
\* with rvevery, while it runs (unit.js:273-290).  No start, stop, force stop,
\* revocation, failure, restart or other change of the mode loses it.
CompressorUnderControl ==
  [][\A u \in Units :
       Controlled(unit[u]) =>
         \/ Controlled(unit'[u])
         \/ /\ unit[u].state = "error" \/ u \in RvEvery
            /\ \E m \in Modes : SetMode(m)]_vars

\* A unit that failed, froze or lost its flow is stopped: README.md:229 "a unit is
\* stopped if its vapor temp drops below this".  After the one change of the mode
\* that CompressorUnderControl excepts, it is STOPPED with its compressor on: the
\* violation run shows it.
StoppedIsOff ==
  \A u \in Units : unit[u].state = "stopped" => unit[u].contactors = {}

\* A pump nobody counts on is off, or cools down and will be
OffWhenUnused ==
  \A p \in Pumps : pump[p].pin /\ pump[p].refs = 0 => pump[p].state = "cooldown"

\* What is on has had its power granted and has not released it.  Of a unit this
\* is said while it runs or is about to be switched off: a compressor that a
\* change of the mode leaves on (StoppedIsOff) has its power released.
PoweredMeansGranted ==
  /\ \A u \in Units \cap Reserving :
       unit[u].contactors # {} /\ unit[u].state \in {"running", "error"} => u \in granted
  /\ \A p \in Pumps \cap Reserving : pump[p].pin => p \in granted

\* Whatever way an object goes to STOPPED, it has released its power
GrantedIsReleased ==
  /\ \A u \in Units : unit[u].state = "stopped" => u \notin granted
  /\ \A p \in Pumps : pump[p].state = "stopped" => p \notin granted
  /\ \A f \in Fans : fan[f].state = "stopped" => f \notin granted

\* RUNNING, although the relay of the pump is open
Dry(r) == r.state = "running" /\ ~r.pin

\* The only way for a pump to be RUNNING with its relay open is pump_start while
\* it cools down without ever having been on (pump.js:127): whatever opens a relay
\* takes the pump out of RUNNING in the same step.
DryOnlyWhenWoken ==
  [][\A p \in Pumps :
       Dry(pump'[p]) => Dry(pump[p]) \/ (pump[p].state = "cooldown" /\ ~pump[p].pin)]_vars

\* No unit is left in RUNNING on a pump that has left RUNNING, whoever stopped it
UnitsFollowPumps ==
  \A u \in Units :
    (unit[u].state = "running" /\ pump[PumpOf[u]].state # "running")
      ~> (unit[u].state # "running" \/ pump[PumpOf[u]].state = "running")

\* The watch a unit keeps on its pump (run.js:655) is by the state of the pump,
\* not by its relay.  So this is what it is worth: a pump that is switched off
\* makes its unit stop in the end, and a unit can go on running on a pump whose
\* relay is open only if that pump was woken as DryOnlyWhenWoken says.
DryRunOnlyWhenWoken == DryOnlyWhenWoken /\ UnitsFollowPumps

\* A unit that waits for its pump gets it or gives up, although it waits without
\* a limit while the pump warms up, checks its flow or cools down
WaitersGetAnswer ==
  \A u \in Units :
    unit[u].state = "wait pump" ~> unit[u].state # "wait pump"

\* A pump that nobody needs any more is switched off
PumpsComeToRest ==
  \A p \in Pumps : pump[p].refs = 0 ~> (~pump[p].pin \/ pump[p].refs > 0)
=============================================================================
