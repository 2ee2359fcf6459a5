------------------------------ MODULE AcDirect ------------------------------
(***************************************************************************)
(* Direct mode of the AC agent (agents/ac/direct.js): a unit that charges  *)
(* the storage is taken over for an air handler, its water led past the    *)
(* storage by two valves, and handed back.                                 *)
(*                                                                         *)
(* One direct group and its unit.  Three parties drive the unit: the state *)
(* machine of the group (direct_main), storage charging (charge_main), and *)
(* the unit's own state machine (the units' part of run_main); everyone    *)
(* else comes in between, with functions called over MQTT.  They meet in   *)
(* the unit's count refs, in the marks in_direct and in_direct_pending,    *)
(* and in the power reservation.                                           *)
(*                                                                         *)
(* A step is read_main, run_main or a function, each of which runs to its  *)
(* end.  They are built from operators named as the code's, from the state *)
(* a to the next, given the readings d.  Of the unit, START_PUMP,          *)
(* WAIT_PUMP and START are one state; AcPlant has them, the pumps' states  *)
(* and the contactors in full.  The fan and the pumps are external: who    *)
(* calls direct_on and direct_off, and whether a pump runs, is left open.  *)
(* The unit has a reserve, a pump and an rvpin without rvevery; the group  *)
(* has both valves, and they obey when they are closed.  Nobody moves a    *)
(* valve by hand: dg_valve1_on, dg_valve2_off and the like (direct.js:     *)
(* 192-196) switch a pin whatever the group does, and are left out.        *)
(***************************************************************************)
EXTENDS Naturals, FiniteSets

CONSTANTS
  Commands,   \* the functions that are called
  MaxRefs     \* a bound: no command that adds a count is given at it

\* All functions that change the group or its unit, but those that move a valve
\* by hand and those that change the configuration
KnownCommands == {"direct_on", "direct_off", "direct_disable", "direct_enable",
                  "unit_start", "unit_stop", "unit_force_stop", "unit_revoke",
                  "unit_disable", "unit_enable", "clear_error", "mode", "restart"}

ASSUME CommandsAssumption == Commands \subseteq KnownCommands
ASSUME MaxRefsAssumption == MaxRefs \in Nat \ {0}

VARIABLES
  ac,    \* the agent: its mode, the direct group, the unit, pump and valves
  read   \* read_main has run, and run_main not since

vars == <<ac, read>>

Modes == {"cool", "heat"}

AtRest == {"STOPPED", "ERROR"}
Taking == {"STOP_FAN_PUMP", "WAIT_FAN_PUMP", "STOP_UNIT", "WAIT_UNIT_STOP", "PREPARE_UNIT"}
Proving == {"START_UNIT", "WAIT_UNIT", "CONFIRM_FLOW", "ACTIVATE_VALVE"}
Closing == {"RUNNING_OPEN", "ACTIVATE_PIN2", "START_PRIMER", "WAIT_PRIMER",
            "WAIT_WATER_TEMP", "RUNNING"}
DirectStates == AtRest \cup Taking \cup Proving \cup Closing

UnitStates == {"STOPPED", "RESERVE", "STARTING", "RUNNING", "RELEASE", "ERROR"}
ChargeStates == {"STOPPED", "WAIT_START", "RUNNING", "STOP"}

\* pending and active: pending_fan and active_fan are the group's fan.
\* target: target_mode, and mode as well while active.  confirmed is history:
\* CONFIRM_FLOW has seen flow for this request.
Group == [state : DirectStates, enabled : BOOLEAN, pending : BOOLEAN,
          active : BOOLEAN, target : Modes \cup {"none"}, confirmed : BOOLEAN]

\* granted: what the power agent holds for the unit
Unit == [state : UnitStates, mode : Modes, refs : Nat, enabled : BOOLEAN,
         error : BOOLEAN, in_direct : BOOLEAN, in_direct_pending : BOOLEAN,
         charging : BOOLEAN, charge_state : ChargeStates, granted : BOOLEAN]

\* pump: the unit's pump is RUNNING.  valve1 is pin1, and direct of the fan's
\* pump, which goes with it; valve2 is pin2.
State == [mode : Modes, dg : Group, unit : Unit,
          pump : BOOLEAN, valve1 : BOOLEAN, valve2 : BOOLEAN]

\* late: the timer of the state is up.  sensed: the temperatures, or the fan's
\* pump, show what the state waits for.  refused: set_pin fails.  repri: the
\* power agent takes the new priority.  water: against charge.js's thresholds.
Readings == [late : BOOLEAN, sensed : BOOLEAN, refused : BOOLEAN, repri : BOOLEAN,
             water : {"invalid", "low", "between", "reached"}]

-----------------------------------------------------------------------------
(* The unit (unit.js, common.js)                                           *)

ModeRefused(a, m) ==
  a.unit.mode # m /\ (a.unit.state = "RUNNING" \/ a.unit.in_direct)

UnitMode(a, m) == IF ModeRefused(a, m) THEN a ELSE [a EXCEPT !.unit.mode = m]

UnitStart(a) == [a EXCEPT !.unit.refs = @ + 1]

\* The pump has users of its own and may cool down: pump_stop leaves it open
UnitOff(a) ==
  UnitMode([a EXCEPT !.unit.state = "RELEASE", !.unit.charge_state = "STOPPED"], a.mode)

\* Faulty variant: a count of zero is not looked for
UnitStopUnchecked(a) ==
  LET b == [a EXCEPT !.unit.refs = @ - 1]
  IN IF a.unit.refs > 1 THEN b ELSE UnitOff(b)

UnitStop(a) ==
  LET b == [a EXCEPT !.unit.refs = @ - 1]
  IN IF a.unit.refs = 0 THEN a
     ELSE IF a.unit.refs > 1 THEN b
     ELSE UnitOff(b)

StopAll(a) == UnitStop([a EXCEPT !.unit.refs = 1])

\* pa_client_release, whatever comes back
Release(a) == [a EXCEPT !.unit.granted = FALSE]

Hand(a, charging, charge_state) ==
  [a EXCEPT !.unit.charging = charging, !.unit.charge_state = charge_state]

-----------------------------------------------------------------------------
(* direct_on and direct_off                                                *)

\* The unit's error is cleared: it may be left from the last time in direct mode
DirectOn(a, m, fan_pump) ==
  IF ~a.dg.enabled \/ a.dg.active \/ (a.dg.pending /\ a.dg.state \notin AtRest)
  THEN a
  ELSE [a EXCEPT !.unit.error = FALSE,
                 !.unit.enabled = @ \/ a.unit.error,
                 !.unit.in_direct_pending = TRUE,
                 !.dg.pending = TRUE, !.dg.target = m, !.dg.confirmed = FALSE,
                 !.dg.state = IF fan_pump = "STOPPED" THEN "PREPARE_UNIT"
                               ELSE "STOP_FAN_PUMP"]

ValvesOff(a) == [a EXCEPT !.valve1 = FALSE, !.valve2 = FALSE]

\* Back to storage charging, or to the mode of the storage
HandBack(a, repri) ==
  LET off == Release(UnitStop(a))
  IN IF a.dg.active /\ a.unit.state = "ERROR" THEN Hand(off, FALSE, "STOPPED")
     ELSE IF a.dg.active /\ a.dg.target # a.mode
       THEN Hand(UnitMode(off, a.mode), TRUE, "STOPPED")
     ELSE IF a.dg.active /\ ~repri THEN Hand(UnitStop(a), FALSE, "STOPPED")
     ELSE IF a.dg.active THEN Hand(a, TRUE, "RUNNING")
     ELSE IF a.unit.mode # a.mode
       THEN UnitMode(IF a.unit.state # "STOPPED" THEN off ELSE a, a.mode)
     ELSE a

\* Nothing of the request is left
Clear(a) ==
  [a EXCEPT !.dg.state = "STOPPED", !.dg.active = FALSE, !.dg.pending = FALSE,
            !.dg.target = "none", !.dg.confirmed = FALSE]

Unmark(a, marks) ==
  [a EXCEPT !.unit.in_direct = @ /\ "in_direct" \notin marks,
            !.unit.in_direct_pending = @ /\ "in_direct_pending" \notin marks]

Marks == {"in_direct", "in_direct_pending"}

\* Stopping the fan calls direct_off once more from inside, which does all of
\* this and leaves nothing to the outer call.
DirectOff(a, repri) ==
  IF ~a.dg.pending THEN a
  ELSE Clear(HandBack(Unmark(ValvesOff(a), Marks), repri))

UnitForceStop(a, repri) ==
  LET b == IF a.unit.in_direct THEN DirectOff(a, repri) ELSE a
  IN StopAll([b EXCEPT !.pump = FALSE])

-----------------------------------------------------------------------------
(* The states of the group (_direct_process)                               *)

To(a, state) == [a EXCEPT !.dg.state = state]

Fail(a, marks) == To(Unmark(a, marks), "ERROR")

WrongMode(a) == a.unit.state = "RUNNING" /\ a.unit.mode # a.dg.target

WaitFanPump(a, d) ==
  IF d.sensed THEN To(a, IF WrongMode(a) THEN "STOP_UNIT" ELSE "PREPARE_UNIT") ELSE a

WaitUnitStop(a) ==
  CASE a.unit.state = "STOPPED" -> To(a, "PREPARE_UNIT")
    [] a.unit.state = "ERROR" -> Fail(a, {"in_direct_pending"})
    [] OTHER -> a

\* A unit that is neither stopped nor running is taken over as it is
PrepareUnit(a, d) ==
  LET b == IF a.unit.state \in {"STOPPED", "RUNNING"} THEN a ELSE Hand(a, FALSE, "STOPPED")
      c == UnitMode(b, a.dg.target)
      next == CASE a.unit.state = "RUNNING" -> "CONFIRM_FLOW"
                [] a.unit.state = "STOPPED" -> "START_UNIT"
                [] OTHER -> "WAIT_UNIT"
  IN IF WrongMode(a) THEN To(a, "STOP_UNIT")
     ELSE IF d.refused \/ ModeRefused(b, a.dg.target) THEN Fail(b, {"in_direct_pending"})
     ELSE To([c EXCEPT !.unit.in_direct = TRUE, !.unit.in_direct_pending = FALSE], next)

StartUnit(a) ==
  IF ~a.unit.enabled THEN Fail(ValvesOff(a), Marks) ELSE To(UnitStart(a), "WAIT_UNIT")

\* The time is measured only while the unit waits for power
WaitUnit(a, d) ==
  CASE a.unit.state = "RESERVE" /\ d.late -> Clear(UnitStop(Unmark(a, Marks)))
    [] a.unit.state = "RUNNING" -> To(a, "CONFIRM_FLOW")
    [] a.unit.state = "ERROR" -> Fail(a, Marks)
    [] OTHER -> a

\* Faulty variant: a unit that has left RUNNING stays marked
ConfirmFlowMarked(a, d) ==
  CASE a.unit.state # "RUNNING" -> Fail(a, {})
    [] a.unit.state = "RUNNING" /\ d.sensed ->
         To([a EXCEPT !.dg.confirmed = TRUE], "ACTIVATE_VALVE")
    [] a.unit.state = "RUNNING" /\ ~d.sensed /\ d.late -> Fail(UnitStop(a), Marks)
    [] OTHER -> a

ConfirmFlow(a, d) ==
  CASE a.unit.state # "RUNNING" -> Fail(a, Marks)
    [] a.unit.state = "RUNNING" /\ d.sensed ->
         To([a EXCEPT !.dg.confirmed = TRUE], "ACTIVATE_VALVE")
    [] a.unit.state = "RUNNING" /\ ~d.sensed /\ d.late -> Fail(UnitStop(a), Marks)
    [] OTHER -> a

ActivateValve(a, d) ==
  IF a.unit.state # "RUNNING" \/ d.refused THEN Fail(a, Marks)
  ELSE To([a EXCEPT !.valve1 = TRUE, !.dg.active = TRUE], "RUNNING_OPEN")

\* Faulty variant: the unit is not looked at, only its pump
WatchPump(a, d) ==
  IF ~a.pump THEN DirectOff(a, d.repri)
  ELSE IF a.dg.state = "RUNNING_OPEN" /\ d.sensed THEN To(a, "ACTIVATE_PIN2")
  ELSE a

\* RUNNING_OPEN and RUNNING; only here the pump is looked at as well
Watch(a, d) ==
  IF a.unit.state # "RUNNING" \/ ~a.pump THEN DirectOff(a, d.repri)
  ELSE IF a.dg.state = "RUNNING_OPEN" /\ d.sensed THEN To(a, "ACTIVATE_PIN2")
  ELSE a

ActivatePin2(a, d) ==
  IF a.unit.state # "RUNNING" \/ d.refused THEN Fail(ValvesOff(a), Marks)
  ELSE To([a EXCEPT !.valve2 = TRUE], "START_PRIMER")

StartPrimer(a) ==
  IF a.unit.state # "RUNNING" THEN Fail(ValvesOff(a), Marks) ELSE To(a, "WAIT_PRIMER")

\* Faulty variant: the loop is left as it is
WaitPrimerValvesLeft(a, d) ==
  IF a.unit.state # "RUNNING" THEN Fail(a, Marks)
  ELSE IF d.late THEN To(a, "WAIT_WATER_TEMP") ELSE a

WaitPrimer(a, d) ==
  IF a.unit.state # "RUNNING" THEN Fail(ValvesOff(a), Marks)
  ELSE IF d.late THEN To(a, "WAIT_WATER_TEMP") ELSE a

\* After the timeout the fan is started all the same
WaitWaterTemp(a, d) ==
  IF a.unit.state # "RUNNING" THEN Fail(ValvesOff(a), {"in_direct"})
  ELSE IF d.sensed \/ d.late THEN To(a, "RUNNING") ELSE a

DirectProcess(a, d) ==
  CASE a.dg.state = "STOP_FAN_PUMP" -> To(a, "WAIT_FAN_PUMP")
    [] a.dg.state = "WAIT_FAN_PUMP" -> WaitFanPump(a, d)
    [] a.dg.state = "STOP_UNIT" -> To(UnitStop(a), "WAIT_UNIT_STOP")
    [] a.dg.state = "WAIT_UNIT_STOP" -> WaitUnitStop(a)
    [] a.dg.state = "PREPARE_UNIT" -> PrepareUnit(a, d)
    [] a.dg.state = "START_UNIT" -> StartUnit(a)
    [] a.dg.state = "WAIT_UNIT" -> WaitUnit(a, d)
    [] a.dg.state = "CONFIRM_FLOW" -> ConfirmFlow(a, d)
    [] a.dg.state = "ACTIVATE_VALVE" -> ActivateValve(a, d)
    [] a.dg.state \in {"RUNNING_OPEN", "RUNNING"} -> Watch(a, d)
    [] a.dg.state = "ACTIVATE_PIN2" -> ActivatePin2(a, d)
    [] a.dg.state = "START_PRIMER" -> StartPrimer(a)
    [] a.dg.state = "WAIT_PRIMER" -> WaitPrimer(a, d)
    [] a.dg.state = "WAIT_WATER_TEMP" -> WaitWaterTemp(a, d)
    [] OTHER -> a

DirectMain(a, d) == IF a.dg.enabled THEN DirectProcess(a, d) ELSE a

-----------------------------------------------------------------------------
(* Storage charging (charge_main): the cases fall through                  *)

ChargeStop(a) == Hand(UnitStop(a), FALSE, "STOPPED")

\* A repri that fails stops the unit as well
ChargeRunning(a, d) ==
  IF d.water = "reached" \/ (a.unit.state = "RUNNING" /\ ~d.repri) THEN ChargeStop(a)
  ELSE Hand(a, a.unit.charging, IF a.unit.state = "STOPPED" THEN "STOPPED" ELSE "RUNNING")

ChargeWaitStart(a, d) ==
  IF a.unit.state = "RUNNING" THEN ChargeRunning(a, d)
  ELSE Hand(a, a.unit.charging, IF d.water = "reached" THEN "STOP" ELSE "WAIT_START")

ChargeMain(a, d) ==
  CASE d.water = "invalid" -> a
    [] d.water # "invalid"
       /\ (a.unit.in_direct \/ a.unit.in_direct_pending \/ ~a.unit.enabled \/ a.unit.error)
         -> Hand(a, FALSE, "STOPPED")
    [] OTHER ->
         CASE a.unit.charge_state = "STOPPED" ->
                IF d.water = "low" THEN ChargeWaitStart(Hand(UnitStart(a), TRUE, "WAIT_START"), d)
                ELSE a
           [] a.unit.charge_state = "WAIT_START" -> ChargeWaitStart(a, d)
           [] a.unit.charge_state = "RUNNING" -> ChargeRunning(a, d)
           [] a.unit.charge_state = "STOP" -> ChargeStop(a)

\* read.js: direct_main, then charge.js
ReadMain(d) ==
  /\ ~read
  /\ ac' = ChargeMain(DirectMain(ac, d), d)
  /\ read' = TRUE

-----------------------------------------------------------------------------
(* The unit's turn in run_main                                             *)

\* The set of states the turn may end in.  A unit that runs is stopped when the
\* storage has reached its temperature, but in direct mode the turn ends before.
UnitTurn(a, repri) ==
  LET At(state) == [a EXCEPT !.unit.state = state]
  IN CASE a.unit.state = "RELEASE" -> {Release(At("STOPPED"))}
       [] a.unit.state = "ERROR" ->
            {[UnitForceStop(a, repri) EXCEPT !.unit.enabled = FALSE, !.unit.error = TRUE]}
       [] a.unit.state \notin {"RELEASE", "ERROR"}
          /\ (a.unit.error \/ ~a.unit.enabled \/ a.unit.refs = 0) -> {a}
       [] OTHER ->
            CASE a.unit.state = "STOPPED" -> {At("RESERVE")}
              [] a.unit.state = "RESERVE" ->
                   {a, [At("STARTING") EXCEPT !.unit.granted = TRUE]}
              [] a.unit.state = "STARTING" ->
                   {a, At("RELEASE"), At("ERROR")}
                   \cup (IF a.pump
                         THEN {[At("RUNNING") EXCEPT
                                  !.unit.mode = IF a.unit.in_direct THEN @ ELSE a.mode]}
                         ELSE {})
              [] a.unit.state = "RUNNING" ->
                   IF ~a.pump THEN {UnitForceStop(a, repri)}
                   ELSE {a, At("ERROR")} \cup (IF a.unit.in_direct THEN {} ELSE {StopAll(a)})

RunMain ==
  /\ \E repri \in BOOLEAN : ac' \in UnitTurn(ac, repri)
  /\ read' = FALSE

-----------------------------------------------------------------------------
(* What comes from outside                                                 *)

\* External: the pump starts, or stops for reasons of its own
Pump == ac' = [ac EXCEPT !.pump = ~@]

Called(command) == command \in Commands

\* The fan's mode changes, the thermostat is satisfied, an operator asks, ...
Direct(repri) ==
  \/ /\ Called("direct_on")
     /\ ac.unit.refs < MaxRefs
     /\ \E m \in Modes, fan_pump \in {"STOPPED", "busy"} : ac' = DirectOn(ac, m, fan_pump)
  \/ Called("direct_off") /\ ac' = DirectOff(ac, repri)
  \/ Called("direct_disable") /\ ac' = [DirectOff(ac, repri) EXCEPT !.dg.enabled = FALSE]
  \/ Called("direct_enable") /\ ac' = [ac EXCEPT !.dg.enabled = TRUE]

UnitRevoke(a, repri, immediate) ==
  LET b == IF a.unit.in_direct THEN DirectOff(a, repri) ELSE a
  IN IF immediate THEN UnitForceStop(b, repri) ELSE StopAll(b)

UnitFunction(repri) ==
  \/ Called("unit_start") /\ ac.unit.enabled /\ ac.unit.refs < MaxRefs /\ ac' = UnitStart(ac)
  \/ Called("unit_stop") /\ ac' = UnitStop(ac)
  \/ Called("unit_force_stop") /\ ac' = UnitForceStop(ac, repri)
  \/ Called("unit_revoke") /\ \E immediate \in BOOLEAN : ac' = UnitRevoke(ac, repri, immediate)
  \/ Called("unit_disable") /\ ac' = [ac EXCEPT !.unit.enabled = FALSE]
  \/ /\ Called("unit_enable")
     /\ ac.unit.refs < MaxRefs
     /\ ac' = [ac EXCEPT !.unit.enabled = TRUE, !.unit.charge_state = "STOPPED"]
  \/ Called("clear_error") /\ ac' = [ac EXCEPT !.unit.error = FALSE]

\* The storage changes between cooling and heating; every unit is told
SetMode ==
  /\ Called("mode")
  /\ \E m \in Modes \ {ac.mode} : ac' = UnitMode([ac EXCEPT !.mode = m], m)

\* A new process; start_main stops what may be on
Restart ==
  /\ Called("restart")
  /\ ac' = LET b == Clear(Hand(Unmark(ValvesOff(ac), Marks), FALSE, "STOPPED"))
           IN StopAll([b EXCEPT !.dg.enabled = TRUE, !.unit.error = FALSE, !.pump = FALSE])
  /\ read' = FALSE

-----------------------------------------------------------------------------
Init ==
  /\ read = FALSE
  /\ ac = [mode |-> "cool", pump |-> FALSE, valve1 |-> FALSE, valve2 |-> FALSE,
           dg |-> [state |-> "STOPPED", enabled |-> TRUE, pending |-> FALSE,
                   active |-> FALSE, target |-> "none", confirmed |-> FALSE],
           unit |-> [state |-> "STOPPED", mode |-> "cool", refs |-> 0, enabled |-> TRUE,
                     error |-> FALSE, in_direct |-> FALSE, in_direct_pending |-> FALSE,
                     charging |-> FALSE, charge_state |-> "STOPPED", granted |-> FALSE]]

Next ==
  \/ \E d \in Readings : ReadMain(d)
  \/ RunMain
  \/ /\ \/ \E repri \in BOOLEAN : Direct(repri) \/ UnitFunction(repri)
        \/ Pump
        \/ SetMode
     /\ UNCHANGED read
  \/ Restart

Spec == Init /\ [][Next]_vars

-----------------------------------------------------------------------------
(* Properties                                                              *)

\* Values of the variables; the unit's count has no more holders than there
\* are: those of the functions, direct mode and charging.
TypeOK == ac \in State /\ ac.unit.refs <= MaxRefs + 2

\* As far as direct mode moves the valves, and nobody does by hand:
\* the loop past the storage is open only for a request whose unit has shown
\* flow, in that request's mode, with the unit marked so that charging and a
\* change of the mode keep off; the second valve is never open alone.
\* CONFIRM_FLOW is there for this (direct.js:639-647), and every way out of the
\* states with an open valve must undo it.
OpenLoop ==
  /\ ac.valve1 => /\ ac.dg.active /\ ac.dg.confirmed
                  /\ ac.unit.in_direct
                  /\ ac.unit.mode = ac.dg.target
  /\ ac.valve2 => ac.valve1

\* A unit is marked for direct mode only while a request is being carried out:
\* charge_main and unit_mode leave a marked unit alone (charge.js:105,
\* unit.js:290), so one that stays marked would never charge again.
LetsGo ==
  ac.unit.in_direct \/ ac.unit.in_direct_pending => ac.dg.state \notin AtRest

\* The water moves: what the valves must not be open without
LoopRuns == ac.unit.state = "RUNNING" /\ ac.pump

\* When the unit or its pump stops, the loop is closed off in the end.  Four of
\* the states with an open valve look at the unit alone (direct.js:723-845);
\* run_main force stops a unit whose pump has stopped (run.js:655).
LoopCloses == ac.valve1 /\ ~LoopRuns ~> ~ac.valve1 \/ LoopRuns

\* A unit that runs has power from the power agent: README.md:230 "it must not
\* run without PA awareness".  direct_off may release the power of a unit that
\* runs on (direct.js:961-965, 1003-1008): the violation run shows it.
PowerHeld == ac.unit.state = "RUNNING" => ac.unit.granted

-----------------------------------------------------------------------------
\* Fairness: reads alternate with run_main, the timers of the states, set when
\* a state is entered, are up in the end, and the agent goes on.
LateRead == \E d \in Readings : d.late /\ ReadMain(d)
FairSpec == Spec /\ SF_vars(LateRead) /\ WF_vars(RunMain)
=============================================================================
