--------------------------- MODULE AcDirectProofs ---------------------------
(***************************************************************************)
(* Theorems about direct mode, for any set of commands and any number of   *)
(* users of the unit: the valves are open only for a request whose unit    *)
(* has shown flow, and the unit is marked only while a request is under    *)
(* way.                                                                    *)
(*                                                                         *)
(* Neither is inductive: what a state may leave behind depends on what the *)
(* states before it have set.  Good says this for every stage of a         *)
(* request.  The operators on the unit only (stop, start, hand over) leave *)
(* alone what it speaks of (SameGroup), and so do charging and the unit's  *)
(* own turn; what is left is one lemma per state of the group.             *)
(*                                                                         *)
(* The second part bounds the count of the unit's users.  TypeOK alone is  *)
(* not inductive: Counted says when direct mode and charging have added    *)
(* theirs, and that neither adds it again before the count has come down.  *)
(***************************************************************************)
EXTENDS AcDirect, TLAPS

-----------------------------------------------------------------------------
(* The inductive invariant                                                 *)

\* Which marks a unit has at which stage
Marked(a) ==
  /\ a.dg.state \notin AtRest => a.dg.pending /\ a.dg.target \in Modes
  /\ a.dg.state \in Taking => a.unit.in_direct_pending
  /\ a.dg.state \in AtRest \cup Taking => ~a.unit.in_direct
  /\ a.dg.state \in AtRest \cup Proving \cup Closing => ~a.unit.in_direct_pending
  /\ a.dg.state \in Proving \cup Closing => a.unit.in_direct

\* While it is marked nobody changes its mode
InMode(a) == a.unit.in_direct => a.unit.mode = a.dg.target

\* The valves are open in the last stage only, and the first is open there
Valves(a) ==
  /\ a.valve1 <=> a.dg.state \in Closing
  /\ a.valve2 => a.valve1
  /\ a.dg.state = "ACTIVATE_VALVE" => a.dg.confirmed
  /\ a.valve1 => a.dg.active /\ a.dg.confirmed

Good(a) == a \in State /\ Marked(a) /\ InMode(a) /\ Valves(a)

\* What direct_off and the states of the group rely on in everything else
SameGroup(a, b) ==
  /\ b \in State
  /\ b.dg = a.dg /\ b.valve1 = a.valve1 /\ b.valve2 = a.valve2
  /\ b.unit.in_direct = a.unit.in_direct
  /\ b.unit.in_direct_pending = a.unit.in_direct_pending
  /\ a.unit.in_direct => b.unit.mode = a.unit.mode

LEMMA SameGroupGood ==
  ASSUME NEW a, NEW b, Good(a), SameGroup(a, b)
  PROVE  Good(b)
  BY DEF Good, SameGroup, Marked, InMode, Valves

LEMMA SameGroupTwice ==
  ASSUME NEW a, NEW b, NEW c, SameGroup(a, b), SameGroup(b, c)
  PROVE  SameGroup(a, c)
  BY DEF SameGroup

-----------------------------------------------------------------------------
(* The operators on the unit                                               *)

LEMMA Fields ==
  ASSUME NEW a \in State
  PROVE  /\ a.mode \in Modes /\ a.dg \in Group /\ a.unit \in Unit
         /\ a.pump \in BOOLEAN /\ a.valve1 \in BOOLEAN /\ a.valve2 \in BOOLEAN
  BY DEF State

LEMMA UnitModeKeeps ==
  ASSUME NEW a \in State, NEW m \in Modes
  PROVE  SameGroup(a, UnitMode(a, m))
  BY DEF SameGroup, UnitMode, ModeRefused, State, Unit

LEMMA UnitStartKeeps ==
  ASSUME NEW a \in State
  PROVE  SameGroup(a, UnitStart(a))
  BY DEF SameGroup, UnitStart, State, Unit

LEMMA HandKeeps ==
  ASSUME NEW a \in State, NEW c \in BOOLEAN, NEW s \in ChargeStates
  PROVE  SameGroup(a, Hand(a, c, s))
  BY DEF SameGroup, Hand, State, Unit

LEMMA ReleaseKeeps ==
  ASSUME NEW a \in State
  PROVE  SameGroup(a, Release(a))
  BY DEF SameGroup, Release, State, Unit

LEMMA UnitOffKeeps ==
  ASSUME NEW a \in State
  PROVE  SameGroup(a, UnitOff(a))
  <1> DEFINE b == [a EXCEPT !.unit.state = "RELEASE", !.unit.charge_state = "STOPPED"]
  <1>1. SameGroup(a, b)
    BY DEF SameGroup, State, Unit, UnitStates, ChargeStates
  <1>2. SameGroup(b, UnitMode(b, a.mode))
    BY <1>1, Fields, UnitModeKeeps DEF SameGroup
  <1> QED BY <1>1, <1>2, SameGroupTwice DEF UnitOff

LEMMA UnitStopKeeps ==
  ASSUME NEW a \in State
  PROVE  SameGroup(a, UnitStop(a))
  <1> DEFINE b == [a EXCEPT !.unit.refs = @ - 1]
  <1>1. a.unit.refs \in Nat
    BY DEF State, Unit
  <1>2. CASE a.unit.refs = 0
    BY <1>2 DEF UnitStop, SameGroup
  <1>3. CASE a.unit.refs # 0
    <2>1. SameGroup(a, b)
      BY <1>1, <1>3 DEF SameGroup, State, Unit
    <2>2. SameGroup(b, UnitOff(b))
      BY <2>1, UnitOffKeeps DEF SameGroup
    <2>3. SameGroup(a, UnitOff(b))
      BY <2>1, <2>2, SameGroupTwice
    <2> QED BY <1>3, <2>1, <2>3 DEF UnitStop
  <1> QED BY <1>2, <1>3

LEMMA StopAllKeeps ==
  ASSUME NEW a \in State
  PROVE  SameGroup(a, StopAll(a))
  <1> DEFINE b == [a EXCEPT !.unit.refs = 1]
  <1>1. SameGroup(a, b)
    BY DEF SameGroup, State, Unit
  <1>2. SameGroup(b, UnitStop(b))
    BY <1>1, UnitStopKeeps DEF SameGroup
  <1> QED BY <1>1, <1>2, SameGroupTwice DEF StopAll

LEMMA UnmarkKeeps ==
  ASSUME NEW a \in State, NEW marks
  PROVE  /\ Unmark(a, marks) \in State
         /\ Unmark(a, marks).dg = a.dg
         /\ Unmark(a, marks).valve1 = a.valve1 /\ Unmark(a, marks).valve2 = a.valve2
         /\ Unmark(a, marks).unit.mode = a.unit.mode
         /\ Unmark(a, marks).unit.in_direct = (a.unit.in_direct /\ "in_direct" \notin marks)
         /\ Unmark(a, marks).unit.in_direct_pending
              = (a.unit.in_direct_pending /\ "in_direct_pending" \notin marks)
  BY DEF Unmark, State, Unit

LEMMA HandBackKeeps ==
  ASSUME NEW a \in State, NEW repri \in BOOLEAN
  PROVE  SameGroup(a, HandBack(a, repri))
  <1> DEFINE off == Release(UnitStop(a))
  <1>0. a.mode \in Modes /\ SameGroup(a, a) /\ {TRUE, FALSE} \subseteq BOOLEAN
        /\ {"STOPPED", "RUNNING"} \subseteq ChargeStates
    BY Fields DEF SameGroup, ChargeStates
  <1>1. SameGroup(a, UnitStop(a)) /\ UnitStop(a) \in State
    BY UnitStopKeeps DEF SameGroup
  <1>2. SameGroup(a, off) /\ off \in State
    <2>1. SameGroup(UnitStop(a), off)
      BY <1>1, ReleaseKeeps
    <2> QED BY <1>1, <2>1, SameGroupTwice DEF SameGroup
  <1>3. SameGroup(a, UnitMode(off, a.mode)) /\ UnitMode(off, a.mode) \in State
    <2>1. SameGroup(off, UnitMode(off, a.mode))
      BY <1>0, <1>2, UnitModeKeeps
    <2> QED BY <1>2, <2>1, SameGroupTwice DEF SameGroup
  <1>4. SameGroup(a, UnitMode(a, a.mode))
    BY <1>0, UnitModeKeeps
  <1>5. \A b \in State, c \in BOOLEAN, s \in ChargeStates :
          SameGroup(a, b) => SameGroup(a, Hand(b, c, s))
    <2> TAKE b \in State, c \in BOOLEAN, s \in ChargeStates
    <2> HAVE SameGroup(a, b)
    <2>1. SameGroup(b, Hand(b, c, s))
      BY HandKeeps
    <2> QED BY <2>1, SameGroupTwice
  <1>6. /\ SameGroup(a, Hand(off, FALSE, "STOPPED"))
        /\ SameGroup(a, Hand(UnitMode(off, a.mode), TRUE, "STOPPED"))
        /\ SameGroup(a, Hand(UnitStop(a), FALSE, "STOPPED"))
        /\ SameGroup(a, Hand(a, TRUE, "RUNNING"))
    BY <1>0, <1>1, <1>2, <1>3, <1>5
  <1> HIDE DEF off
  <1>7. HandBack(a, repri) \in
          {Hand(off, FALSE, "STOPPED"), Hand(UnitMode(off, a.mode), TRUE, "STOPPED"),
           Hand(UnitStop(a), FALSE, "STOPPED"), Hand(a, TRUE, "RUNNING"),
           UnitMode(off, a.mode), UnitMode(a, a.mode), a}
    BY DEF HandBack, off
  <1> QED BY <1>0, <1>3, <1>4, <1>6, <1>7

-----------------------------------------------------------------------------
(* What ends a request                                                     *)

LEMMA ValvesOffClosed ==
  ASSUME NEW a \in State
  PROVE  /\ ValvesOff(a) \in State /\ ValvesOff(a).dg = a.dg /\ ValvesOff(a).unit = a.unit
         /\ ~ValvesOff(a).valve1 /\ ~ValvesOff(a).valve2
  BY DEF ValvesOff, State

LEMMA FailGood ==
  ASSUME NEW a \in State, NEW marks, ~a.valve1, ~a.valve2,
         a.unit.in_direct => "in_direct" \in marks,
         a.unit.in_direct_pending => "in_direct_pending" \in marks
  PROVE  Good(Fail(a, marks))
  <1> DEFINE b == Unmark(a, marks)
  <1>1. b \in State /\ ~b.valve1 /\ ~b.valve2 /\ ~b.unit.in_direct /\ ~b.unit.in_direct_pending
    BY UnmarkKeeps
  <1> HIDE DEF b
  <1>2. To(b, "ERROR") \in State
    BY <1>1 DEF To, State, Group, DirectStates, AtRest
  <1>3. Good(To(b, "ERROR"))
    BY <1>1, <1>2 DEF Good, Marked, InMode, Valves, To, State, Group, AtRest, Taking, Proving, Closing
  <1> QED BY <1>3 DEF Fail, b

LEMMA ClearGood ==
  ASSUME NEW a \in State, ~a.valve1, ~a.valve2, ~a.unit.in_direct, ~a.unit.in_direct_pending
  PROVE  Good(Clear(a))
  <1>1. Clear(a) \in State
    BY DEF Clear, State, Group, DirectStates, AtRest
  <1> QED BY <1>1 DEF Good, Marked, InMode, Valves, Clear, State, Group, AtRest, Taking,
               Proving, Closing

LEMMA DirectOffGood ==
  ASSUME NEW a, Good(a), NEW repri \in BOOLEAN
  PROVE  Good(DirectOff(a, repri))
  <1> DEFINE b == ValvesOff(a)
             c == Unmark(b, Marks)
             e == HandBack(c, repri)
  <1>1. b \in State /\ ~b.valve1 /\ ~b.valve2
    BY ValvesOffClosed DEF Good
  <1>2. c \in State /\ ~c.valve1 /\ ~c.valve2 /\ ~c.unit.in_direct /\ ~c.unit.in_direct_pending
    BY <1>1, UnmarkKeeps DEF Marks
  <1>3. SameGroup(c, e)
    BY <1>2, HandBackKeeps
  <1>4. Good(Clear(e))
    BY <1>2, <1>3, ClearGood DEF SameGroup
  <1> QED BY <1>4 DEF DirectOff

LEMMA PumpOffKeeps ==
  ASSUME NEW a \in State
  PROVE  SameGroup(a, [a EXCEPT !.pump = FALSE])
  BY DEF SameGroup, State

LEMMA StopAllGood ==
  ASSUME NEW a, Good(a)
  PROVE  Good(StopAll(a))
  BY StopAllKeeps, SameGroupGood DEF Good

LEMMA UnitForceStopGood ==
  ASSUME NEW a, Good(a), NEW repri \in BOOLEAN
  PROVE  Good(UnitForceStop(a, repri))
  <1> DEFINE b == IF a.unit.in_direct THEN DirectOff(a, repri) ELSE a
             c == [b EXCEPT !.pump = FALSE]
  <1>1. Good(b)
    BY DirectOffGood
  <1> HIDE DEF b
  <1>2. Good(c)
    <2>1. SameGroup(b, c)
      BY <1>1, PumpOffKeeps DEF Good
    <2> QED BY <1>1, <2>1, SameGroupGood
  <1>3. Good(StopAll(c))
    BY <1>2, StopAllGood
  <1> QED BY <1>3 DEF UnitForceStop, b

LEMMA DirectOnGood ==
  ASSUME NEW a, Good(a), NEW m \in Modes, NEW fan_pump
  PROVE  Good(DirectOn(a, m, fan_pump))
  <1> DEFINE s == IF fan_pump = "STOPPED" THEN "PREPARE_UNIT" ELSE "STOP_FAN_PUMP"
             b == [a EXCEPT !.unit.error = FALSE,
                            !.unit.enabled = @ \/ a.unit.error,
                            !.unit.in_direct_pending = TRUE,
                            !.dg.pending = TRUE, !.dg.target = m, !.dg.confirmed = FALSE,
                            !.dg.state = s]
  <1>1. CASE ~a.dg.enabled \/ a.dg.active \/ (a.dg.pending /\ a.dg.state \notin AtRest)
    BY <1>1 DEF DirectOn
  <1>2. CASE ~(~a.dg.enabled \/ a.dg.active \/ (a.dg.pending /\ a.dg.state \notin AtRest))
    <2>1. a \in State /\ a.dg.state \in AtRest /\ ~a.unit.in_direct /\ ~a.valve1 /\ ~a.valve2
      BY <1>2 DEF Good, Marked, Valves, AtRest, Closing
    <2>2. s \in {"PREPARE_UNIT", "STOP_FAN_PUMP"}
      OBVIOUS
    <2> HIDE DEF s
    <2>3. b \in State
      BY <2>1, <2>2 DEF State, Group, Unit, DirectStates, Taking
    <2>4. /\ b.dg.state = s /\ b.dg.pending /\ b.dg.target = m /\ ~b.unit.in_direct
          /\ b.unit.in_direct_pending /\ ~b.valve1 /\ ~b.valve2
      BY <2>1 DEF State, Group, Unit
    <2>5. Good(b)
      BY <2>2, <2>3, <2>4 DEF Good, Marked, InMode, Valves, AtRest, Taking, Proving, Closing
    <2> QED BY <1>2, <2>5 DEF DirectOn, s
  <1> QED BY <1>1, <1>2
-----------------------------------------------------------------------------
(* The states of the group                                                 *)

\* Going on to a state of the same stage
LEMMA ToSameStage ==
  ASSUME NEW a, Good(a), NEW s \in DirectStates,
         \/ a.dg.state \in Taking /\ s \in Taking
         \/ a.dg.state \in Proving /\ s \in Proving \ {"ACTIVATE_VALVE"}
         \/ a.dg.state \in Closing /\ s \in Closing
  PROVE  Good(To(a, s))
  <1>1. To(a, s) \in State
    BY DEF Good, To, State, Group
  <1>2. /\ To(a, s).dg.state = s /\ To(a, s).unit = a.unit
        /\ To(a, s).valve1 = a.valve1 /\ To(a, s).valve2 = a.valve2
        /\ To(a, s).dg.target = a.dg.target /\ To(a, s).dg.pending = a.dg.pending
        /\ To(a, s).dg.active = a.dg.active /\ To(a, s).dg.confirmed = a.dg.confirmed
    BY DEF Good, To, State, Group
  <1> HIDE DEF To
  <1> QED BY <1>1, <1>2 DEF Good, Marked, InMode, Valves, AtRest, Taking, Proving, Closing

\* The stages are apart, and the valves are closed before the last one
LEMMA Stages ==
  ASSUME NEW a, Good(a)
  PROVE  /\ a \in State
         /\ a.dg.state \in Taking => ~a.unit.in_direct /\ ~a.valve1 /\ ~a.valve2
                                     /\ a.dg.pending /\ a.dg.target \in Modes
         /\ a.dg.state \in Proving => a.unit.in_direct /\ ~a.unit.in_direct_pending
                                      /\ ~a.valve1 /\ ~a.valve2
         /\ a.dg.state \in Closing => a.unit.in_direct /\ ~a.unit.in_direct_pending
  BY DEF Good, Marked, Valves, AtRest, Taking, Proving, Closing

LEMMA FailClosed ==
  ASSUME NEW a, Good(a), a.dg.state \in Closing,
         NEW marks, "in_direct" \in marks
  PROVE  Good(Fail(ValvesOff(a), marks))
  BY Stages, ValvesOffClosed, FailGood

LEMMA WaitFanPumpGood ==
  ASSUME NEW a, Good(a), a.dg.state \in Taking, NEW d
  PROVE  Good(WaitFanPump(a, d))
  BY ToSameStage DEF WaitFanPump, Taking, DirectStates

LEMMA WaitUnitStopGood ==
  ASSUME NEW a, Good(a), a.dg.state \in Taking
  PROVE  Good(WaitUnitStop(a))
  <1>1. Good(To(a, "PREPARE_UNIT"))
    BY ToSameStage DEF Taking, DirectStates
  <1>2. Good(Fail(a, {"in_direct_pending"}))
    BY Stages, FailGood
  <1> QED BY <1>1, <1>2 DEF WaitUnitStop

LEMMA PrepareUnitGood ==
  ASSUME NEW a, Good(a), a.dg.state = "PREPARE_UNIT", NEW d
  PROVE  Good(PrepareUnit(a, d))
  <1> DEFINE b == IF a.unit.state \in {"STOPPED", "RUNNING"} THEN a
                  ELSE Hand(a, FALSE, "STOPPED")
             c == UnitMode(b, a.dg.target)
             next == CASE a.unit.state = "RUNNING" -> "CONFIRM_FLOW"
                       [] a.unit.state = "STOPPED" -> "START_UNIT"
                       [] OTHER -> "WAIT_UNIT"
             e == To([c EXCEPT !.unit.in_direct = TRUE, !.unit.in_direct_pending = FALSE], next)
  <1>1. /\ a \in State /\ ~a.unit.in_direct /\ ~a.valve1 /\ ~a.valve2
        /\ a.dg.pending /\ a.dg.target \in Modes
    BY Stages DEF Taking
  <1>2. Good(To(a, "STOP_UNIT"))
    BY ToSameStage DEF Taking, DirectStates
  <1>3. SameGroup(a, b)
    BY <1>1, HandKeeps DEF SameGroup, ChargeStates
  <1>4. next \in {"CONFIRM_FLOW", "START_UNIT", "WAIT_UNIT"}
    OBVIOUS
  <1> HIDE DEF b, next
  <1>5. Good(Fail(b, {"in_direct_pending"}))
    BY <1>1, <1>3, FailGood DEF SameGroup
  <1>6. CASE ~ModeRefused(b, a.dg.target)
    <2>1. SameGroup(b, c)
      BY <1>1, <1>3, UnitModeKeeps DEF SameGroup
    <2>2. c \in State /\ c.dg = a.dg /\ ~c.valve1 /\ ~c.valve2
      BY <1>1, <1>3, <2>1 DEF SameGroup
    <2>3. c.unit.mode = a.dg.target
      BY <1>3, <1>6 DEF UnitMode, SameGroup, State, Unit
    <2> HIDE DEF c
    <2>4. e \in State
      BY <1>4, <2>2 DEF To, State, Group, Unit, DirectStates, Proving
    <2>5. /\ e.dg.state = next /\ e.dg.pending /\ e.dg.target = a.dg.target
          /\ e.unit.in_direct /\ ~e.unit.in_direct_pending /\ e.unit.mode = c.unit.mode
          /\ ~e.valve1 /\ ~e.valve2
      BY <1>1, <2>2 DEF To, State, Group, Unit
    <2> HIDE DEF e
    <2>6. Good(e)
      BY <1>1, <1>4, <2>3, <2>4, <2>5
      DEF Good, Marked, InMode, Valves, AtRest, Taking, Proving, Closing
    <2> QED BY <1>2, <1>5, <1>6, <2>6 DEF PrepareUnit, b, c, e, next
  <1>7. CASE ModeRefused(b, a.dg.target)
    BY <1>2, <1>5, <1>7 DEF PrepareUnit, b
  <1> QED BY <1>6, <1>7

LEMMA StartUnitGood ==
  ASSUME NEW a, Good(a), a.dg.state = "START_UNIT"
  PROVE  Good(StartUnit(a))
  <1>1. Good(Fail(ValvesOff(a), Marks))
    BY Stages, ValvesOffClosed, FailGood DEF Marks, Good
  <1>2. SameGroup(a, UnitStart(a)) /\ Good(UnitStart(a))
    BY UnitStartKeeps, SameGroupGood DEF Good
  <1>3. Good(To(UnitStart(a), "WAIT_UNIT"))
    BY <1>2, ToSameStage DEF SameGroup, Proving, DirectStates
  <1> QED BY <1>1, <1>3 DEF StartUnit

LEMMA WaitUnitGood ==
  ASSUME NEW a, Good(a), a.dg.state \in Proving, NEW d
  PROVE  Good(WaitUnit(a, d))
  <1>1. a \in State /\ ~a.valve1 /\ ~a.valve2
    BY Stages
  <1>2. Good(Clear(UnitStop(Unmark(a, Marks))))
    <2> DEFINE b == Unmark(a, Marks)
    <2>1. b \in State /\ ~b.valve1 /\ ~b.valve2 /\ ~b.unit.in_direct /\ ~b.unit.in_direct_pending
      BY <1>1, UnmarkKeeps DEF Marks
    <2> HIDE DEF b
    <2>2. SameGroup(b, UnitStop(b))
      BY <2>1, UnitStopKeeps
    <2>3. Good(Clear(UnitStop(b)))
      BY <2>1, <2>2, ClearGood DEF SameGroup
    <2> QED BY <2>3 DEF b
  <1>3. Good(To(a, "CONFIRM_FLOW"))
    BY ToSameStage DEF Proving, DirectStates
  <1>4. Good(Fail(a, Marks))
    BY <1>1, FailGood DEF Marks
  <1> QED BY <1>2, <1>3, <1>4 DEF WaitUnit

LEMMA ConfirmFlowGood ==
  ASSUME NEW a, Good(a), a.dg.state \in Proving, NEW d
  PROVE  Good(ConfirmFlow(a, d))
  <1>1. a \in State /\ ~a.valve1 /\ ~a.valve2
    BY Stages
  <1>2. Good(Fail(a, Marks))
    BY <1>1, FailGood DEF Marks
  <1>3. Good(Fail(UnitStop(a), Marks))
    BY <1>1, UnitStopKeeps, FailGood DEF Marks, SameGroup
  <1>4. Good(To([a EXCEPT !.dg.confirmed = TRUE], "ACTIVATE_VALVE"))
    <2> DEFINE e == To([a EXCEPT !.dg.confirmed = TRUE], "ACTIVATE_VALVE")
    <2>1. e \in State
      BY <1>1 DEF To, State, Group, DirectStates, Proving
    <2>2. /\ e.dg.state = "ACTIVATE_VALVE" /\ e.dg.confirmed /\ e.unit = a.unit
          /\ e.dg.target = a.dg.target /\ e.dg.pending = a.dg.pending
          /\ ~e.valve1 /\ ~e.valve2
      BY <1>1 DEF To, State, Group
    <2> HIDE DEF e
    <2>3. Good(e)
      BY <2>1, <2>2 DEF Good, Marked, InMode, Valves, AtRest, Taking, Proving, Closing
    <2> QED BY <2>3 DEF e
  <1> QED BY <1>2, <1>3, <1>4 DEF ConfirmFlow

LEMMA ActivateValveGood ==
  ASSUME NEW a, Good(a), a.dg.state = "ACTIVATE_VALVE", NEW d
  PROVE  Good(ActivateValve(a, d))
  <1> DEFINE e == To([a EXCEPT !.valve1 = TRUE, !.dg.active = TRUE], "RUNNING_OPEN")
  <1>1. a \in State /\ ~a.valve1 /\ ~a.valve2
    BY Stages DEF Proving
  <1>2. Good(Fail(a, Marks))
    BY <1>1, FailGood DEF Marks
  <1>3. e \in State
    BY <1>1 DEF To, State, Group, DirectStates, Closing
  <1>4. /\ e.dg.state = "RUNNING_OPEN" /\ e.dg.confirmed = a.dg.confirmed /\ e.dg.active
        /\ e.unit = a.unit /\ e.dg.target = a.dg.target /\ e.dg.pending = a.dg.pending
        /\ e.valve1 /\ ~e.valve2
    BY <1>1 DEF To, State, Group
  <1> HIDE DEF e
  <1>5. Good(e)
    BY <1>3, <1>4 DEF Good, Marked, InMode, Valves, AtRest, Taking, Proving, Closing
  <1> QED BY <1>2, <1>5 DEF ActivateValve, e

LEMMA WatchGood ==
  ASSUME NEW a, Good(a), a.dg.state \in Closing, NEW d \in Readings
  PROVE  Good(Watch(a, d))
  <1>1. Good(DirectOff(a, d.repri))
    BY DirectOffGood DEF Readings
  <1>2. Good(To(a, "ACTIVATE_PIN2"))
    BY ToSameStage DEF Closing, DirectStates
  <1> QED BY <1>1, <1>2 DEF Watch

LEMMA ActivatePin2Good ==
  ASSUME NEW a, Good(a), a.dg.state = "ACTIVATE_PIN2", NEW d
  PROVE  Good(ActivatePin2(a, d))
  <1> DEFINE b == [a EXCEPT !.valve2 = TRUE]
  <1>1. Good(Fail(ValvesOff(a), Marks))
    BY FailClosed DEF Closing, Marks
  <1>2. /\ a.valve1
        /\ b \in State /\ b.valve1 = a.valve1 /\ b.dg = a.dg /\ b.unit = a.unit
    BY DEF Good, State, Valves, Closing
  <1>3. Good(b)
    BY <1>2 DEF Good, Marked, InMode, Valves
  <1>4. Good(To(b, "START_PRIMER"))
    BY <1>2, <1>3, ToSameStage DEF Closing, DirectStates
  <1> QED BY <1>1, <1>4 DEF ActivatePin2

LEMMA StartPrimerGood ==
  ASSUME NEW a, Good(a), a.dg.state \in Closing
  PROVE  Good(StartPrimer(a))
  <1>1. Good(Fail(ValvesOff(a), Marks))
    BY FailClosed DEF Marks
  <1>2. Good(To(a, "WAIT_PRIMER"))
    BY ToSameStage DEF Closing, DirectStates
  <1> QED BY <1>1, <1>2 DEF StartPrimer

LEMMA WaitPrimerGood ==
  ASSUME NEW a, Good(a), a.dg.state \in Closing, NEW d
  PROVE  Good(WaitPrimer(a, d))
  <1>1. Good(Fail(ValvesOff(a), Marks))
    BY FailClosed DEF Marks
  <1>2. Good(To(a, "WAIT_WATER_TEMP"))
    BY ToSameStage DEF Closing, DirectStates
  <1> QED BY <1>1, <1>2 DEF WaitPrimer

LEMMA WaitWaterTempGood ==
  ASSUME NEW a, Good(a), a.dg.state \in Closing, NEW d
  PROVE  Good(WaitWaterTemp(a, d))
  <1>1. Good(Fail(ValvesOff(a), {"in_direct"}))
    BY FailClosed
  <1>2. Good(To(a, "RUNNING"))
    BY ToSameStage DEF Closing, DirectStates
  <1> QED BY <1>1, <1>2 DEF WaitWaterTemp

LEMMA StopUnitGood ==
  ASSUME NEW a, Good(a), a.dg.state = "STOP_UNIT"
  PROVE  Good(To(UnitStop(a), "WAIT_UNIT_STOP"))
  <1>1. SameGroup(a, UnitStop(a)) /\ Good(UnitStop(a))
    BY UnitStopKeeps, SameGroupGood DEF Good
  <1> QED BY <1>1, ToSameStage DEF SameGroup, Taking, DirectStates

LEMMA DirectMainGood ==
  ASSUME NEW a, Good(a), NEW d \in Readings
  PROVE  Good(DirectMain(a, d))
  <1>1. CASE a.dg.state = "STOP_FAN_PUMP"
    <2>1. Good(To(a, "WAIT_FAN_PUMP"))
      BY <1>1, ToSameStage DEF Taking, DirectStates
    <2> QED BY <1>1, <2>1 DEF DirectMain, DirectProcess
  <1>2. CASE a.dg.state = "WAIT_FAN_PUMP"
    BY <1>2, WaitFanPumpGood DEF DirectMain, DirectProcess, Taking
  <1>3. CASE a.dg.state = "STOP_UNIT"
    BY <1>3, StopUnitGood DEF DirectMain, DirectProcess
  <1>4. CASE a.dg.state = "WAIT_UNIT_STOP"
    BY <1>4, WaitUnitStopGood DEF DirectMain, DirectProcess, Taking
  <1>5. CASE a.dg.state = "PREPARE_UNIT"
    BY <1>5, PrepareUnitGood DEF DirectMain, DirectProcess
  <1>6. CASE a.dg.state = "START_UNIT"
    BY <1>6, StartUnitGood DEF DirectMain, DirectProcess
  <1>7. CASE a.dg.state = "WAIT_UNIT"
    BY <1>7, WaitUnitGood DEF DirectMain, DirectProcess, Proving
  <1>8. CASE a.dg.state = "CONFIRM_FLOW"
    BY <1>8, ConfirmFlowGood DEF DirectMain, DirectProcess, Proving
  <1>9. CASE a.dg.state = "ACTIVATE_VALVE"
    BY <1>9, ActivateValveGood DEF DirectMain, DirectProcess
  <1>10. CASE a.dg.state \in {"RUNNING_OPEN", "RUNNING"}
    BY <1>10, WatchGood DEF DirectMain, DirectProcess, Closing
  <1>11. CASE a.dg.state = "ACTIVATE_PIN2"
    BY <1>11, ActivatePin2Good DEF DirectMain, DirectProcess
  <1>12. CASE a.dg.state = "START_PRIMER"
    BY <1>12, StartPrimerGood DEF DirectMain, DirectProcess, Closing
  <1>13. CASE a.dg.state = "WAIT_PRIMER"
    BY <1>13, WaitPrimerGood DEF DirectMain, DirectProcess, Closing
  <1>14. CASE a.dg.state = "WAIT_WATER_TEMP"
    BY <1>14, WaitWaterTempGood DEF DirectMain, DirectProcess, Closing
  <1>15. CASE a.dg.state \in AtRest
    BY <1>15 DEF DirectMain, DirectProcess, AtRest
  <1>16. a.dg.state \in DirectStates
    BY Fields DEF Good, Group
  <1> QED BY <1>1, <1>2, <1>3, <1>4, <1>5, <1>6, <1>7, <1>8, <1>9, <1>10, <1>11, <1>12,
             <1>13, <1>14, <1>15, <1>16 DEF DirectStates, Taking, Proving, Closing

-----------------------------------------------------------------------------
(* Storage charging                                                        *)

LEMMA ChargeStopKeeps ==
  ASSUME NEW a \in State
  PROVE  SameGroup(a, ChargeStop(a))
  <1>1. SameGroup(a, UnitStop(a)) /\ UnitStop(a) \in State
    BY UnitStopKeeps DEF SameGroup
  <1>2. SameGroup(UnitStop(a), ChargeStop(a))
    BY <1>1, HandKeeps DEF ChargeStop, ChargeStates
  <1> QED BY <1>1, <1>2, SameGroupTwice

LEMMA ChargeRunningKeeps ==
  ASSUME NEW a \in State, NEW d
  PROVE  SameGroup(a, ChargeRunning(a, d))
  <1>1. a.unit.charging \in BOOLEAN
    BY DEF State, Unit
  <1>2. SameGroup(a, Hand(a, a.unit.charging,
                          IF a.unit.state = "STOPPED" THEN "STOPPED" ELSE "RUNNING"))
    BY <1>1, HandKeeps DEF ChargeStates
  <1> QED BY <1>2, ChargeStopKeeps DEF ChargeRunning

LEMMA ChargeWaitStartKeeps ==
  ASSUME NEW a \in State, NEW d
  PROVE  SameGroup(a, ChargeWaitStart(a, d))
  <1>1. a.unit.charging \in BOOLEAN
    BY DEF State, Unit
  <1>2. SameGroup(a, Hand(a, a.unit.charging,
                          IF d.water = "reached" THEN "STOP" ELSE "WAIT_START"))
    BY <1>1, HandKeeps DEF ChargeStates
  <1> QED BY <1>2, ChargeRunningKeeps DEF ChargeWaitStart

LEMMA ChargeMainKeeps ==
  ASSUME NEW a \in State, NEW d
  PROVE  SameGroup(a, ChargeMain(a, d))
  <1> DEFINE b == UnitStart(a)
             c == Hand(b, TRUE, "WAIT_START")
  <1>1. SameGroup(a, a)
    BY DEF SameGroup
  <1>2. SameGroup(a, Hand(a, FALSE, "STOPPED"))
    BY HandKeeps DEF ChargeStates
  <1>3. SameGroup(a, c) /\ c \in State
    <2>1. SameGroup(a, b) /\ b \in State
      BY UnitStartKeeps DEF SameGroup
    <2>2. SameGroup(b, c)
      BY <2>1, HandKeeps DEF ChargeStates
    <2> QED BY <2>1, <2>2, SameGroupTwice DEF SameGroup
  <1> HIDE DEF c
  <1>4. SameGroup(a, ChargeWaitStart(c, d))
    BY <1>3, ChargeWaitStartKeeps, SameGroupTwice
  <1>5. /\ SameGroup(a, ChargeWaitStart(a, d))
        /\ SameGroup(a, ChargeRunning(a, d))
        /\ SameGroup(a, ChargeStop(a))
    BY ChargeWaitStartKeeps, ChargeRunningKeeps, ChargeStopKeeps
  <1>6. a.unit.charge_state \in ChargeStates
    BY DEF State, Unit
  <1> QED BY <1>1, <1>2, <1>4, <1>5, <1>6 DEF ChargeMain, c, ChargeStates

-----------------------------------------------------------------------------
(* The steps                                                               *)

LEMMA ReadMainGood ==
  ASSUME Good(ac), NEW d \in Readings, ReadMain(d)
  PROVE  Good(ac')
  <1>1. Good(DirectMain(ac, d))
    BY DirectMainGood
  <1>2. SameGroup(DirectMain(ac, d), ChargeMain(DirectMain(ac, d), d))
    BY <1>1, ChargeMainKeeps DEF Good
  <1> QED BY <1>1, <1>2, SameGroupGood DEF ReadMain

LEMMA UnitTurnGood ==
  ASSUME NEW a, Good(a), NEW repri \in BOOLEAN, NEW b \in UnitTurn(a, repri)
  PROVE  Good(b)
  <1> DEFINE At(state) == [a EXCEPT !.unit.state = state]
             m == IF a.unit.in_direct THEN a.unit.mode ELSE a.mode
             stopped == UnitForceStop(a, repri)
  <1>0. a \in State /\ a.unit.state \in UnitStates
    BY DEF Good, State, Unit
  <1>1. \A s \in UnitStates : At(s) \in State /\ Good(At(s))
    <2> TAKE s \in UnitStates
    <2>1. SameGroup(a, At(s))
      BY <1>0 DEF SameGroup, State, Unit
    <2> QED BY <2>1, SameGroupGood DEF Good
  <1>2. Good(Release(At("STOPPED")))
    BY <1>1, ReleaseKeeps, SameGroupGood DEF UnitStates
  <1>3. Good(stopped)
    BY UnitForceStopGood
  <1>4. Good([stopped EXCEPT !.unit.enabled = FALSE, !.unit.error = TRUE])
    <2> HIDE DEF stopped
    <2>1. SameGroup(stopped, [stopped EXCEPT !.unit.enabled = FALSE, !.unit.error = TRUE])
      BY <1>3 DEF SameGroup, Good, State, Unit
    <2> QED BY <1>3, <2>1, SameGroupGood
  <1>5. Good([At("STARTING") EXCEPT !.unit.granted = TRUE])
    <2>1. SameGroup(a, [At("STARTING") EXCEPT !.unit.granted = TRUE])
      BY <1>0 DEF SameGroup, State, Unit, UnitStates
    <2> QED BY <2>1, SameGroupGood
  <1>6. Good([At("RUNNING") EXCEPT !.unit.mode = IF a.unit.in_direct THEN @ ELSE a.mode])
    <2>1. SameGroup(a, [At("RUNNING") EXCEPT !.unit.mode = IF a.unit.in_direct THEN @ ELSE a.mode])
      BY <1>0, Fields DEF SameGroup, State, Unit, UnitStates
    <2> QED BY <2>1, SameGroupGood
  <1>7. Good(StopAll(a))
    BY StopAllGood
  <1> HIDE DEF stopped
  <1>8. CASE a.unit.state = "RELEASE"
    BY <1>2, <1>8 DEF UnitTurn
  <1>9. CASE a.unit.state = "ERROR"
    BY <1>4, <1>9 DEF UnitTurn, stopped
  <1>10. CASE /\ a.unit.state \notin {"RELEASE", "ERROR"}
              /\ a.unit.error \/ ~a.unit.enabled \/ a.unit.refs = 0
    BY <1>10 DEF UnitTurn
  <1>11. CASE ~(a.unit.error \/ ~a.unit.enabled \/ a.unit.refs = 0)
    <2>1. CASE a.unit.state = "STOPPED"
      BY <1>1, <1>11, <2>1 DEF UnitTurn, UnitStates
    <2>2. CASE a.unit.state = "RESERVE"
      BY <1>5, <1>11, <2>2 DEF UnitTurn
    <2>3. CASE a.unit.state = "STARTING"
      BY <1>1, <1>6, <1>11, <2>3 DEF UnitTurn, UnitStates
    <2>4. CASE a.unit.state = "RUNNING"
      BY <1>1, <1>3, <1>7, <1>11, <2>4 DEF UnitTurn, UnitStates, stopped
    <2> QED BY <1>0, <1>8, <1>9, <2>1, <2>2, <2>3, <2>4 DEF UnitStates
  <1> QED BY <1>8, <1>9, <1>10, <1>11

LEMMA DirectGood ==
  ASSUME Good(ac), NEW repri \in BOOLEAN, Direct(repri)
  PROVE  Good(ac')
  <1>1. CASE \E m \in Modes, fan_pump \in {"STOPPED", "busy"} : ac' = DirectOn(ac, m, fan_pump)
    BY <1>1, DirectOnGood
  <1>2. CASE ac' = DirectOff(ac, repri)
    BY <1>2, DirectOffGood
  <1>3. CASE ac' = [DirectOff(ac, repri) EXCEPT !.dg.enabled = FALSE]
    <2> DEFINE b == DirectOff(ac, repri)
    <2>1. Good(b)
      BY DirectOffGood
    <2> HIDE DEF b
    <2>2. Good([b EXCEPT !.dg.enabled = FALSE])
      BY <2>1 DEF Good, Marked, InMode, Valves, State, Group
    <2> QED BY <1>3, <2>2 DEF b
  <1>4. CASE ac' = [ac EXCEPT !.dg.enabled = TRUE]
    BY <1>4 DEF Good, Marked, InMode, Valves, State, Group
  <1> QED BY <1>1, <1>2, <1>3, <1>4 DEF Direct

LEMMA UnitRevokeGood ==
  ASSUME NEW a, Good(a), NEW repri \in BOOLEAN, NEW immediate
  PROVE  Good(UnitRevoke(a, repri, immediate))
  <1> DEFINE b == IF a.unit.in_direct THEN DirectOff(a, repri) ELSE a
  <1>1. Good(b)
    BY DirectOffGood
  <1> HIDE DEF b
  <1>2. Good(UnitForceStop(b, repri)) /\ Good(StopAll(b))
    BY <1>1, UnitForceStopGood, StopAllGood
  <1> QED BY <1>2 DEF UnitRevoke, b

LEMMA UnitFunctionGood ==
  ASSUME Good(ac), NEW repri \in BOOLEAN, UnitFunction(repri)
  PROVE  Good(ac')
  <1>0. ac \in State
    BY DEF Good
  <1>1. CASE ac' = UnitStart(ac)
    BY <1>0, <1>1, UnitStartKeeps, SameGroupGood
  <1>2. CASE ac' = UnitStop(ac)
    BY <1>0, <1>2, UnitStopKeeps, SameGroupGood
  <1>3. CASE ac' = UnitForceStop(ac, repri)
    BY <1>3, UnitForceStopGood
  <1>4. CASE \E immediate \in BOOLEAN : ac' = UnitRevoke(ac, repri, immediate)
    BY <1>4, UnitRevokeGood
  <1>5. CASE \/ ac' = [ac EXCEPT !.unit.enabled = FALSE]
             \/ ac' = [ac EXCEPT !.unit.enabled = TRUE, !.unit.charge_state = "STOPPED"]
             \/ ac' = [ac EXCEPT !.unit.error = FALSE]
    <2>1. SameGroup(ac, [ac EXCEPT !.unit.enabled = FALSE])
      BY <1>0 DEF SameGroup, State, Unit
    <2>2. SameGroup(ac, [ac EXCEPT !.unit.enabled = TRUE, !.unit.charge_state = "STOPPED"])
      BY <1>0 DEF SameGroup, State, Unit, ChargeStates
    <2>3. SameGroup(ac, [ac EXCEPT !.unit.error = FALSE])
      BY <1>0 DEF SameGroup, State, Unit
    <2> QED BY <1>5, <2>1, <2>2, <2>3, SameGroupGood
  <1> QED BY <1>1, <1>2, <1>3, <1>4, <1>5 DEF UnitFunction

LEMMA SetModeGood ==
  ASSUME Good(ac), SetMode
  PROVE  Good(ac')
  <1> PICK m \in Modes \ {ac.mode} : ac' = UnitMode([ac EXCEPT !.mode = m], m)
    BY DEF SetMode
  <1> DEFINE b == [ac EXCEPT !.mode = m]
  <1>1. SameGroup(ac, b) /\ b \in State
    BY DEF SameGroup, Good, State
  <1>2. SameGroup(b, UnitMode(b, m))
    BY <1>1, UnitModeKeeps
  <1> QED BY <1>1, <1>2, SameGroupTwice, SameGroupGood

LEMMA RestartGood ==
  ASSUME Good(ac), Restart
  PROVE  Good(ac')
  <1> DEFINE u == Unmark(ValvesOff(ac), Marks)
             h == Hand(u, FALSE, "STOPPED")
             b == Clear(h)
             e == [b EXCEPT !.dg.enabled = TRUE, !.unit.error = FALSE, !.pump = FALSE]
  <1>1. u \in State /\ ~u.valve1 /\ ~u.valve2 /\ ~u.unit.in_direct /\ ~u.unit.in_direct_pending
    <2>1. ValvesOff(ac) \in State /\ ~ValvesOff(ac).valve1 /\ ~ValvesOff(ac).valve2
      BY ValvesOffClosed DEF Good
    <2> QED BY <2>1, UnmarkKeeps DEF Marks
  <1> HIDE DEF u
  <1>2. SameGroup(u, h)
    BY <1>1, HandKeeps DEF ChargeStates
  <1>3. Good(b) /\ b.dg.state = "STOPPED"
    BY <1>1, <1>2, ClearGood DEF SameGroup, Clear, State, Group
  <1> HIDE DEF b
  <1>4. Good(e)
    BY <1>3 DEF Good, Marked, InMode, Valves, State, Group, Unit
  <1> HIDE DEF e
  <1>5. Good(StopAll(e))
    BY <1>4, StopAllGood
  <1> QED BY <1>5 DEF Restart, e, b, h, u

LEMMA InitGood ==
  ASSUME Init
  PROVE  Good(ac)
  <1>1. ac \in State
    BY DEF Init, State, Group, Unit, Modes, DirectStates, AtRest, UnitStates, ChargeStates
  <1> QED BY <1>1 DEF Init, Good, Marked, InMode, Valves, AtRest, Taking, Proving, Closing

LEMMA NextGood ==
  ASSUME Good(ac), [Next]_vars
  PROVE  Good(ac')
  <1>1. CASE \E d \in Readings : ReadMain(d)
    BY <1>1, ReadMainGood
  <1>2. CASE RunMain
    BY <1>2, UnitTurnGood DEF RunMain
  <1>3. CASE \E repri \in BOOLEAN : Direct(repri) \/ UnitFunction(repri)
    BY <1>3, DirectGood, UnitFunctionGood
  <1>4. CASE Pump
    <2>1. SameGroup(ac, ac')
      BY <1>4 DEF Pump, SameGroup, Good, State
    <2> QED BY <2>1, SameGroupGood
  <1>5. CASE SetMode
    BY <1>5, SetModeGood
  <1>6. CASE Restart
    BY <1>6, RestartGood
  <1>7. CASE UNCHANGED vars
    BY <1>7 DEF vars
  <1> QED BY <1>1, <1>2, <1>3, <1>4, <1>5, <1>6, <1>7 DEF Next

-----------------------------------------------------------------------------
(* The theorems                                                            *)

\* The values of the agent's state, and what every stage of a request relies on:
\* the marks, the mode and the valves the states before it have set
\* (_direct_process, direct_on and direct_off).
THEOREM StageKept == Spec => []Good(ac)
  <1>1. Init => Good(ac)
    BY InitGood
  <1>2. Good(ac) /\ [Next]_vars => Good(ac)'
    BY NextGood
  <1> QED BY <1>1, <1>2, PTL DEF Spec

\* However many users the unit has and whatever is called in between, the loop
\* past the storage is open only for a request whose unit has shown flow, in that
\* request's mode and marked, and pin2 is never open without pin1.
THEOREM LoopIsProven == Spec => []OpenLoop
  <1>1. Good(ac) => OpenLoop
    BY DEF Good, Marked, InMode, Valves, OpenLoop
  <1> QED BY <1>1, StageKept, PTL

\* A unit keeps its mark for direct mode only while a request is being carried
\* out, so that charge_main and unit_mode take it up again afterwards.
THEOREM MarksGo == Spec => []LetsGo
  <1>1. Good(ac) => LetsGo
    BY DEF Good, Marked, LetsGo
  <1> QED BY <1>1, StageKept, PTL

-----------------------------------------------------------------------------
(* The count.  Functions add to it below MaxRefs only.  Direct mode and    *)
(* charging add one each, without looking, and may forget that they did:   *)
(* charging when the unit is marked, disabled or in error, direct mode     *)
(* when it fails.  What they forget they add again only after a stop, or   *)
(* after a command that is not given at the bound.                         *)

On(a) == a.unit.state \in {"RUNNING", "ERROR"}

\* Charging will not count the unit as things are
Held(a) == ~a.unit.enabled \/ (~a.unit.error /\ a.unit.charge_state # "STOPPED")

Fits(a) ==
  /\ a.unit.refs <= MaxRefs + 2
  /\ a.unit.refs > MaxRefs + 1 => Held(a)
  /\ a.unit.refs > MaxRefs + 1 /\ a.unit.charge_state = "RUNNING" => On(a)

\* Until direct mode counts it has one less, and until charging counts
Requested(a) ==
  /\ a.dg.state \in Taking \cup {"START_UNIT"} => a.unit.refs <= MaxRefs
  /\ a.dg.state \notin AtRest => a.unit.refs <= MaxRefs + 1

\* A request that failed with the loop open stays active until direct_off, which
\* gives the unit to charging as though it were counted
Active(a) ==
  a.dg.active =>
    /\ a.dg.state \in AtRest \cup Closing
    /\ a.unit.refs > MaxRefs + 1 => On(a)
    /\ a.unit.refs > MaxRefs /\ ~On(a) => a.dg.state \in AtRest /\ Held(a)
    /\ a.unit.charge_state = "RUNNING" => On(a)

Counted(a) == Fits(a) /\ Requested(a) /\ Active(a)

\* All but the count and the charging of the unit
SameRest(a, b) ==
  /\ a \in State /\ b \in State
  /\ b.dg = a.dg /\ b.mode = a.mode
  /\ b.unit.enabled = a.unit.enabled /\ b.unit.error = a.unit.error

\* The unit runs for one less, or for nobody
Fewer(a, b) ==
  /\ SameRest(a, b)
  /\ \/ /\ b.unit.state = a.unit.state /\ b.unit.charge_state = a.unit.charge_state
        /\ b.unit.refs <= a.unit.refs
     \/ b.unit.refs = 0 /\ b.unit.charge_state = "STOPPED"

\* Charging gives up the unit, and its count
GivenUp(a, b) ==
  /\ SameRest(a, b)
  /\ b.unit.charge_state = "STOPPED"
  /\ \/ b.unit.state = a.unit.state /\ b.unit.refs + 1 <= a.unit.refs
     \/ b.unit.refs = 0

LEMMA UnitFields ==
  ASSUME NEW a \in State
  PROVE  /\ a.unit.state \in UnitStates /\ a.unit.refs \in Nat
         /\ a.unit.enabled \in BOOLEAN /\ a.unit.error \in BOOLEAN
         /\ a.unit.charge_state \in ChargeStates
         /\ a.dg.state \in DirectStates /\ a.dg.active \in BOOLEAN
  BY DEF State, Unit, Group

LEMMA FewerCounted ==
  ASSUME NEW a, NEW b, Counted(a), Fewer(a, b)
  PROVE  Counted(b)
  <1>1. /\ a.unit.refs \in Nat /\ b.unit.refs \in Nat /\ MaxRefs \in Nat \ {0}
    BY UnitFields, MaxRefsAssumption DEF Fewer, SameRest
  <1>2. CASE /\ b.unit.state = a.unit.state /\ b.unit.charge_state = a.unit.charge_state
             /\ b.unit.refs <= a.unit.refs
    BY <1>1, <1>2 DEF Fewer, SameRest, Counted, Fits, Requested, Active, On, Held
  <1>3. CASE b.unit.refs = 0 /\ b.unit.charge_state = "STOPPED"
    BY <1>1, <1>3 DEF Fewer, SameRest, Counted, Fits, Requested, Active, On, Held
  <1> QED BY <1>2, <1>3 DEF Fewer

LEMMA GivenUpCounted ==
  ASSUME NEW a, NEW b, Counted(a), GivenUp(a, b)
  PROVE  Counted(b)
  <1>1. /\ a.unit.refs \in Nat /\ b.unit.refs \in Nat /\ MaxRefs \in Nat \ {0}
    BY UnitFields, MaxRefsAssumption DEF GivenUp, SameRest
  <1>2. CASE b.unit.state = a.unit.state /\ b.unit.refs + 1 <= a.unit.refs
    BY <1>1, <1>2 DEF GivenUp, SameRest, Counted, Fits, Requested, Active, On, Held
  <1>3. CASE b.unit.refs = 0
    BY <1>1, <1>3 DEF GivenUp, SameRest, Counted, Fits, Requested, Active, On, Held
  <1> QED BY <1>2, <1>3 DEF GivenUp

-----------------------------------------------------------------------------
(* The operators on the unit, and the count                                *)

LEMMA UnitModeCount ==
  ASSUME NEW a \in State, NEW m \in Modes
  PROVE  /\ UnitMode(a, m) \in State
         /\ UnitMode(a, m).dg = a.dg /\ UnitMode(a, m).mode = a.mode
         /\ UnitMode(a, m).unit.enabled = a.unit.enabled
         /\ UnitMode(a, m).unit.error = a.unit.error
         /\ UnitMode(a, m).unit.state = a.unit.state
         /\ UnitMode(a, m).unit.charge_state = a.unit.charge_state
         /\ UnitMode(a, m).unit.refs = a.unit.refs
  BY DEF UnitMode, ModeRefused, State, Unit

LEMMA HandCount ==
  ASSUME NEW a \in State, NEW c \in BOOLEAN, NEW s \in ChargeStates
  PROVE  /\ Hand(a, c, s) \in State
         /\ Hand(a, c, s).dg = a.dg /\ Hand(a, c, s).mode = a.mode
         /\ Hand(a, c, s).unit.enabled = a.unit.enabled
         /\ Hand(a, c, s).unit.error = a.unit.error
         /\ Hand(a, c, s).unit.state = a.unit.state
         /\ Hand(a, c, s).unit.charge_state = s
         /\ Hand(a, c, s).unit.refs = a.unit.refs
  BY DEF Hand, State, Unit

LEMMA ReleaseCount ==
  ASSUME NEW a \in State
  PROVE  /\ Release(a) \in State
         /\ Release(a).dg = a.dg /\ Release(a).mode = a.mode
         /\ Release(a).unit.enabled = a.unit.enabled
         /\ Release(a).unit.error = a.unit.error
         /\ Release(a).unit.state = a.unit.state
         /\ Release(a).unit.charge_state = a.unit.charge_state
         /\ Release(a).unit.refs = a.unit.refs
  BY DEF Release, State, Unit

LEMMA UnmarkCount ==
  ASSUME NEW a \in State, NEW marks
  PROVE  /\ Unmark(a, marks) \in State
         /\ Unmark(a, marks).dg = a.dg /\ Unmark(a, marks).mode = a.mode
         /\ Unmark(a, marks).unit.enabled = a.unit.enabled
         /\ Unmark(a, marks).unit.error = a.unit.error
         /\ Unmark(a, marks).unit.state = a.unit.state
         /\ Unmark(a, marks).unit.charge_state = a.unit.charge_state
         /\ Unmark(a, marks).unit.refs = a.unit.refs
  BY DEF Unmark, State, Unit

\* unit_stop takes one away, and the last one switches off and ends charging
LEMMA UnitStopCount ==
  ASSUME NEW a \in State
  PROVE  /\ UnitStop(a) \in State
         /\ UnitStop(a).dg = a.dg /\ UnitStop(a).mode = a.mode
         /\ UnitStop(a).unit.enabled = a.unit.enabled
         /\ UnitStop(a).unit.error = a.unit.error
         /\ \/ a.unit.refs = 0 /\ UnitStop(a) = a
            \/ /\ a.unit.refs > 1 /\ UnitStop(a).unit.refs = a.unit.refs - 1
               /\ UnitStop(a).unit.state = a.unit.state
               /\ UnitStop(a).unit.charge_state = a.unit.charge_state
            \/ /\ UnitStop(a).unit.refs = 0
               /\ UnitStop(a).unit.charge_state = "STOPPED"
  <1> DEFINE b == [a EXCEPT !.unit.refs = @ - 1]
             c == [b EXCEPT !.unit.state = "RELEASE", !.unit.charge_state = "STOPPED"]
  <1>1. a.unit.refs \in Nat /\ a.mode \in Modes
    BY DEF State, Unit
  <1>2. CASE a.unit.refs = 0
    BY <1>2 DEF UnitStop
  <1>3. ASSUME a.unit.refs # 0
        PROVE  /\ b \in State /\ b.dg = a.dg /\ b.mode = a.mode
               /\ b.unit.enabled = a.unit.enabled /\ b.unit.error = a.unit.error
               /\ b.unit.refs = a.unit.refs - 1 /\ b.unit.state = a.unit.state
               /\ b.unit.charge_state = a.unit.charge_state
    BY <1>1, <1>3 DEF State, Unit
  <1>4. CASE a.unit.refs > 1
    BY <1>1, <1>3, <1>4 DEF UnitStop
  <1>5. CASE a.unit.refs = 1
    <2> HIDE DEF b
    <2>1. /\ c \in State /\ c.dg = a.dg /\ c.mode = a.mode
          /\ c.unit.enabled = a.unit.enabled /\ c.unit.error = a.unit.error
          /\ c.unit.refs = 0 /\ c.unit.charge_state = "STOPPED"
      <3>1. b.unit.refs = 0
        BY <1>3, <1>5
      <3>2. b \in State /\ b.unit \in Unit
        BY <1>3, <1>5 DEF State
      <3>3. c \in State
        BY <3>2 DEF State, Unit, UnitStates, ChargeStates
      <3>4. /\ c.dg = b.dg /\ c.mode = b.mode /\ c.unit.enabled = b.unit.enabled
            /\ c.unit.error = b.unit.error /\ c.unit.refs = b.unit.refs
            /\ c.unit.charge_state = "STOPPED"
        BY <3>2 DEF State, Unit
      <3> QED BY <1>3, <1>5, <3>1, <3>3, <3>4
    <2>2. UnitStop(a) = UnitMode(c, b.mode) /\ b.mode \in Modes
      BY <1>1, <1>3, <1>5 DEF UnitStop, UnitOff, b
    <2> HIDE DEF c
    <2> QED BY <2>1, <2>2, UnitModeCount
  <1> QED BY <1>1, <1>2, <1>4, <1>5

LEMMA UnitStopFewer ==
  ASSUME NEW a \in State
  PROVE  Fewer(a, UnitStop(a))
  <1>1. a.unit.refs \in Nat
    BY UnitFields
  <1> QED BY <1>1, UnitStopCount DEF Fewer, SameRest

\* unit_stop and hand over
LEMMA StopHandGivesUp ==
  ASSUME NEW a \in State, NEW c \in BOOLEAN
  PROVE  GivenUp(a, Hand(UnitStop(a), c, "STOPPED"))
  <1>1. a.unit.refs \in Nat /\ UnitStop(a) \in State /\ "STOPPED" \in ChargeStates
    BY UnitFields, UnitStopCount DEF ChargeStates
  <1> DEFINE b == Hand(UnitStop(a), c, "STOPPED")
  <1>2. /\ SameRest(a, b) /\ b.unit.charge_state = "STOPPED"
        /\ b.unit.state = UnitStop(a).unit.state /\ b.unit.refs = UnitStop(a).unit.refs
    BY <1>1, HandCount, UnitStopCount DEF SameRest
  <1> HIDE DEF b
  <1>3. GivenUp(a, b)
    BY <1>1, <1>2, UnitStopCount DEF GivenUp
  <1> QED BY <1>3 DEF b

LEMMA StopAllCount ==
  ASSUME NEW a \in State
  PROVE  /\ SameRest(a, StopAll(a))
         /\ StopAll(a).unit.refs = 0 /\ StopAll(a).unit.charge_state = "STOPPED"
  <1> DEFINE b == [a EXCEPT !.unit.refs = 1]
  <1>1. /\ b \in State /\ b.dg = a.dg /\ b.mode = a.mode /\ b.unit.refs = 1
        /\ b.unit.enabled = a.unit.enabled /\ b.unit.error = a.unit.error
    BY DEF State, Unit
  <1>2. StopAll(a) = UnitStop(b)
    BY DEF StopAll
  <1> HIDE DEF b
  <1> QED BY <1>1, <1>2, UnitStopCount DEF SameRest

LEMMA StopAllCounted ==
  ASSUME NEW a \in State, Counted(a)
  PROVE  Counted(StopAll(a))
  <1>1. Fewer(a, StopAll(a))
    BY StopAllCount DEF Fewer
  <1> QED BY <1>1, FewerCounted

\* The unit is stopped for all: no condition on what was before
LEMMA StopAllRest ==
  ASSUME NEW a \in State, a.dg.active => a.dg.state \in AtRest \cup Closing
  PROVE  Counted(StopAll(a))
  <1>1. /\ SameRest(a, StopAll(a)) /\ MaxRefs \in Nat
        /\ StopAll(a).unit.refs = 0 /\ StopAll(a).unit.charge_state = "STOPPED"
    BY StopAllCount, MaxRefsAssumption
  <1> QED BY <1>1 DEF SameRest, Counted, Fits, Requested, Active, On, Held

-----------------------------------------------------------------------------
(* What ends a request, and the count                                      *)

\* Whatever the unit is handed back to: what is left of it fits a group at rest.
\* Only charging with its priority takes it without a stop, and then it runs or
\* charging has nothing of its own to add.
LEMMA HandBackFits ==
  ASSUME NEW a \in State, Counted(a), NEW repri \in BOOLEAN
  PROVE  Fits(HandBack(a, repri)) /\ HandBack(a, repri) \in State
  <1> DEFINE off == Release(UnitStop(a))
             h == HandBack(a, repri)
  <1>0. /\ a.mode \in Modes /\ a.unit.refs \in Nat /\ MaxRefs \in Nat
        /\ {"STOPPED", "RUNNING"} \subseteq ChargeStates
    BY Fields, UnitFields, MaxRefsAssumption DEF ChargeStates
  <1>1. Fewer(a, off) /\ off \in State /\ off.mode = a.mode
    BY UnitStopFewer, UnitStopCount, ReleaseCount DEF Fewer, SameRest
  <1>2. /\ off.unit.refs = UnitStop(a).unit.refs /\ off.dg = a.dg
        /\ off.unit.enabled = a.unit.enabled /\ off.unit.error = a.unit.error
        /\ off.unit.state = UnitStop(a).unit.state
    BY UnitStopCount, ReleaseCount
  <1>3. GivenUp(a, Hand(UnitStop(a), FALSE, "STOPPED"))
        /\ GivenUp(a, Hand(UnitStop(a), TRUE, "STOPPED"))
    BY StopHandGivesUp
  <1>4. Fits(Hand(UnitStop(a), FALSE, "STOPPED"))
        /\ Hand(UnitStop(a), FALSE, "STOPPED") \in State
    BY <1>3, GivenUpCounted DEF Counted, GivenUp, SameRest
  <1>5. ASSUME NEW b \in State, NEW c \in BOOLEAN, b.unit.refs = UnitStop(a).unit.refs,
               b.dg = a.dg, b.unit.enabled = a.unit.enabled, b.mode = a.mode,
               b.unit.error = a.unit.error, b.unit.state = UnitStop(a).unit.state
        PROVE  Fits(Hand(b, c, "STOPPED")) /\ Hand(b, c, "STOPPED") \in State
    <2> DEFINE s == Hand(UnitStop(a), c, "STOPPED")
               e == Hand(b, c, "STOPPED")
    <2>1. GivenUp(a, s)
      BY StopHandGivesUp
    <2>2. /\ s.unit.refs = UnitStop(a).unit.refs /\ s.unit.state = UnitStop(a).unit.state
      BY <1>0, UnitStopCount, HandCount
    <2>3. /\ e \in State /\ e.dg = a.dg /\ e.mode = a.mode
          /\ e.unit.enabled = a.unit.enabled /\ e.unit.error = a.unit.error
          /\ e.unit.charge_state = "STOPPED"
          /\ e.unit.refs = UnitStop(a).unit.refs /\ e.unit.state = UnitStop(a).unit.state
      BY <1>0, <1>5, HandCount
    <2> HIDE DEF s, e
    <2>4. GivenUp(a, e)
      BY <2>1, <2>2, <2>3 DEF GivenUp, SameRest
    <2>5. Counted(e)
      BY <2>4, GivenUpCounted
    <2> QED BY <2>3, <2>5 DEF Counted, e
  <1>6. /\ Fits(Hand(off, FALSE, "STOPPED")) /\ Hand(off, FALSE, "STOPPED") \in State
    BY <1>1, <1>2, <1>5
  <1>7. /\ UnitMode(off, a.mode) \in State
        /\ UnitMode(off, a.mode).unit.refs = off.unit.refs
        /\ UnitMode(off, a.mode).dg = off.dg /\ UnitMode(off, a.mode).mode = off.mode
        /\ UnitMode(off, a.mode).unit.enabled = off.unit.enabled
        /\ UnitMode(off, a.mode).unit.error = off.unit.error
        /\ UnitMode(off, a.mode).unit.state = off.unit.state
        /\ UnitMode(off, a.mode).unit.charge_state = off.unit.charge_state
    BY <1>0, <1>1, UnitModeCount
  <1>8. /\ Fits(Hand(UnitMode(off, a.mode), TRUE, "STOPPED"))
        /\ Hand(UnitMode(off, a.mode), TRUE, "STOPPED") \in State
    <2>1. TRUE \in BOOLEAN
      OBVIOUS
    <2> HIDE DEF off
    <2> QED BY <1>1, <1>2, <1>5, <1>7, <2>1
  <1>9. Fits(UnitMode(off, a.mode))
    <2>1. Counted(off)
      BY <1>1, FewerCounted
    <2> HIDE DEF off
    <2> QED BY <1>7, <2>1 DEF Counted, Fits, Held, On
  <1>10. Fits(UnitMode(a, a.mode)) /\ UnitMode(a, a.mode) \in State
    <2>1. /\ UnitMode(a, a.mode) \in State
          /\ UnitMode(a, a.mode).unit.refs = a.unit.refs
          /\ UnitMode(a, a.mode).unit.enabled = a.unit.enabled
          /\ UnitMode(a, a.mode).unit.error = a.unit.error
          /\ UnitMode(a, a.mode).unit.state = a.unit.state
          /\ UnitMode(a, a.mode).unit.charge_state = a.unit.charge_state
      BY <1>0, UnitModeCount
    <2> QED BY <2>1 DEF Counted, Fits, Held, On
  <1>11. ASSUME a.dg.active
         PROVE  Fits(Hand(a, TRUE, "RUNNING")) /\ Hand(a, TRUE, "RUNNING") \in State
    <2> DEFINE e == Hand(a, TRUE, "RUNNING")
    <2>1. /\ e \in State /\ e.unit.refs = a.unit.refs
          /\ e.unit.enabled = a.unit.enabled /\ e.unit.error = a.unit.error
          /\ e.unit.state = a.unit.state /\ e.unit.charge_state = "RUNNING"
      BY <1>0, HandCount
    <2> HIDE DEF e
    <2>2. Fits(e)
      BY <1>11, <2>1 DEF Counted, Fits, Active, Held, On
    <2> QED BY <2>1, <2>2 DEF e
  <1>12. Fits(a)
    BY DEF Counted
  <1> HIDE DEF off
  <1>13. \/ h = Hand(off, FALSE, "STOPPED")
         \/ h = Hand(UnitMode(off, a.mode), TRUE, "STOPPED")
         \/ h = Hand(UnitStop(a), FALSE, "STOPPED")
         \/ a.dg.active /\ h = Hand(a, TRUE, "RUNNING")
         \/ h = UnitMode(off, a.mode) \/ h = UnitMode(a, a.mode) \/ h = a
    BY DEF HandBack, off
  <1> HIDE DEF h
  <1>14. Fits(h) /\ h \in State
    BY <1>4, <1>6, <1>7, <1>8, <1>9, <1>10, <1>11, <1>12, <1>13
  <1> QED BY <1>14 DEF h

LEMMA ClearCounted ==
  ASSUME NEW a \in State, Fits(a)
  PROVE  Counted(Clear(a)) /\ Clear(a) \in State
  <1>1. Clear(a) \in State
    BY DEF Clear, State, Group, DirectStates, AtRest
  <1>2. Clear(a).unit = a.unit /\ Clear(a).dg.state = "STOPPED" /\ Clear(a).dg.active = FALSE
    BY DEF Clear, State, Group
  <1> QED BY <1>1, <1>2 DEF Counted, Fits, Requested, Active, Held, On, AtRest, Taking

\* The same state of the unit and the group
LEMMA UnmarkCounted ==
  ASSUME NEW a \in State, Counted(a), NEW marks
  PROVE  Counted(Unmark(a, marks)) /\ Unmark(a, marks) \in State
  BY UnmarkCount DEF Counted, Fits, Requested, Active, Held, On

LEMMA ValvesOffCounted ==
  ASSUME NEW a \in State, Counted(a)
  PROVE  Counted(ValvesOff(a)) /\ ValvesOff(a) \in State
  BY ValvesOffClosed DEF Counted, Fits, Requested, Active, Held, On

LEMMA DirectOffCounted ==
  ASSUME NEW a \in State, Counted(a), NEW repri \in BOOLEAN
  PROVE  Counted(DirectOff(a, repri)) /\ DirectOff(a, repri) \in State
  <1> DEFINE b == ValvesOff(a)
             c == Unmark(b, Marks)
  <1>1. Counted(b) /\ b \in State
    BY ValvesOffCounted
  <1> HIDE DEF b
  <1>2. Counted(c) /\ c \in State
    BY <1>1, UnmarkCounted
  <1> HIDE DEF c
  <1>3. Fits(HandBack(c, repri)) /\ HandBack(c, repri) \in State
    BY <1>2, HandBackFits
  <1>4. Counted(Clear(HandBack(c, repri))) /\ Clear(HandBack(c, repri)) \in State
    BY <1>3, ClearCounted
  <1> QED BY <1>4 DEF DirectOff, b, c

LEMMA PumpCounted ==
  ASSUME NEW a \in State, Counted(a), NEW on \in BOOLEAN
  PROVE  Counted([a EXCEPT !.pump = on]) /\ [a EXCEPT !.pump = on] \in State
  <1> DEFINE b == [a EXCEPT !.pump = on]
  <1>1. b \in State /\ b.unit = a.unit /\ b.dg = a.dg
    BY DEF State
  <1> HIDE DEF b
  <1>2. Counted(b)
    BY <1>1 DEF Counted, Fits, Requested, Active, Held, On
  <1> QED BY <1>1, <1>2 DEF b

\* The unit has nobody left
LEMMA UnitForceStopCounted ==
  ASSUME NEW a \in State, Counted(a), NEW repri \in BOOLEAN
  PROVE  /\ Counted(UnitForceStop(a, repri)) /\ UnitForceStop(a, repri) \in State
         /\ UnitForceStop(a, repri).unit.refs = 0
         /\ UnitForceStop(a, repri).unit.charge_state = "STOPPED"
  <1> DEFINE b == IF a.unit.in_direct THEN DirectOff(a, repri) ELSE a
             c == [b EXCEPT !.pump = FALSE]
  <1>1. Counted(b) /\ b \in State
    BY DirectOffCounted
  <1> HIDE DEF b
  <1>2. Counted(c) /\ c \in State
    BY <1>1, PumpCounted
  <1> HIDE DEF c
  <1>3. Counted(StopAll(c)) /\ StopAll(c) \in State
        /\ StopAll(c).unit.refs = 0 /\ StopAll(c).unit.charge_state = "STOPPED"
    BY <1>2, StopAllCounted, StopAllCount DEF SameRest
  <1> QED BY <1>3 DEF UnitForceStop, b, c

\* A request is taken below the bound only, and by a group that is at rest.
LEMMA DirectOnCounted ==
  ASSUME NEW a, Good(a), Counted(a), a.unit.refs < MaxRefs, NEW m \in Modes, NEW fan_pump
  PROVE  Counted(DirectOn(a, m, fan_pump))
  <1> DEFINE b == DirectOn(a, m, fan_pump)
  <1>1. CASE ~a.dg.enabled \/ a.dg.active \/ (a.dg.pending /\ a.dg.state \notin AtRest)
    BY <1>1 DEF DirectOn
  <1>2. CASE ~(~a.dg.enabled \/ a.dg.active \/ (a.dg.pending /\ a.dg.state \notin AtRest))
    <2>1. /\ b.unit.refs = a.unit.refs /\ b.dg.active = a.dg.active
          /\ b.unit.charge_state = a.unit.charge_state /\ b.unit.state = a.unit.state
      BY <1>2 DEF DirectOn, Good, State, Group, Unit
    <2>2. ~a.dg.active
      BY <1>2
    <2>3. a.unit.refs \in Nat /\ MaxRefs \in Nat
      BY UnitFields, MaxRefsAssumption DEF Good
    <2> HIDE DEF b
    <2>4. Counted(b)
      BY <2>1, <2>2, <2>3 DEF Counted, Fits, Requested, Active
    <2> QED BY <2>4 DEF b
  <1> QED BY <1>1, <1>2

-----------------------------------------------------------------------------
(* The states of the group, and the count                                  *)

\* Going on does not ask more of the count unless it goes to START_UNIT
LEMMA ToCounted ==
  ASSUME NEW a \in State, Counted(a), NEW s \in DirectStates,
         a.dg.state \notin AtRest,
         s \in Taking \cup {"START_UNIT"} => a.unit.refs <= MaxRefs,
         a.dg.active => s \in AtRest \cup Closing
  PROVE  Counted(To(a, s)) /\ To(a, s) \in State
  <1>1. To(a, s) \in State
    BY DEF To, State, Group
  <1>2. /\ To(a, s).unit = a.unit /\ To(a, s).dg.state = s
        /\ To(a, s).dg.active = a.dg.active
    BY DEF To, State, Group
  <1>3. a.unit.refs \in Nat /\ MaxRefs \in Nat /\ a.unit.refs <= MaxRefs + 1
    BY UnitFields, MaxRefsAssumption DEF Counted, Requested
  <1> HIDE DEF To
  <1>4. Fits(To(a, s))
    BY <1>2 DEF Counted, Fits, Held, On
  <1>5. Requested(To(a, s))
    BY <1>2, <1>3 DEF Requested
  <1>6. Active(To(a, s))
    BY <1>2, <1>3 DEF Counted, Active, Held, On
  <1> QED BY <1>1, <1>4, <1>5, <1>6 DEF Counted

LEMMA FailCounted ==
  ASSUME NEW a \in State, Counted(a), NEW marks, a.dg.state \notin AtRest
  PROVE  Counted(Fail(a, marks)) /\ Fail(a, marks) \in State
  <1> DEFINE b == Unmark(a, marks)
  <1>1. Counted(b) /\ b \in State /\ b.dg = a.dg
    BY UnmarkCounted, UnmarkCount
  <1> HIDE DEF b
  <1>2. Counted(To(b, "ERROR")) /\ To(b, "ERROR") \in State
    BY <1>1, ToCounted DEF AtRest, Taking, Proving, Closing, DirectStates
  <1> QED BY <1>2 DEF Fail, b

LEMMA FailOffCounted ==
  ASSUME NEW a \in State, Counted(a), NEW marks, a.dg.state \notin AtRest
  PROVE  Counted(Fail(ValvesOff(a), marks)) /\ Fail(ValvesOff(a), marks) \in State
  BY ValvesOffCounted, ValvesOffClosed, FailCounted

LEMMA UnitStopCounted ==
  ASSUME NEW a \in State, Counted(a)
  PROVE  Counted(UnitStop(a)) /\ UnitStop(a) \in State /\ UnitStop(a).dg = a.dg
  BY UnitStopFewer, FewerCounted DEF Fewer, SameRest

\* A unit that is taken over is counted no further, whatever charging thought
LEMMA PrepareUnitCounted ==
  ASSUME NEW a, Good(a), Counted(a), a.dg.state = "PREPARE_UNIT", NEW d
  PROVE  Counted(PrepareUnit(a, d))
  <1> DEFINE b == IF a.unit.state \in {"STOPPED", "RUNNING"} THEN a
                  ELSE Hand(a, FALSE, "STOPPED")
             c == UnitMode(b, a.dg.target)
             e == [c EXCEPT !.unit.in_direct = TRUE, !.unit.in_direct_pending = FALSE]
             next == CASE a.unit.state = "RUNNING" -> "CONFIRM_FLOW"
                       [] a.unit.state = "STOPPED" -> "START_UNIT"
                       [] OTHER -> "WAIT_UNIT"
  <1>0. /\ a \in State /\ a.dg.target \in Modes /\ ~a.dg.active /\ a.unit.refs <= MaxRefs
        /\ a.unit.refs \in Nat /\ MaxRefs \in Nat
    BY UnitFields, MaxRefsAssumption
       DEF Good, Marked, Counted, Requested, Active, AtRest, Taking, Closing
  <1>1. /\ b \in State /\ b.dg = a.dg /\ b.unit.refs = a.unit.refs
    BY <1>0, HandCount DEF ChargeStates
  <1> HIDE DEF b
  <1>2. /\ c \in State /\ c.dg = a.dg /\ c.unit.refs = a.unit.refs
    BY <1>0, <1>1, UnitModeCount
  <1> HIDE DEF c
  <1>3. /\ e \in State /\ e.dg = a.dg /\ e.unit.refs = a.unit.refs
    BY <1>2 DEF State, Unit
  <1> HIDE DEF e
  <1>4. \A x \in State : x.dg = a.dg /\ x.unit.refs = a.unit.refs => Counted(x)
    BY <1>0 DEF Counted, Fits, Requested, Active, AtRest
  <1>5. Counted(b) /\ Counted(e)
    BY <1>1, <1>3, <1>4
  <1>6. next \in DirectStates
    BY DEF DirectStates, Proving
  <1> HIDE DEF next
  <1>7. Counted(To(e, next))
    BY <1>0, <1>3, <1>5, <1>6, ToCounted DEF AtRest
  <1>8. Counted(To(a, "STOP_UNIT"))
    BY <1>0, ToCounted DEF AtRest, DirectStates, Taking
  <1>9. Counted(Fail(b, {"in_direct_pending"}))
    BY <1>1, <1>5, FailCounted DEF AtRest
  <1> QED BY <1>7, <1>8, <1>9 DEF PrepareUnit, b, c, e, next

\* Direct mode counts the unit
LEMMA StartUnitCounted ==
  ASSUME NEW a \in State, Counted(a), a.dg.state = "START_UNIT"
  PROVE  Counted(StartUnit(a))
  <1> DEFINE b == UnitStart(a)
             c == To(b, "WAIT_UNIT")
  <1>1. /\ a.unit.refs \in Nat /\ MaxRefs \in Nat /\ a.unit.refs <= MaxRefs
        /\ ~a.dg.active
    BY UnitFields, MaxRefsAssumption DEF Counted, Requested, Active, AtRest, Closing
  <1>2. Counted(Fail(ValvesOff(a), Marks))
    BY FailOffCounted DEF AtRest
  <1>3. b \in State /\ b.unit.refs = a.unit.refs + 1 /\ b.dg = a.dg
    BY DEF UnitStart, State, Unit
  <1> HIDE DEF b
  <1>4. /\ c.unit = b.unit /\ c.dg.state = "WAIT_UNIT" /\ ~c.dg.active
    BY <1>1, <1>3 DEF To, State, Group
  <1> HIDE DEF c
  <1>5. Counted(c)
    BY <1>1, <1>3, <1>4 DEF Counted, Fits, Requested, Active, Taking
  <1> QED BY <1>2, <1>5 DEF StartUnit, b, c

LEMMA WaitUnitCounted ==
  ASSUME NEW a \in State, Counted(a), a.dg.state = "WAIT_UNIT", NEW d
  PROVE  Counted(WaitUnit(a, d))
  <1>1. Counted(Clear(UnitStop(Unmark(a, Marks))))
    <2>1. Counted(Unmark(a, Marks)) /\ Unmark(a, Marks) \in State
      BY UnmarkCounted
    <2>2. Counted(UnitStop(Unmark(a, Marks))) /\ UnitStop(Unmark(a, Marks)) \in State
      BY <2>1, UnitStopCounted
    <2> QED BY <2>2, ClearCounted DEF Counted
  <1>2. Counted(To(a, "CONFIRM_FLOW"))
    BY ToCounted DEF Counted, Active, AtRest, Taking, Proving, Closing, DirectStates
  <1>3. Counted(Fail(a, Marks))
    BY FailCounted DEF AtRest
  <1> QED BY <1>1, <1>2, <1>3 DEF WaitUnit

LEMMA ConfirmFlowCounted ==
  ASSUME NEW a \in State, Counted(a), a.dg.state = "CONFIRM_FLOW", NEW d
  PROVE  Counted(ConfirmFlow(a, d))
  <1> DEFINE b == [a EXCEPT !.dg.confirmed = TRUE]
  <1>1. /\ b \in State /\ b.unit = a.unit /\ b.dg.state = a.dg.state
        /\ b.dg.active = a.dg.active
    BY DEF State, Group
  <1> HIDE DEF b
  <1>2. Counted(b)
    BY <1>1 DEF Counted, Fits, Requested, Active, Held, On
  <1>3. Counted(To(b, "ACTIVATE_VALVE"))
    BY <1>1, <1>2, ToCounted DEF Counted, Active, AtRest, Taking, Proving, Closing, DirectStates
  <1>4. Counted(Fail(a, Marks))
    BY FailCounted DEF AtRest
  <1>5. Counted(Fail(UnitStop(a), Marks))
    BY UnitStopCounted, FailCounted DEF AtRest
  <1> QED BY <1>3, <1>4, <1>5 DEF ConfirmFlow, b

\* The loop opens for a unit that runs
LEMMA ActivateValveCounted ==
  ASSUME NEW a \in State, Counted(a), a.dg.state = "ACTIVATE_VALVE", NEW d
  PROVE  Counted(ActivateValve(a, d))
  <1> DEFINE b == [a EXCEPT !.valve1 = TRUE, !.dg.active = TRUE]
  <1>1. Counted(Fail(a, Marks))
    BY FailCounted DEF AtRest
  <1>2. ASSUME a.unit.state = "RUNNING"
        PROVE  Counted(To(b, "RUNNING_OPEN"))
    <2>1. b.unit = a.unit /\ b \in State
      BY DEF State, Group
    <2> HIDE DEF b
    <2>2. /\ To(b, "RUNNING_OPEN").unit = a.unit
          /\ To(b, "RUNNING_OPEN").dg.state = "RUNNING_OPEN"
      BY <2>1 DEF To, State, Group
    <2>3. a.unit.refs \in Nat /\ MaxRefs \in Nat /\ a.unit.refs <= MaxRefs + 1
      BY UnitFields, MaxRefsAssumption DEF Counted, Requested, AtRest
    <2> HIDE DEF To
    <2>4. Fits(To(b, "RUNNING_OPEN")) /\ Requested(To(b, "RUNNING_OPEN"))
      BY <2>2, <2>3 DEF Counted, Fits, Requested, Held, On, Taking
    <2>5. Active(To(b, "RUNNING_OPEN"))
      BY <1>2, <2>2 DEF Active, On, Closing
    <2> QED BY <2>4, <2>5 DEF Counted
  <1> QED BY <1>1, <1>2 DEF ActivateValve

LEMMA WatchCounted ==
  ASSUME NEW a \in State, Counted(a), a.dg.state \in {"RUNNING_OPEN", "RUNNING"},
         NEW d \in Readings
  PROVE  Counted(Watch(a, d))
  <1>1. Counted(DirectOff(a, d.repri))
    BY DirectOffCounted DEF Readings
  <1>2. Counted(To(a, "ACTIVATE_PIN2"))
    BY ToCounted DEF AtRest, Taking, Closing, DirectStates
  <1> QED BY <1>1, <1>2 DEF Watch

LEMMA ActivatePin2Counted ==
  ASSUME NEW a \in State, Counted(a), a.dg.state = "ACTIVATE_PIN2", NEW d
  PROVE  Counted(ActivatePin2(a, d))
  <1> DEFINE b == [a EXCEPT !.valve2 = TRUE]
  <1>1. b \in State /\ b.unit = a.unit /\ b.dg = a.dg
    BY DEF State
  <1> HIDE DEF b
  <1>2. Counted(b)
    BY <1>1 DEF Counted, Fits, Requested, Active, Held, On
  <1>3. Counted(To(b, "START_PRIMER"))
    BY <1>1, <1>2, ToCounted DEF AtRest, Taking, Closing, DirectStates
  <1>4. Counted(Fail(ValvesOff(a), Marks))
    BY FailOffCounted DEF AtRest
  <1> QED BY <1>3, <1>4 DEF ActivatePin2, b

LEMMA LaterCounted ==
  ASSUME NEW a \in State, Counted(a), NEW d,
         a.dg.state \in {"START_PRIMER", "WAIT_PRIMER", "WAIT_WATER_TEMP"}
  PROVE  /\ Counted(StartPrimer(a)) /\ Counted(WaitPrimer(a, d))
         /\ Counted(WaitWaterTemp(a, d))
  <1>1. /\ Counted(Fail(ValvesOff(a), Marks)) /\ Counted(Fail(ValvesOff(a), {"in_direct"}))
    BY FailOffCounted DEF AtRest
  <1>2. /\ Counted(To(a, "WAIT_PRIMER")) /\ Counted(To(a, "WAIT_WATER_TEMP"))
        /\ Counted(To(a, "RUNNING"))
    BY ToCounted DEF AtRest, Taking, Closing, DirectStates
  <1> QED BY <1>1, <1>2 DEF StartPrimer, WaitPrimer, WaitWaterTemp

LEMMA TakingCounted ==
  ASSUME NEW a \in State, Counted(a), a.dg.state \in Taking, NEW d
  PROVE  /\ Counted(To(a, "WAIT_FAN_PUMP")) /\ Counted(WaitFanPump(a, d))
         /\ Counted(To(UnitStop(a), "WAIT_UNIT_STOP")) /\ Counted(WaitUnitStop(a))
  <1>1. a.unit.refs <= MaxRefs /\ ~a.dg.active /\ a.dg.state \notin AtRest
    BY DEF Counted, Requested, Active, AtRest, Taking, Closing
  <1>2. \A s \in Taking : Counted(To(a, s))
    BY <1>1, ToCounted DEF DirectStates
  <1>3. Counted(To(UnitStop(a), "WAIT_UNIT_STOP"))
    <2> DEFINE b == UnitStop(a)
    <2>1. Counted(b) /\ b \in State /\ b.dg = a.dg
      BY UnitStopCounted
    <2> HIDE DEF b
    <2>2. b.unit.refs <= MaxRefs /\ ~b.dg.active
      BY <1>1, <2>1 DEF Counted, Requested
    <2>3. Counted(To(b, "WAIT_UNIT_STOP"))
      BY <1>1, <2>1, <2>2, ToCounted DEF Taking, DirectStates
    <2> QED BY <2>3 DEF b
  <1>4. Counted(Fail(a, {"in_direct_pending"}))
    BY <1>1, FailCounted
  <1> QED BY <1>2, <1>3, <1>4 DEF WaitFanPump, WaitUnitStop, Taking

LEMMA DirectMainCounted ==
  ASSUME NEW a, Good(a), Counted(a), NEW d \in Readings
  PROVE  Counted(DirectMain(a, d))
  <1>0. a \in State /\ a.dg.state \in DirectStates
    BY UnitFields DEF Good
  <1>1. CASE a.dg.state \in {"STOP_FAN_PUMP", "WAIT_FAN_PUMP", "STOP_UNIT", "WAIT_UNIT_STOP"}
    BY <1>0, <1>1, TakingCounted DEF DirectMain, DirectProcess, Taking
  <1>2. CASE a.dg.state = "PREPARE_UNIT"
    BY <1>2, PrepareUnitCounted DEF DirectMain, DirectProcess
  <1>3. CASE a.dg.state = "START_UNIT"
    BY <1>0, <1>3, StartUnitCounted DEF DirectMain, DirectProcess
  <1>4. CASE a.dg.state = "WAIT_UNIT"
    BY <1>0, <1>4, WaitUnitCounted DEF DirectMain, DirectProcess
  <1>5. CASE a.dg.state = "CONFIRM_FLOW"
    BY <1>0, <1>5, ConfirmFlowCounted DEF DirectMain, DirectProcess
  <1>6. CASE a.dg.state = "ACTIVATE_VALVE"
    BY <1>0, <1>6, ActivateValveCounted DEF DirectMain, DirectProcess
  <1>7. CASE a.dg.state \in {"RUNNING_OPEN", "RUNNING"}
    BY <1>0, <1>7, WatchCounted DEF DirectMain, DirectProcess
  <1>8. CASE a.dg.state = "ACTIVATE_PIN2"
    BY <1>0, <1>8, ActivatePin2Counted DEF DirectMain, DirectProcess
  <1>9. CASE a.dg.state \in {"START_PRIMER", "WAIT_PRIMER", "WAIT_WATER_TEMP"}
    BY <1>0, <1>9, LaterCounted DEF DirectMain, DirectProcess
  <1>10. CASE a.dg.state \in AtRest
    BY <1>10 DEF DirectMain, DirectProcess, AtRest
  <1> QED BY <1>0, <1>1, <1>2, <1>3, <1>4, <1>5, <1>6, <1>7, <1>8, <1>9, <1>10
          DEF DirectStates, AtRest, Taking, Proving, Closing

-----------------------------------------------------------------------------
(* Charging, and the count                                                 *)

LEMMA ChargeStopCounted ==
  ASSUME NEW a \in State, Counted(a)
  PROVE  Counted(ChargeStop(a))
  BY StopHandGivesUp, GivenUpCounted DEF ChargeStop

\* Charging stays with a unit that runs, and finds out when it has stopped
LEMMA ChargeRunningCounted ==
  ASSUME NEW a \in State, Counted(a), a.unit.charge_state # "STOPPED",
         a.unit.charge_state = "RUNNING" \/ On(a), NEW d
  PROVE  Counted(ChargeRunning(a, d))
  <1> DEFINE s == IF a.unit.state = "STOPPED" THEN "STOPPED" ELSE "RUNNING"
             b == Hand(a, a.unit.charging, s)
  <1>1. a.unit.charging \in BOOLEAN /\ s \in ChargeStates
    BY DEF State, Unit, ChargeStates
  <1>2. /\ b.dg = a.dg /\ b.unit.enabled = a.unit.enabled /\ b.unit.error = a.unit.error
        /\ b.unit.state = a.unit.state /\ b.unit.charge_state = s
        /\ b.unit.refs = a.unit.refs
    BY <1>1, HandCount
  <1>3. a.unit.refs \in Nat /\ MaxRefs \in Nat
    BY UnitFields, MaxRefsAssumption
  <1> HIDE DEF b
  <1>4. CASE a.unit.state = "STOPPED"
    <2>1. ~On(a) /\ s = "STOPPED" /\ a.unit.charge_state = "RUNNING"
      BY <1>4 DEF On
    <2>2. ~a.dg.active /\ a.unit.refs <= MaxRefs + 1
      BY <1>3, <2>1 DEF Counted, Fits, Active
    <2>3. Counted(b)
      BY <1>2, <1>3, <2>1, <2>2 DEF Counted, Fits, Requested, Active
    <2> QED BY <2>3, ChargeStopCounted DEF ChargeRunning, b
  <1>5. CASE a.unit.state # "STOPPED"
    <2>1. s = "RUNNING"
      BY <1>5
    <2>2. Counted(b)
      BY <1>2, <1>3, <2>1 DEF Counted, Fits, Requested, Active, Held, On
    <2> QED BY <2>2, ChargeStopCounted DEF ChargeRunning, b
  <1> QED BY <1>4, <1>5

LEMMA ChargeWaitStartCounted ==
  ASSUME NEW a \in State, Counted(a), a.unit.charge_state = "WAIT_START", NEW d
  PROVE  Counted(ChargeWaitStart(a, d))
  <1> DEFINE s == IF d.water = "reached" THEN "STOP" ELSE "WAIT_START"
             b == Hand(a, a.unit.charging, s)
  <1>1. a.unit.charging \in BOOLEAN /\ s \in ChargeStates /\ s # "STOPPED" /\ s # "RUNNING"
    BY DEF State, Unit, ChargeStates
  <1>2. /\ b.dg = a.dg /\ b.unit.enabled = a.unit.enabled /\ b.unit.error = a.unit.error
        /\ b.unit.state = a.unit.state /\ b.unit.charge_state = s
        /\ b.unit.refs = a.unit.refs
    BY <1>1, HandCount
  <1> HIDE DEF b, s
  <1>3. Counted(b)
    BY <1>1, <1>2 DEF Counted, Fits, Requested, Active, Held, On
  <1>4. ASSUME a.unit.state = "RUNNING"
        PROVE  Counted(ChargeRunning(a, d))
    BY <1>4, ChargeRunningCounted DEF On
  <1> QED BY <1>3, <1>4 DEF ChargeWaitStart, b, s

\* Charging counts the unit when it holds nothing of it as yet
LEMMA ChargeStartCounted ==
  ASSUME NEW a \in State, Counted(a), NEW d, a.dg.state \in AtRest,
         a.unit.enabled, ~a.unit.error, a.unit.charge_state = "STOPPED"
  PROVE  Counted(ChargeWaitStart(Hand(UnitStart(a), TRUE, "WAIT_START"), d))
  <1> DEFINE b == UnitStart(a)
             c == Hand(b, TRUE, "WAIT_START")
  <1>1. a.unit.refs \in Nat /\ MaxRefs \in Nat
    BY UnitFields, MaxRefsAssumption
  <1>2. /\ b \in State /\ b.dg = a.dg /\ b.unit.enabled = a.unit.enabled
        /\ b.unit.error = a.unit.error /\ b.unit.state = a.unit.state
        /\ b.unit.refs = a.unit.refs + 1
    <2>1. b \in State
      BY UnitStartKeeps DEF SameGroup
    <2>2. a.unit \in Unit
      BY DEF State
    <2> QED BY <2>1, <2>2 DEF UnitStart, State, Unit
  <1> HIDE DEF b
  <1>3. /\ c \in State /\ c.dg = a.dg /\ c.unit.enabled = a.unit.enabled
        /\ c.unit.error = a.unit.error /\ c.unit.state = a.unit.state
        /\ c.unit.refs = a.unit.refs + 1 /\ c.unit.charge_state = "WAIT_START"
    BY <1>2, HandCount DEF ChargeStates
  <1> HIDE DEF c
  <1>4. ~Held(a) /\ Held(c) /\ (On(c) <=> On(a))
    BY <1>3 DEF Held, On
  <1>5. a.unit.refs <= MaxRefs + 1
    BY <1>1, <1>4 DEF Counted, Fits
  <1>6. a.dg.active /\ ~On(a) => a.unit.refs <= MaxRefs
    BY <1>1, <1>4 DEF Counted, Active
  <1>7. Fits(c)
    BY <1>1, <1>3, <1>4, <1>5 DEF Fits
  <1>8. Requested(c)
    BY <1>3 DEF Requested, AtRest, Taking
  <1>9. Active(c)
    BY <1>1, <1>3, <1>4, <1>5, <1>6 DEF Active
  <1>10. Counted(c)
    BY <1>7, <1>8, <1>9 DEF Counted
  <1> QED BY <1>3, <1>10, ChargeWaitStartCounted DEF b, c

\* Charging lets go of a unit it may not use
LEMMA ChargeLetsGoCounted ==
  ASSUME NEW a \in State, Good(a), Counted(a),
         a.unit.in_direct \/ a.unit.in_direct_pending \/ ~a.unit.enabled \/ a.unit.error
  PROVE  Counted(Hand(a, FALSE, "STOPPED"))
  <1> DEFINE b == Hand(a, FALSE, "STOPPED")
  <1>1. a.unit.refs \in Nat /\ MaxRefs \in Nat
    BY UnitFields, MaxRefsAssumption
  <1>2. /\ b.dg = a.dg /\ b.unit.enabled = a.unit.enabled /\ b.unit.error = a.unit.error
        /\ b.unit.state = a.unit.state /\ b.unit.charge_state = "STOPPED"
        /\ b.unit.refs = a.unit.refs
    BY HandCount DEF ChargeStates
  <1> HIDE DEF b
  <1>3. On(b) <=> On(a)
    BY <1>2 DEF On
  <1>4. Requested(b)
    BY <1>2 DEF Counted, Requested
  <1>5. CASE a.dg.state \notin AtRest
    <2>1. a.unit.refs <= MaxRefs + 1
      BY <1>5 DEF Counted, Requested
    <2>2. Fits(b)
      BY <1>1, <1>2, <2>1 DEF Fits
    <2>3. Active(b)
      BY <1>1, <1>2, <1>3, <1>5, <2>1 DEF Counted, Active
    <2> QED BY <1>4, <2>2, <2>3 DEF Counted, b
  <1>6. CASE a.dg.state \in AtRest
    <2>1. ~a.unit.in_direct /\ ~a.unit.in_direct_pending
      BY <1>6 DEF Good, Marked
    <2>2. Held(a) => Held(b)
      BY <1>2, <2>1 DEF Held
    <2>3. Fits(b)
      BY <1>1, <1>2, <1>3, <2>2 DEF Counted, Fits
    <2>4. Active(b)
      BY <1>1, <1>2, <1>3, <2>2 DEF Counted, Active
    <2> QED BY <1>4, <2>3, <2>4 DEF Counted, b
  <1> QED BY <1>5, <1>6 DEF b

LEMMA ChargeMainCounted ==
  ASSUME NEW a, Good(a), Counted(a), NEW d
  PROVE  Counted(ChargeMain(a, d))
  <1>0. a \in State /\ a.unit.charge_state \in ChargeStates
    BY UnitFields DEF Good
  <1>1. CASE d.water = "invalid"
    BY <1>1 DEF ChargeMain
  <1> DEFINE kept == a.unit.in_direct \/ a.unit.in_direct_pending
                     \/ ~a.unit.enabled \/ a.unit.error
  <1>2. CASE d.water # "invalid" /\ kept
    BY <1>0, <1>2, ChargeLetsGoCounted DEF ChargeMain
  <1>3. CASE d.water # "invalid" /\ ~kept
    <2>1. a.dg.state \in AtRest
      BY <1>0, <1>3, UnitFields DEF Good, Marked, DirectStates
    <2>2. CASE a.unit.charge_state = "STOPPED"
      <3>1. Counted(ChargeWaitStart(Hand(UnitStart(a), TRUE, "WAIT_START"), d))
        BY <1>0, <1>3, <2>1, <2>2, ChargeStartCounted
      <3> QED BY <1>3, <2>2, <3>1 DEF ChargeMain
    <2>3. CASE a.unit.charge_state = "WAIT_START"
      BY <1>0, <1>3, <2>3, ChargeWaitStartCounted DEF ChargeMain
    <2>4. CASE a.unit.charge_state = "RUNNING"
      BY <1>0, <1>3, <2>4, ChargeRunningCounted DEF ChargeMain
    <2>5. CASE a.unit.charge_state = "STOP"
      BY <1>0, <1>3, <2>5, ChargeStopCounted DEF ChargeMain
    <2> QED BY <1>0, <2>2, <2>3, <2>4, <2>5 DEF ChargeStates
  <1> QED BY <1>1, <1>2, <1>3

-----------------------------------------------------------------------------
(* The steps, and the count                                                *)

LEMMA ReadMainCounted ==
  ASSUME Good(ac), Counted(ac), NEW d \in Readings, ReadMain(d)
  PROVE  Counted(ac')
  BY DirectMainGood, DirectMainCounted, ChargeMainCounted DEF ReadMain

\* The unit's turn counts nobody, and leaves RUNNING and ERROR only to stop for all
LEMMA UnitTurnCounted ==
  ASSUME NEW a \in State, Counted(a), NEW repri \in BOOLEAN, NEW b \in UnitTurn(a, repri)
  PROVE  Counted(b)
  <1> DEFINE At(state) == [a EXCEPT !.unit.state = state]
             stopped == UnitForceStop(a, repri)
             failed == [stopped EXCEPT !.unit.enabled = FALSE, !.unit.error = TRUE]
             granted == [At("STARTING") EXCEPT !.unit.granted = TRUE]
             runs == [At("RUNNING") EXCEPT
                       !.unit.mode = IF a.unit.in_direct THEN @ ELSE a.mode]
  <1>0. a.unit.state \in UnitStates /\ a.unit \in Unit
    BY UnitFields DEF State
  <1>1. ASSUME NEW x, x.dg = a.dg, x.unit.enabled = a.unit.enabled,
               x.unit.error = a.unit.error, x.unit.charge_state = a.unit.charge_state,
               x.unit.refs = a.unit.refs, On(a) => On(x)
        PROVE  Counted(x)
    BY <1>1 DEF Counted, Fits, Requested, Active, Held
  <1>2. ASSUME NEW s \in UnitStates, On(a) => s \in {"RUNNING", "ERROR"}
        PROVE  Counted(At(s))
    <2>1. /\ At(s).dg = a.dg /\ At(s).unit.enabled = a.unit.enabled
          /\ At(s).unit.error = a.unit.error
          /\ At(s).unit.charge_state = a.unit.charge_state
          /\ At(s).unit.refs = a.unit.refs /\ At(s).unit.state = s
      BY <1>0 DEF State, Unit
    <2>2. On(a) => On(At(s))
      BY <1>2, <2>1 DEF On
    <2> HIDE DEF At
    <2> QED BY <1>1, <2>1, <2>2
  <1>3. ASSUME a.unit.state = "RELEASE"
        PROVE  Counted(Release(At("STOPPED")))
    <2>1. At("STOPPED") \in State
      BY <1>0 DEF State, Unit, UnitStates
    <2>2. Counted(At("STOPPED"))
      BY <1>2, <1>3 DEF On, UnitStates
    <2> HIDE DEF At
    <2> QED BY <2>1, <2>2, ReleaseCount DEF Counted, Fits, Requested, Active, Held, On
  <1>4. Counted(stopped) /\ stopped \in State /\ stopped.unit.refs = 0
        /\ stopped.unit.charge_state = "STOPPED"
    BY UnitForceStopCounted
  <1>5. Counted(failed)
    <2> HIDE DEF stopped
    <2>1. /\ failed.dg = stopped.dg /\ failed.unit.refs = 0
          /\ failed.unit.charge_state = "STOPPED"
      BY <1>4 DEF State, Unit
    <2> HIDE DEF failed
    <2>2. MaxRefs \in Nat
      BY MaxRefsAssumption
    <2> QED BY <1>4, <2>1, <2>2 DEF Counted, Fits, Requested, Active
  <1>6. ASSUME a.unit.state = "RESERVE"
        PROVE  Counted(granted)
    <2>1. /\ granted.dg = a.dg /\ granted.unit.enabled = a.unit.enabled
          /\ granted.unit.error = a.unit.error
          /\ granted.unit.charge_state = a.unit.charge_state
          /\ granted.unit.refs = a.unit.refs
      BY <1>0 DEF State, Unit
    <2>2. ~On(a)
      BY <1>6 DEF On
    <2> HIDE DEF granted
    <2> QED BY <1>1, <2>1, <2>2
  <1>7. Counted(runs)
    <2>1. /\ runs.dg = a.dg /\ runs.unit.enabled = a.unit.enabled
          /\ runs.unit.error = a.unit.error
          /\ runs.unit.charge_state = a.unit.charge_state
          /\ runs.unit.refs = a.unit.refs /\ runs.unit.state = "RUNNING"
      BY <1>0 DEF State, Unit
    <2>2. On(runs)
      BY <2>1 DEF On
    <2> HIDE DEF runs
    <2> QED BY <1>1, <2>1, <2>2
  <1>8. Counted(StopAll(a))
    BY StopAllCounted
  <1>9. CASE a.unit.state = "RELEASE"
    BY <1>3, <1>9 DEF UnitTurn
  <1>10. CASE a.unit.state = "ERROR"
    BY <1>5, <1>10 DEF UnitTurn
  <1>11. CASE /\ a.unit.state \notin {"RELEASE", "ERROR"}
              /\ a.unit.error \/ ~a.unit.enabled \/ a.unit.refs = 0
    BY <1>11 DEF UnitTurn
  <1>12. CASE /\ a.unit.state \notin {"RELEASE", "ERROR"}
              /\ ~(a.unit.error \/ ~a.unit.enabled \/ a.unit.refs = 0)
    <2>1. CASE a.unit.state = "STOPPED"
      <3>1. b = At("RESERVE")
        BY <1>12, <2>1 DEF UnitTurn
      <3> QED BY <1>2, <2>1, <3>1 DEF On, UnitStates
    <2>2. CASE a.unit.state = "RESERVE"
      <3>1. b = a \/ b = granted
        BY <1>12, <2>2 DEF UnitTurn
      <3> QED BY <1>6, <2>2, <3>1
    <2>3. CASE a.unit.state = "STARTING"
      <3>1. b \in {a, At("RELEASE"), At("ERROR"), runs}
        BY <1>12, <2>3 DEF UnitTurn
      <3>2. Counted(At("RELEASE")) /\ Counted(At("ERROR"))
        BY <1>2, <2>3 DEF On, UnitStates
      <3> QED BY <1>7, <3>1, <3>2
    <2>4. CASE a.unit.state = "RUNNING"
      <3>1. b \in {a, At("ERROR"), StopAll(a), stopped}
        BY <1>12, <2>4 DEF UnitTurn
      <3>2. Counted(At("ERROR"))
        BY <1>2 DEF UnitStates
      <3> QED BY <1>4, <1>8, <3>1, <3>2
    <2> QED BY <1>0, <1>12, <2>1, <2>2, <2>3, <2>4 DEF UnitStates
  <1> QED BY <1>9, <1>10, <1>11, <1>12

LEMMA DirectCounted ==
  ASSUME Good(ac), Counted(ac), NEW repri \in BOOLEAN, Direct(repri)
  PROVE  Counted(ac')
  <1>0. ac \in State
    BY DEF Good
  <1>1. Counted(DirectOff(ac, repri)) /\ DirectOff(ac, repri) \in State
    BY <1>0, DirectOffCounted
  <1>2. ASSUME NEW a \in State, Counted(a), NEW on \in BOOLEAN
        PROVE  Counted([a EXCEPT !.dg.enabled = on])
    <2>1. /\ [a EXCEPT !.dg.enabled = on].unit = a.unit
          /\ [a EXCEPT !.dg.enabled = on].dg.state = a.dg.state
          /\ [a EXCEPT !.dg.enabled = on].dg.active = a.dg.active
      BY DEF State, Group
    <2> QED BY <1>2, <2>1 DEF Counted, Fits, Requested, Active, Held, On
  <1>3. CASE \E m \in Modes, fan_pump \in {"STOPPED", "busy"} :
               ac.unit.refs < MaxRefs /\ ac' = DirectOn(ac, m, fan_pump)
    BY <1>3, DirectOnCounted
  <1>4. CASE ac' = DirectOff(ac, repri)
    BY <1>1, <1>4
  <1>5. CASE ac' = [DirectOff(ac, repri) EXCEPT !.dg.enabled = FALSE]
    BY <1>1, <1>2, <1>5
  <1>6. CASE ac' = [ac EXCEPT !.dg.enabled = TRUE]
    BY <1>0, <1>2, <1>6
  <1> QED BY <1>3, <1>4, <1>5, <1>6 DEF Direct

LEMMA UnitRevokeCounted ==
  ASSUME NEW a \in State, Counted(a), NEW repri \in BOOLEAN, NEW immediate \in BOOLEAN
  PROVE  Counted(UnitRevoke(a, repri, immediate))
  <1> DEFINE b == IF a.unit.in_direct THEN DirectOff(a, repri) ELSE a
  <1>1. Counted(b) /\ b \in State
    BY DirectOffCounted
  <1> HIDE DEF b
  <1>2. Counted(UnitForceStop(b, repri)) /\ Counted(StopAll(b))
    BY <1>1, UnitForceStopCounted, StopAllCounted
  <1> QED BY <1>2 DEF UnitRevoke, b

\* Whoever adds to the count, or gives charging a unit it may have counted, does
\* so below the bound
LEMMA BelowCounted ==
  ASSUME NEW a \in State, Counted(a), a.unit.refs < MaxRefs, NEW b,
         b.dg = a.dg, b.unit.refs \in {a.unit.refs, a.unit.refs + 1},
         b.unit.state = a.unit.state,
         b.unit.charge_state \in {a.unit.charge_state, "STOPPED"}
  PROVE  Counted(b)
  <1>1. a.unit.refs \in Nat /\ MaxRefs \in Nat
    BY UnitFields, MaxRefsAssumption
  <1>2. b.unit.refs \in Nat /\ b.unit.refs <= MaxRefs
    BY <1>1
  <1>3. On(b) <=> On(a)
    BY DEF On
  <1>4. Fits(b) /\ Requested(b)
    BY <1>1, <1>2 DEF Fits, Requested
  <1>5. Active(b)
    <2>1. b.unit.charge_state = "RUNNING" => a.unit.charge_state = "RUNNING"
      OBVIOUS
    <2> QED BY <1>1, <1>2, <1>3, <2>1 DEF Counted, Active
  <1> QED BY <1>4, <1>5 DEF Counted

LEMMA UnitFunctionCounted ==
  ASSUME Good(ac), Counted(ac), NEW repri \in BOOLEAN, UnitFunction(repri)
  PROVE  Counted(ac')
  <1>0. ac \in State /\ ac.unit \in Unit /\ ac.unit.refs \in Nat /\ MaxRefs \in Nat
    BY UnitFields, MaxRefsAssumption DEF Good, State
  <1>1. CASE ac.unit.refs < MaxRefs /\ ac' = UnitStart(ac)
    <2> DEFINE b == UnitStart(ac)
    <2>1. /\ b.dg = ac.dg /\ b.unit.refs = ac.unit.refs + 1
          /\ b.unit.state = ac.unit.state /\ b.unit.charge_state = ac.unit.charge_state
      BY <1>0 DEF UnitStart, State, Unit
    <2> HIDE DEF b
    <2>2. Counted(b)
      BY <1>0, <1>1, <2>1, BelowCounted
    <2> QED BY <1>1, <2>2 DEF b
  <1>2. CASE ac' = UnitStop(ac)
    BY <1>0, <1>2, UnitStopCounted
  <1>3. CASE ac' = UnitForceStop(ac, repri)
    BY <1>0, <1>3, UnitForceStopCounted
  <1>4. CASE \E immediate \in BOOLEAN : ac' = UnitRevoke(ac, repri, immediate)
    BY <1>0, <1>4, UnitRevokeCounted
  <1>5. CASE ac' = [ac EXCEPT !.unit.enabled = FALSE]
    <2>1. /\ ac'.dg = ac.dg /\ ac'.unit.refs = ac.unit.refs /\ ac'.unit.enabled = FALSE
          /\ ac'.unit.state = ac.unit.state
          /\ ac'.unit.charge_state = ac.unit.charge_state
      BY <1>0, <1>5 DEF State, Unit
    <2>2. Held(ac') /\ (On(ac') <=> On(ac))
      BY <2>1 DEF Held, On
    <2> QED BY <2>1, <2>2 DEF Counted, Fits, Requested, Active
  <1>6. CASE /\ ac.unit.refs < MaxRefs
             /\ ac' = [ac EXCEPT !.unit.enabled = TRUE, !.unit.charge_state = "STOPPED"]
    <2>1. /\ ac'.dg = ac.dg /\ ac'.unit.refs = ac.unit.refs
          /\ ac'.unit.state = ac.unit.state /\ ac'.unit.charge_state = "STOPPED"
      BY <1>0, <1>6 DEF State, Unit
    <2> QED BY <1>0, <1>6, <2>1, BelowCounted
  <1>7. CASE ac' = [ac EXCEPT !.unit.error = FALSE]
    <2>1. /\ ac'.dg = ac.dg /\ ac'.unit.refs = ac.unit.refs /\ ac'.unit.error = FALSE
          /\ ac'.unit.state = ac.unit.state /\ ac'.unit.enabled = ac.unit.enabled
          /\ ac'.unit.charge_state = ac.unit.charge_state
      BY <1>0, <1>7 DEF State, Unit
    <2>2. (Held(ac) => Held(ac')) /\ (On(ac') <=> On(ac))
      BY <2>1 DEF Held, On
    <2> QED BY <2>1, <2>2 DEF Counted, Fits, Requested, Active
  <1> QED BY <1>1, <1>2, <1>3, <1>4, <1>5, <1>6, <1>7 DEF UnitFunction

LEMMA SetModeCounted ==
  ASSUME Good(ac), Counted(ac), SetMode
  PROVE  Counted(ac')
  <1>1. PICK m \in Modes : ac' = UnitMode([ac EXCEPT !.mode = m], m)
    BY DEF SetMode
  <1> DEFINE b == [ac EXCEPT !.mode = m]
  <1>2. b \in State /\ b.unit = ac.unit /\ b.dg = ac.dg
    BY DEF Good, State
  <1> HIDE DEF b
  <1>3. /\ UnitMode(b, m).dg = ac.dg
        /\ UnitMode(b, m).unit.enabled = ac.unit.enabled
        /\ UnitMode(b, m).unit.error = ac.unit.error
        /\ UnitMode(b, m).unit.state = ac.unit.state
        /\ UnitMode(b, m).unit.charge_state = ac.unit.charge_state
        /\ UnitMode(b, m).unit.refs = ac.unit.refs
    BY <1>2, UnitModeCount
  <1>4. Counted(UnitMode(b, m))
    BY <1>3 DEF Counted, Fits, Requested, Active, Held, On
  <1> QED BY <1>1, <1>4 DEF b

LEMMA RestartCounted ==
  ASSUME Good(ac), Counted(ac), Restart
  PROVE  Counted(ac')
  <1> DEFINE u == Unmark(ValvesOff(ac), Marks)
             h == Hand(u, FALSE, "STOPPED")
             b == Clear(h)
             e == [b EXCEPT !.dg.enabled = TRUE, !.unit.error = FALSE, !.pump = FALSE]
  <1>1. ValvesOff(ac) \in State
    BY ValvesOffClosed DEF Good
  <1>2. u \in State
    BY <1>1, UnmarkKeeps
  <1> HIDE DEF u
  <1>3. h \in State
    BY <1>2, HandCount DEF ChargeStates
  <1> HIDE DEF h
  <1>4. b \in State /\ ~b.dg.active
    BY <1>3 DEF Clear, State, Group, DirectStates, AtRest
  <1> HIDE DEF b
  <1>5. e \in State /\ ~e.dg.active
    BY <1>4 DEF State, Group, Unit
  <1> HIDE DEF e
  <1>6. Counted(StopAll(e))
    BY <1>5, StopAllRest
  <1> QED BY <1>6 DEF Restart, e, b, h, u

LEMMA InitCounted ==
  ASSUME Init
  PROVE  Counted(ac)
  BY MaxRefsAssumption DEF Init, Counted, Fits, Requested, Active, AtRest, Taking

LEMMA NextCounted ==
  ASSUME Good(ac), Counted(ac), [Next]_vars
  PROVE  Counted(ac')
  <1>1. CASE \E d \in Readings : ReadMain(d)
    BY <1>1, ReadMainCounted
  <1>2. CASE RunMain
    BY <1>2, UnitTurnCounted DEF RunMain, Good
  <1>3. CASE \E repri \in BOOLEAN : Direct(repri) \/ UnitFunction(repri)
    BY <1>3, DirectCounted, UnitFunctionCounted
  <1>4. CASE Pump
    <2>1. ac' = [ac EXCEPT !.pump = ~ac.pump] /\ (~ac.pump) \in BOOLEAN
      BY <1>4 DEF Pump
    <2> QED BY <2>1, PumpCounted DEF Good
  <1>5. CASE SetMode
    BY <1>5, SetModeCounted
  <1>6. CASE Restart
    BY <1>6, RestartCounted
  <1>7. CASE UNCHANGED vars
    BY <1>7 DEF vars
  <1> QED BY <1>1, <1>2, <1>3, <1>4, <1>5, <1>6, <1>7 DEF Next

\* The unit's count has no more holders than there are: whatever direct mode and
\* charging forget, neither adds a second time to what it added before
\* (direct.js WAIT_UNIT, charge.js), for any bound on the other users.
THEOREM TypeCorrect == Spec => []TypeOK
  <1>1. Init => Counted(ac)
    BY InitCounted
  <1>2. Good(ac) /\ Counted(ac) /\ [Next]_vars => Counted(ac)'
    BY NextCounted
  <1>3. Good(ac) /\ Counted(ac) => TypeOK
    BY DEF Good, Counted, Fits, TypeOK
  <1> QED BY <1>1, <1>2, <1>3, StageKept, PTL DEF Spec
=============================================================================
