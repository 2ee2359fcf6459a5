--------------------------- MODULE SiChargeProofs ---------------------------
(***************************************************************************)
(* What holds of SiCharge for all settings and faults.  Good is the set of *)
(* states of the agent and its inverter in which what the agent believes   *)
(* to be on is on; every function of the code leads from Good to Good,     *)
(* whatever it reads.  In the middle of feed_start and feed_stop, when     *)
(* GdMod is set and feed_enabled is not, only the two sources can be       *)
(* believed: that is Held.                                                 *)
(***************************************************************************)
EXTENDS SiCharge, TLAPS

Certain == faults \cap {"late", "panel"} = {}

Held == {s \in SiRecord : Certain => /\ s.grid_started => s.GdManStr = "Start"
                                     /\ s.gen_started => s.GnManStr = "Start"}

\* An operator who sets feed_enabled is believed
Good == {s \in Held : Certain /\ "assign" \notin faults =>
                         (s.feed_enabled => s.GdMod = "GridFeed")}

-----------------------------------------------------------------------------
\* Nothing is believed of the history.
LEMMA DisobeyedHeld ==
  ASSUME NEW s \in Held
  PROVE  /\ Disobeyed(s) \in Held
         /\ Disobeyed(s).GdMod = s.GdMod
         /\ Disobeyed(s).feed_enabled = s.feed_enabled
         /\ s \in Good => Disobeyed(s) \in Good
BY DEF Good, Held, SiRecord, Disobeyed, ChargeModes

\* When calls may be late no belief is claimed: any channel may be set.
LEMMA LateHeld ==
  ASSUME NEW s \in Held, "late" \in faults
  PROVE  /\ \A v \in {"Start", "Auto"} : [s EXCEPT !["GdManStr"] = v] \in Good
         /\ \A v \in {"Start", "Auto"} : [s EXCEPT !["GnManStr"] = v] \in Good
         /\ \A v \in {"GridFeed", "GridCharge"} : [s EXCEPT !["GdMod"] = v] \in Good
<1>1. ASSUME NEW t \in SiRecord PROVE t \in Good
  BY <1>1 DEF Good, Held, Certain
<1>2. s \in SiRecord
  BY DEF Held
<1>3. ASSUME NEW v \in {"Start", "Auto"}
      PROVE  [s EXCEPT !["GdManStr"] = v] \in SiRecord /\ [s EXCEPT !["GnManStr"] = v] \in SiRecord
  BY <1>2 DEF SiRecord
<1>4. ASSUME NEW v \in {"GridFeed", "GridCharge"}
      PROVE  [s EXCEPT !["GdMod"] = v] \in SiRecord
  BY <1>2 DEF SiRecord
<1> QED
  BY <1>1, <1>3, <1>4

\* A source's channel set late leaves the feed channel alone.
LEMMA LateFeed ==
  ASSUME NEW s \in Held, NEW v \in {"Start", "Auto"}, NEW c \in {"GdManStr", "GnManStr"}
  PROVE  /\ [s EXCEPT ![c] = v].GdMod = s.GdMod
         /\ [s EXCEPT ![c] = v].feed_enabled = s.feed_enabled
<1>1. CASE c = "GdManStr"
  BY <1>1 DEF Held, SiRecord
<1>2. CASE c = "GnManStr"
  BY <1>2 DEF Held, SiRecord
<1> QED
  BY <1>1, <1>2

\* A call for a source that fails (si_smanet_set_value).
LEMMA RefusedHeld ==
  ASSUME NEW s \in Held, NEW v \in {"Start", "Auto"}, NEW c \in {"GdManStr", "GnManStr"},
         NEW t \in Refused(s, c, v)
  PROVE  /\ t \in Held
         /\ t.GdMod = s.GdMod
         /\ t.feed_enabled = s.feed_enabled
         /\ s \in Good => t \in Good
<1>1. CASE t = Disobeyed(s)
  BY <1>1, DisobeyedHeld
<1>2. CASE "late" \in faults /\ t = Disobeyed([s EXCEPT ![c] = v])
  <2> DEFINE u == [s EXCEPT ![c] = v]
  <2>1. u \in Good
    BY <1>2, LateHeld
  <2>2. u \in Held
    BY <2>1 DEF Good
  <2>3. u.GdMod = s.GdMod /\ u.feed_enabled = s.feed_enabled
    BY LateFeed
  <2> QED
    BY <1>2, <2>1, <2>2, <2>3, DisobeyedHeld
<1> QED
  BY <1>1, <1>2 DEF Refused

\* A call for feeding that fails.
LEMMA RefusedFeed ==
  ASSUME NEW s \in Good, NEW v \in {"GridFeed", "GridCharge"}
  PROVE  Refused(s, "GdMod", v) \subseteq Good
<1>1. s \in Held
  BY DEF Good
<1>2. "late" \in faults => Disobeyed([s EXCEPT !["GdMod"] = v]) \in Good
  <2>1. SUFFICES ASSUME "late" \in faults
                 PROVE  Disobeyed([s EXCEPT !["GdMod"] = v]) \in Good
    OBVIOUS
  <2>2. [s EXCEPT !["GdMod"] = v] \in Good
    BY <1>1, <2>1, LateHeld
  <2>3. [s EXCEPT !["GdMod"] = v] \in Held
    BY <2>2 DEF Good
  <2> QED
    BY <2>2, <2>3, DisobeyedHeld
<1> QED
  BY <1>1, <1>2, DisobeyedHeld DEF Refused

-----------------------------------------------------------------------------
\* The grid is believed to be on only after the call has gone through.
LEMMA StartGridHeld ==
  ASSUME NEW s \in Held, NEW d, NEW t \in StartGrid(s, d)
  PROVE  /\ t \in Held
         /\ t.GdMod = s.GdMod
         /\ t.feed_enabled = s.feed_enabled
         /\ s \in Good => t \in Good
<1> DEFINE on == [s EXCEPT !.GdManStr = "Start", !.grid_started = TRUE]
<1>1. /\ on \in Held
      /\ on.GdMod = s.GdMod
      /\ on.feed_enabled = s.feed_enabled
      /\ s \in Good => on \in Good
  BY DEF Good, Held, SiRecord, ChargeModes
<1>2. CASE t \in Refused(s, "GdManStr", "Start")
  BY <1>2, RefusedHeld
<1>3. CASE t = Disobeyed(s)
  BY <1>3, DisobeyedHeld
<1>4. t \in Refused(s, "GdManStr", "Start") \/ t = Disobeyed(s) \/ t = on
  BY DEF StartGrid
<1> QED
  BY <1>1, <1>2, <1>3, <1>4

\* The belief goes with the grid.
LEMMA StopGridHeld ==
  ASSUME NEW s \in Held, NEW d, NEW force \in BOOLEAN, NEW t \in StopGrid(s, d, force)
  PROVE  /\ t \in Held
         /\ t.GdMod = s.GdMod
         /\ t.feed_enabled = s.feed_enabled
         /\ s \in Good => t \in Good
<1> DEFINE off == [s EXCEPT !.GdManStr = "Auto", !.grid_started = FALSE]
<1>1. /\ off \in Held
      /\ off.GdMod = s.GdMod
      /\ off.feed_enabled = s.feed_enabled
      /\ s \in Good => off \in Good
  BY DEF Good, Held, SiRecord, ChargeModes
<1>2. CASE t \in Refused(s, "GdManStr", "Auto")
  BY <1>2, RefusedHeld
<1>3. CASE t = Disobeyed(s)
  BY <1>3, DisobeyedHeld
<1>4. t \in Refused(s, "GdManStr", "Auto") \/ t = Disobeyed(s) \/ t = off \/ t = s
  BY DEF StopGrid
<1> QED
  BY <1>1, <1>2, <1>3, <1>4

-----------------------------------------------------------------------------
\* Feeding is believed once GdMod is set and the grid asked for (feed_start).
LEMMA FeedStartGood ==
  ASSUME NEW s \in Good, NEW d, NEW force \in BOOLEAN
  PROVE  FeedStart(s, d, force) \subseteq Good
<1> DEFINE u == [s EXCEPT !.GdMod = "GridFeed"]
<1>1. u \in Held /\ u.GdMod = "GridFeed"
  BY DEF Good, Held, SiRecord, ChargeModes
<1>2. ASSUME NEW t \in StartGrid(u, d)
      PROVE  [t EXCEPT !.feed_enabled = TRUE] \in Good
  <2>1. t \in Held /\ t.GdMod = "GridFeed"
    BY <1>1, StartGridHeld
  <2> QED
    BY <2>1 DEF Good, Held, SiRecord, ChargeModes
<1>3. Disobeyed(s) \in Good /\ Refused(s, "GdMod", "GridFeed") \subseteq Good
  BY DisobeyedHeld, RefusedFeed DEF Good
<1> QED
  BY <1>2, <1>3 DEF FeedStart

\* Feeding is not believed any more, whether or not the grid is let go (feed_stop).
LEMMA FeedStopGood ==
  ASSUME NEW s \in Good, NEW d, NEW force \in BOOLEAN
  PROVE  FeedStop(s, d, force) \subseteq Good
<1> DEFINE u == [s EXCEPT !.GdMod = "GridCharge"]
<1>1. u \in Held
  BY DEF Good, Held, SiRecord, ChargeModes
<1>2. ASSUME NEW t \in StopGrid(u, d, FALSE)
      PROVE  [t EXCEPT !.feed_enabled = FALSE] \in Good
  <2>1. t \in Held
    BY <1>1, StopGridHeld
  <2> QED
    BY <2>1 DEF Good, Held, SiRecord, ChargeModes
<1>3. Disobeyed(s) \in Good /\ Refused(s, "GdMod", "GridCharge") \subseteq Good
  BY DisobeyedHeld, RefusedFeed DEF Good
<1> QED
  BY <1>2, <1>3 DEF FeedStop

\* The flags of the grid, for states that are Good throughout.
LEMMA GridGood ==
  ASSUME NEW s \in Good, NEW d
  PROVE  /\ StartGrid(s, d) \subseteq Good
         /\ \A force \in BOOLEAN : StopGrid(s, d, force) \subseteq Good
<1>1. s \in Held
  BY DEF Good
<1> QED
  BY <1>1, StartGridHeld, StopGridHeld

\* The generator, on and off, with feeding stopped and restored.
LEMMA StartGenGood ==
  ASSUME NEW s \in Good, NEW d
  PROVE  StartGen(s, d) \subseteq Good
<1> DEFINE on == [s EXCEPT !.GnManStr = "Start", !.gen_started = TRUE,
                           !.gen_feed_save = s.feed_enabled]
<1>1. on \in Good
  BY DEF Good, Held, SiRecord, ChargeModes
<1>2. FeedStop(on, d, TRUE) \subseteq Good
  BY <1>1, FeedStopGood
<1>3. s \in Held
  BY DEF Good
<1>4. Disobeyed(s) \in Good /\ Refused(s, "GnManStr", "Start") \subseteq Good
  BY <1>3, DisobeyedHeld, RefusedHeld
<1> QED
  BY <1>1, <1>2, <1>4 DEF StartGen

LEMMA StopGenGood ==
  ASSUME NEW s \in Good, NEW d, NEW force \in BOOLEAN
  PROVE  StopGen(s, d, force) \subseteq Good
<1> DEFINE off == [s EXCEPT !.GnManStr = "Auto", !.gen_started = FALSE]
<1>1. off \in Good
  BY DEF Good, Held, SiRecord, ChargeModes
<1>2. FeedStart(off, d, FALSE) \subseteq Good
  BY <1>1, FeedStartGood
<1>3. s \in Held
  BY DEF Good
<1>4. Disobeyed(s) \in Good /\ Refused(s, "GnManStr", "Auto") \subseteq Good
  BY <1>3, DisobeyedHeld, RefusedHeld
<1> QED
  BY <1>1, <1>2, <1>4 DEF StopGen

-----------------------------------------------------------------------------
\* A charge lets go of what it holds (charge_stop).
LEMMA ChargeStopGood ==
  ASSUME NEW s \in Good, NEW d, NEW force \in BOOLEAN
  PROVE  ChargeStop(s, d, force) \subseteq Good
<1> DEFINE idle == [s EXCEPT !.charge_mode = 0]
           GenOff(t) == IF t.gen_started THEN StopGen(t, d, FALSE) ELSE {t}
           GridOff(t) == IF t.grid_started /\ ~t.feed_enabled
                           THEN StopGrid(t, d, FALSE) ELSE {t}
<1>1. idle \in Good
  BY DEF Good, Held, SiRecord, ChargeModes
<1>2. ASSUME NEW t \in Good PROVE GenOff(t) \subseteq Good
  BY StopGenGood
<1>3. ASSUME NEW t \in Good PROVE GridOff(t) \subseteq Good
  BY GridGood
<1>4. UNION {GridOff(t) : t \in GenOff(idle)} \subseteq Good
  BY <1>1, <1>2, <1>3
<1> QED
  BY <1>4 DEF ChargeStop, After

LEMMA ChargeStartGood ==
  ASSUME NEW s \in Good, NEW d, NEW force \in BOOLEAN
  PROVE  /\ ChargeStart(s, d, force) \subseteq Good
         /\ ChargeStartCV(s, d, force) \subseteq Good
<1>1. [s EXCEPT !.charge_mode = 1] \in Good /\ [s EXCEPT !.charge_mode = 2] \in Good
  BY DEF Good, Held, SiRecord, ChargeModes
<1> QED
  BY <1>1, FeedStartGood DEF ChargeStart, ChargeStartCV

LEMMA ChargeEndGood ==
  ASSUME NEW s \in Good, NEW d
  PROVE  ChargeEnd(s, d) \subseteq Good
<1> DEFINE Feed(t) == IF On("ce_feed") THEN FeedStart(t, d, FALSE) ELSE {t}
<1>1. ASSUME NEW t \in Good PROVE Feed(t) \subseteq Good
  BY FeedStartGood
<1>2. UNION {Feed(t) : t \in ChargeStop(s, d, FALSE)} \subseteq Good
  BY <1>1, ChargeStopGood
<1> QED
  BY <1>2 DEF ChargeEnd, After

LEMMA ChargeStartGridGood ==
  ASSUME NEW s \in Good, NEW d
  PROVE  ChargeStartGrid(s, d) \subseteq Good
<1> DEFINE Grid(t) == IF t.grid_started THEN {t} ELSE StartGrid(t, d)
           fed == IF On("grid_feed") THEN FeedStart(s, d, TRUE) ELSE {s}
<1>1. ASSUME NEW t \in Good PROVE Grid(t) \subseteq Good
  BY GridGood
<1>2. fed \subseteq Good
  BY FeedStartGood
<1>3. UNION {Grid(t) : t \in fed} \subseteq Good
  BY <1>1, <1>2
<1> QED
  BY <1>3 DEF ChargeStartGrid, After

\* Over to the other source, in both directions (charge_main).
LEMMA SwitchGood ==
  ASSUME NEW s \in Good, NEW d
  PROVE  /\ GenToGrid(s, d) \subseteq Good
         /\ GridToGen(s, d) \subseteq Good
<1>1. UNION {ChargeStartGrid(t, d) : t \in StopGen(s, d, TRUE)} \subseteq Good
  BY StopGenGood, ChargeStartGridGood
<1>2. UNION {StartGen(t, d) : t \in StopGrid(s, d, TRUE)} \subseteq Good
  BY GridGood, StartGenGood
<1> QED
  BY <1>1, <1>2 DEF GenToGrid, GridToGen, After

\* What follows the switch in charge_main.
LEMMA ControlGood ==
  ASSUME NEW s \in Good, NEW d
  PROVE  /\ Dates(s, d) \subseteq Good
         /\ ChargeControl(s, d) \subseteq Good
<1>1. Dates(s, d) \subseteq Good
  BY ChargeStartGood, ChargeStopGood DEF Dates
<1>2. ASSUME NEW t \in Good PROVE EnsureSource(t, d) \subseteq Good
  BY StartGenGood, ChargeStartGridGood DEF EnsureSource
<1>3. ASSUME NEW t \in Good PROVE ChargeGoesOn(t, d) \subseteq Good
  BY ChargeStopGood, ChargeEndGood, ChargeStartGood DEF ChargeGoesOn
<1>4. BatteryEmpty(s, d) \subseteq Good
  <2> DEFINE Source(t) == IF On("Gen") /\ GenAsked(d) THEN StartGen(t, d)
                          ELSE IF On("Grid") \/ d.ExtVfOk THEN ChargeStartGrid(t, d)
                          ELSE {t}
  <2>1. ASSUME NEW t \in Good PROVE Source(t) \subseteq Good
    BY StartGenGood, ChargeStartGridGood
  <2>2. UNION {Source(t) : t \in ChargeStart(s, d, FALSE)} \subseteq Good
    BY <2>1, ChargeStartGood
  <2> QED
    BY <2>2 DEF BatteryEmpty, After
<1>5. UNION {ChargeGoesOn(t, d) : t \in EnsureSource(s, d)} \subseteq Good
  BY <1>2, <1>3
<1> QED
  BY <1>1, <1>4, <1>5 DEF ChargeControl, After

LEMMA ChargeMainGood ==
  ASSUME NEW s \in Good, NEW d
  PROVE  ChargeMain(s, d) \subseteq Good
<1> DEFINE A == GenToGrid(s, d)
           B == UNION {GridToGen(t, d) : t \in A}
           C == UNION {Dates(t, d) : t \in B}
           D == UNION {ChargeControl(t, d) : t \in C}
<1>1. A \subseteq Good
  BY SwitchGood
<1>2. B \subseteq Good
  BY <1>1, SwitchGood
<1>3. C \subseteq Good
  BY <1>2, ControlGood
<1>4. D \subseteq Good
  BY <1>3, ControlGood
<1> QED
  BY <1>4 DEF ChargeMain, After

\* The feeding part of a cycle.
LEMMA FeedMainGood ==
  ASSUME NEW s \in Good, NEW d
  PROVE  FeedMain(s, d) \subseteq Good
<1>1. FeedDates(s, d) \subseteq Good
  BY FeedStartGood, FeedStopGood DEF FeedDates
<1>2. ASSUME NEW t \in Good PROVE FeedCheck(t, d) \subseteq Good
  <2>1. [t EXCEPT !.feed_check = TRUE,
                  !.feed_enabled = t.GdMod = "GridFeed" /\ t.GdManStr = "Start"] \in Good
    BY DEF Good, Held, SiRecord, ChargeModes
  <2>2. Disobeyed(t) \in Good
    BY DisobeyedHeld DEF Good
  <2> QED
    BY <2>1, <2>2 DEF FeedCheck
<1>3. ASSUME NEW t \in Good PROVE FeedTimeout(t, d) \subseteq Good
  BY FeedStopGood DEF FeedTimeout
<1>4. UNION {FeedCheck(t, d) : t \in FeedDates(s, d)} \subseteq Good
  BY <1>1, <1>2
<1>5. UNION {FeedTimeout(t, d) :
               t \in UNION {FeedCheck(u, d) : u \in FeedDates(s, d)}} \subseteq Good
  BY <1>3, <1>4
<1> QED
  BY <1>5 DEF FeedMain, After

\* After a sync the agent believes what the inverter says.
LEMMA SyncMainGood ==
  ASSUME NEW s \in Good, NEW d
  PROVE  SyncMain(s, d) \subseteq Good
<1>1. [s EXCEPT !.grid_started = (s.GdManStr = "Start"),
                !.gen_started = (s.GnManStr = "Start"),
                !.feed_enabled = (s.GdMod = "GridFeed")] \in Good
  BY DEF Good, Held, SiRecord, ChargeModes
<1>2. Disobeyed(s) \in Good
  BY DisobeyedHeld DEF Good
<1> QED
  BY <1>1, <1>2 DEF SyncMain

LEMMA CycleGood ==
  ASSUME NEW s \in Good, NEW d
  PROVE  Cycle(s, d) \subseteq Good
<1>1. UNION {FeedMain(t, d) : t \in SyncMain(s, d)} \subseteq Good
  BY SyncMainGood, FeedMainGood
<1>2. UNION {ChargeMain(t, d) :
               t \in UNION {FeedMain(u, d) : u \in SyncMain(s, d)}} \subseteq Good
  BY <1>1, ChargeMainGood
<1> QED
  BY <1>2 DEF Cycle, After

LEMMA FunctionGood ==
  ASSUME NEW s \in Good, NEW d
  PROVE  Function(s, d) \subseteq Good
BY ChargeStartGood, ChargeStopGood, ChargeEndGood, FeedStartGood, FeedStopGood DEF Function

-----------------------------------------------------------------------------
IInv == si \in Good /\ settings \subseteq Flags /\ faults \subseteq Faults

LEMMA Initially == Init => IInv
<1> SUFFICES ASSUME Init PROVE IInv
  OBVIOUS
<1>1. settings \subseteq Flags /\ faults \subseteq Faults
  BY CasesAssumption DEF Init
<1>2. si \in Good
  BY DEF Init, Good, Held, SiRecord, ChargeModes
<1> QED
  BY <1>1, <1>2 DEF IInv

LEMMA Inductive == IInv /\ [Next]_vars => IInv'
<1> SUFFICES ASSUME IInv, [Next]_vars PROVE IInv'
  OBVIOUS
<1> USE DEF IInv
<1>1. Fresh \in Good
  BY DEF Fresh, Good, Held, SiRecord, ChargeModes
<1>2. SUFFICES ASSUME faults' = faults, settings' = settings PROVE si' \in Good
  BY DEF Next, ReadMain, Command, Assign, Restart, Panel, vars, Good, Held, Certain
<1>3. CASE ReadMain
  BY <1>1, <1>3, CycleGood DEF ReadMain
<1>4. CASE Command
  BY <1>1, <1>4, FunctionGood DEF Command
<1>5. CASE Restart
  BY <1>5 DEF Restart, Good, Held, SiRecord, ChargeModes
<1>6. CASE Panel
  <2>1. ~Certain
    BY <1>6 DEF Panel, Certain
  <2>2. si' \in SiRecord
    BY <1>6 DEF Panel, Fresh, Good, Held, SiRecord, ChargeModes
  <2> QED
    BY <2>1, <2>2 DEF Good, Held
<1>7. CASE Assign
  <2>1. CASE \E m \in ChargeModes : si' = [Fresh EXCEPT !.charge_mode = m]
    BY <1>1, <2>1 DEF Good, Held, SiRecord
  <2>2. CASE \E b \in BOOLEAN : si' = [Fresh EXCEPT !.feed_enabled = b]
    BY <1>1, <1>7, <2>2 DEF Assign, Good, Held, SiRecord
  <2> QED
    BY <1>7, <2>1, <2>2 DEF Assign
<1>8. CASE UNCHANGED vars
  BY <1>8 DEF vars
<1> QED
  BY <1>3, <1>4, <1>5, <1>6, <1>7, <1>8 DEF Next

LEMMA Always == Spec => []IInv
<1>1. Init => IInv
  BY Initially
<1>2. IInv /\ [Next]_vars => IInv'
  BY Inductive
<1> QED
  BY <1>1, <1>2, PTL DEF Spec

\* The flags and the channels of the SI agent have their types.
THEOREM TypeCorrect == Spec => []TypeOK
<1>1. IInv => TypeOK
  BY DEF IInv, Good, Held, TypeOK
<1> QED
  BY <1>1, Always, PTL

\* Whatever fails, short of an answer that comes too late or of a hand at the
\* inverter: what the agent believes to be on is on (si_start_grid, si_stop_grid,
\* si_start_gen, si_stop_gen, feed_start, feed_stop).
THEOREM BeliefsCorrect == Spec => []BeliefsTrue
<1>1. IInv => BeliefsTrue
  BY DEF IInv, Good, Held, Certain, BeliefsTrue
<1> QED
  BY <1>1, Always, PTL

-----------------------------------------------------------------------------
(* Why the end of a charge lets go of its sources.  Calls over SMANet      *)
(* leave charge_mode alone, and once one of them has failed in a step the  *)
(* step did not obey: what is left to show is about steps in which every   *)
(* call went through.                                                      *)

\* What calls can make of s.
Kept(s) == {t \in SiRecord : t.charge_mode = s.charge_mode /\ (t.obeyed => s.obeyed)}

Charging == {s \in SiRecord : s.charge_mode # 0}

Released == {s \in SiRecord : s.obeyed /\ s.charge_mode = 0 =>
               ~s.gen_started /\ (s.grid_started => s.feed_enabled)}

LEMMA RefusedKept ==
  ASSUME NEW s \in SiRecord
  PROVE  /\ Disobeyed(s) \in Kept(s) /\ ~Disobeyed(s).obeyed
         /\ \A v \in {"Start", "Auto"} : \A t \in Refused(s, "GdManStr", v) :
              t \in Kept(s) /\ ~t.obeyed
         /\ \A v \in {"Start", "Auto"} : \A t \in Refused(s, "GnManStr", v) :
              t \in Kept(s) /\ ~t.obeyed
         /\ \A v \in {"GridFeed", "GridCharge"} : \A t \in Refused(s, "GdMod", v) :
              t \in Kept(s) /\ ~t.obeyed
<1>1. ASSUME NEW u \in SiRecord, u.charge_mode = s.charge_mode
      PROVE  Disobeyed(u) \in Kept(s) /\ ~Disobeyed(u).obeyed
  BY <1>1 DEF Disobeyed, Kept, SiRecord, ChargeModes
<1>2. ASSUME NEW v \in {"Start", "Auto"}
      PROVE  /\ [s EXCEPT !["GdManStr"] = v] \in SiRecord
             /\ [s EXCEPT !["GdManStr"] = v].charge_mode = s.charge_mode
             /\ [s EXCEPT !["GnManStr"] = v] \in SiRecord
             /\ [s EXCEPT !["GnManStr"] = v].charge_mode = s.charge_mode
  BY DEF SiRecord
<1>3. ASSUME NEW v \in {"GridFeed", "GridCharge"}
      PROVE  /\ [s EXCEPT !["GdMod"] = v] \in SiRecord
             /\ [s EXCEPT !["GdMod"] = v].charge_mode = s.charge_mode
  BY DEF SiRecord
<1>4. Disobeyed(s) \in Kept(s) /\ ~Disobeyed(s).obeyed
  BY <1>1
<1>5. ASSUME NEW v \in {"Start", "Auto"}, NEW t \in Refused(s, "GdManStr", v)
      PROVE  t \in Kept(s) /\ ~t.obeyed
  BY <1>1, <1>2, <1>4 DEF Refused
<1>6. ASSUME NEW v \in {"Start", "Auto"}, NEW t \in Refused(s, "GnManStr", v)
      PROVE  t \in Kept(s) /\ ~t.obeyed
  BY <1>1, <1>2, <1>4 DEF Refused
<1>7. ASSUME NEW v \in {"GridFeed", "GridCharge"}, NEW t \in Refused(s, "GdMod", v)
      PROVE  t \in Kept(s) /\ ~t.obeyed
  BY <1>1, <1>3, <1>4 DEF Refused
<1> QED
  BY <1>4, <1>5, <1>6, <1>7

LEMMA KeptTrans ==
  ASSUME NEW s \in SiRecord, NEW t \in Kept(s), NEW u \in Kept(t)
  PROVE  u \in Kept(s)
BY DEF Kept

LEMMA StartGridKept ==
  ASSUME NEW s \in SiRecord, NEW d, NEW t \in StartGrid(s, d)
  PROVE  /\ t \in Kept(s)
         /\ t.obeyed => t.gen_started = s.gen_started
<1> DEFINE on == [s EXCEPT !.GdManStr = "Start", !.grid_started = TRUE]
<1>1. on \in Kept(s) /\ on.gen_started = s.gen_started
  BY DEF Kept, SiRecord, ChargeModes
<1>2. t \in Refused(s, "GdManStr", "Start") \/ t = Disobeyed(s) \/ t = on
  BY DEF StartGrid
<1> QED
  BY <1>1, <1>2, RefusedKept

LEMMA StopGridKept ==
  ASSUME NEW s \in SiRecord, NEW d, NEW force \in BOOLEAN, NEW t \in StopGrid(s, d, force)
  PROVE  /\ t \in Kept(s)
         /\ t.obeyed => /\ t.gen_started = s.gen_started
                        /\ s.charge_mode = 0 => ~t.grid_started
<1> DEFINE off == [s EXCEPT !.GdManStr = "Auto", !.grid_started = FALSE]
<1>1. off \in Kept(s) /\ off.gen_started = s.gen_started /\ ~off.grid_started
  BY DEF Kept, SiRecord, ChargeModes
<1>2. s \in Kept(s)
  BY DEF Kept
<1>3. \/ t \in Refused(s, "GdManStr", "Auto") \/ t = Disobeyed(s) \/ t = off
      \/ t = s /\ s.charge_mode # 0
  BY DEF StopGrid
<1> QED
  BY <1>1, <1>2, <1>3, RefusedKept

\* feed_start either feeds in the end or has done nothing.
LEMMA FeedStartKept ==
  ASSUME NEW s \in SiRecord, NEW d, NEW force \in BOOLEAN, NEW t \in FeedStart(s, d, force)
  PROVE  /\ t \in Kept(s)
         /\ t.obeyed => t = s \/ (t.feed_enabled /\ t.gen_started = s.gen_started)
<1> DEFINE u == [s EXCEPT !.GdMod = "GridFeed"]
<1>1. u \in SiRecord /\ u \in Kept(s) /\ u.gen_started = s.gen_started
  BY DEF Kept, SiRecord, ChargeModes
<1>2. ASSUME NEW w \in StartGrid(u, d), t = [w EXCEPT !.feed_enabled = TRUE]
      PROVE  /\ t \in Kept(s)
             /\ t.obeyed => t.feed_enabled /\ t.gen_started = s.gen_started
  <2>1. /\ w \in Kept(u) /\ w \in SiRecord
        /\ w.obeyed => w.gen_started = u.gen_started
    BY <1>1, StartGridKept DEF Kept
  <2>2. t \in Kept(w) /\ t.feed_enabled /\ t.gen_started = w.gen_started
        /\ t.obeyed = w.obeyed
    BY <1>2, <2>1 DEF Kept, SiRecord, ChargeModes
  <2>3. t \in Kept(s)
    BY <1>1, <2>1, <2>2, KeptTrans
  <2> QED
    BY <1>1, <2>1, <2>2, <2>3
<1>3. s \in Kept(s)
  BY DEF Kept
<1>4. \/ t = s \/ t = Disobeyed(s) \/ t \in Refused(s, "GdMod", "GridFeed")
      \/ \E w \in StartGrid(u, d) : t = [w EXCEPT !.feed_enabled = TRUE]
  BY DEF FeedStart
<1> QED
  BY <1>2, <1>3, <1>4, RefusedKept

LEMMA FeedStopKept ==
  ASSUME NEW s \in SiRecord, NEW d, NEW force \in BOOLEAN
  PROVE  FeedStop(s, d, force) \subseteq Kept(s)
<1> DEFINE u == [s EXCEPT !.GdMod = "GridCharge"]
<1>1. u \in SiRecord /\ u \in Kept(s)
  BY DEF Kept, SiRecord, ChargeModes
<1>2. ASSUME NEW w \in StopGrid(u, d, FALSE)
      PROVE  [w EXCEPT !.feed_enabled = FALSE] \in Kept(s)
  <2>1. w \in Kept(u) /\ w \in SiRecord
    BY <1>1, StopGridKept DEF Kept
  <2>2. [w EXCEPT !.feed_enabled = FALSE] \in Kept(w)
    BY <2>1 DEF Kept, SiRecord, ChargeModes
  <2> QED
    BY <1>1, <2>1, <2>2, KeptTrans
<1>3. s \in Kept(s)
  BY DEF Kept
<1>4. ASSUME NEW t \in FeedStop(s, d, force)
      PROVE  \/ t = s \/ t = Disobeyed(s) \/ t \in Refused(s, "GdMod", "GridCharge")
             \/ \E w \in StopGrid(u, d, FALSE) : t = [w EXCEPT !.feed_enabled = FALSE]
  BY DEF FeedStop
<1> QED
  BY <1>2, <1>3, <1>4, RefusedKept

LEMMA StartGenKept ==
  ASSUME NEW s \in SiRecord, NEW d
  PROVE  StartGen(s, d) \subseteq Kept(s)
<1> DEFINE on == [s EXCEPT !.GnManStr = "Start", !.gen_started = TRUE,
                           !.gen_feed_save = s.feed_enabled]
<1>1. on \in SiRecord /\ on \in Kept(s)
  BY DEF Kept, SiRecord, ChargeModes
<1>2. FeedStop(on, d, TRUE) \subseteq Kept(s)
  BY <1>1, FeedStopKept, KeptTrans
<1>3. ASSUME NEW t \in StartGen(s, d)
      PROVE  \/ t = Disobeyed(s) \/ t \in Refused(s, "GnManStr", "Start")
             \/ t = on \/ t \in FeedStop(on, d, TRUE)
  BY DEF StartGen
<1> QED
  BY <1>1, <1>2, <1>3, RefusedKept

\* si_stop_gen refuses only while a charge goes on.
LEMMA StopGenKept ==
  ASSUME NEW s \in SiRecord, NEW d, NEW force \in BOOLEAN, NEW t \in StopGen(s, d, force)
  PROVE  /\ t \in Kept(s)
         /\ t.obeyed /\ s.charge_mode = 0 => ~t.gen_started
<1> DEFINE off == [s EXCEPT !.GnManStr = "Auto", !.gen_started = FALSE]
<1>1. off \in SiRecord /\ off \in Kept(s) /\ ~off.gen_started
  BY DEF Kept, SiRecord, ChargeModes
<1>2. s \in Kept(s)
  BY DEF Kept
<1>3. ASSUME t \in FeedStart(off, d, FALSE)
      PROVE  t \in Kept(s) /\ (t.obeyed => ~t.gen_started)
  BY <1>1, <1>3, FeedStartKept, KeptTrans
<1>4. \/ t = Disobeyed(s) \/ t \in Refused(s, "GnManStr", "Auto")
      \/ t = s /\ s.charge_mode # 0
      \/ t = off \/ t \in FeedStart(off, d, FALSE)
  BY DEF StopGen
<1> QED
  BY <1>1, <1>2, <1>3, <1>4, RefusedKept

\* So no call ends a charge.
LEMMA KeptCharging ==
  ASSUME NEW s \in Charging, NEW t \in Kept(s)
  PROVE  t \in Charging
BY DEF Charging, Kept

LEMMA ChargingReleased == Charging \subseteq Released /\ Released \subseteq SiRecord
BY DEF Charging, Released

\* charge_stop: what it switches off is off, or a call has failed.
LEMMA ChargeStopReleased ==
  ASSUME NEW s \in Released, NEW d, NEW force \in BOOLEAN
  PROVE  ChargeStop(s, d, force) \subseteq Released
<1> DEFINE idle == [s EXCEPT !.charge_mode = 0]
           GenOff(t) == IF t.gen_started THEN StopGen(t, d, FALSE) ELSE {t}
           GridOff(t) == IF t.grid_started /\ ~t.feed_enabled
                           THEN StopGrid(t, d, FALSE) ELSE {t}
<1>1. idle \in SiRecord /\ idle.charge_mode = 0
  BY DEF Released, SiRecord, ChargeModes
<1>2. ASSUME NEW t \in GenOff(idle)
      PROVE  t \in SiRecord /\ t.charge_mode = 0 /\ (t.obeyed => ~t.gen_started)
  <2>1. CASE idle.gen_started
    <3>1. t \in StopGen(idle, d, FALSE)
      BY <1>2, <2>1
    <3> HIDE DEF idle
    <3> QED
      BY <1>1, <3>1, StopGenKept DEF Kept
  <2>2. CASE ~idle.gen_started
    BY <1>1, <1>2, <2>2
  <2> QED
    BY <2>1, <2>2
<1>3. ASSUME NEW t \in SiRecord, t.charge_mode = 0, t.obeyed => ~t.gen_started,
             NEW u \in GridOff(t)
      PROVE  u \in Released
  <2>1. CASE t.grid_started /\ ~t.feed_enabled
    <3>1. u \in StopGrid(t, d, FALSE)
      BY <1>3, <2>1
    <3>2. u \in Kept(t) /\ (u.obeyed => u.gen_started = t.gen_started /\ ~u.grid_started)
      BY <1>3, <3>1, StopGridKept
    <3> QED
      BY <1>3, <3>2 DEF Kept, Released
  <2>2. CASE ~ (t.grid_started /\ ~t.feed_enabled)
    BY <1>3, <2>2 DEF Released
  <2> QED
    BY <2>1, <2>2
<1> HIDE DEF idle, GenOff, GridOff
<1>4. UNION {GridOff(t) : t \in GenOff(idle)} \subseteq Released
  BY <1>2, <1>3
<1>5. ChargeStop(s, d, force) \subseteq Released
  BY <1>4 DEF ChargeStop, After, idle, GenOff, GridOff
<1> QED
  BY <1>5

\* Where it is not too cold, charge_start leaves a charge going on.
LEMMA ChargeStartReleased ==
  ASSUME NEW s \in Released, NEW d, NEW force \in BOOLEAN
  PROVE  /\ ChargeStart(s, d, force) \subseteq Released
         /\ d.temp # "cold" /\ (s.charge_mode = 0 \/ force) => ChargeStart(s, d, force) \subseteq Charging
         /\ ChargeStartCV(s, d, force) \subseteq Released
<1>1. /\ [s EXCEPT !.charge_mode = 1] \in Charging
      /\ [s EXCEPT !.charge_mode = 2] \in Charging
  BY DEF Charging, Released, SiRecord, ChargeModes
<1>2. ASSUME NEW t \in Charging, NEW f \in BOOLEAN
      PROVE  FeedStart(t, d, f) \subseteq Charging
  BY FeedStartKept, KeptCharging DEF Charging
<1>3. ChargeStart(s, d, force) \subseteq Charging \cup {s}
  BY <1>1, <1>2 DEF ChargeStart
<1>4. ChargeStartCV(s, d, force) \subseteq Charging \cup {s}
  BY <1>1, <1>2 DEF ChargeStartCV
<1>5. d.temp # "cold" /\ (s.charge_mode = 0 \/ force) => ChargeStart(s, d, force) \subseteq Charging
  BY <1>1, <1>2 DEF ChargeStart
<1> QED
  BY <1>3, <1>4, <1>5, ChargingReleased

\* Feeding after the charge holds the grid, but feeds.
LEMMA FeedStartReleased ==
  ASSUME NEW s \in Released, NEW d, NEW force \in BOOLEAN
  PROVE  FeedStart(s, d, force) \subseteq Released
BY FeedStartKept DEF Released, Kept

LEMMA ChargeEndReleased ==
  ASSUME NEW s \in Released, NEW d
  PROVE  ChargeEnd(s, d) \subseteq Released
<1> DEFINE Feed(t) == IF On("ce_feed") THEN FeedStart(t, d, FALSE) ELSE {t}
<1>1. ASSUME NEW t \in Released PROVE Feed(t) \subseteq Released
  BY FeedStartReleased
<1>2. UNION {Feed(t) : t \in ChargeStop(s, d, FALSE)} \subseteq Released
  BY <1>1, ChargeStopReleased
<1> QED
  BY <1>2 DEF ChargeEnd, After

\* The source of a charge that goes on.
LEMMA SourceCharging ==
  ASSUME NEW s \in Charging, NEW d
  PROVE  /\ StartGen(s, d) \subseteq Charging
         /\ ChargeStartGrid(s, d) \subseteq Charging
         /\ EnsureSource(s, d) \subseteq Charging
         /\ GenToGrid(s, d) \subseteq Charging
         /\ GridToGen(s, d) \subseteq Charging
<1>1. ASSUME NEW t \in Charging PROVE StartGen(t, d) \subseteq Charging
  BY StartGenKept, KeptCharging DEF Charging
<1>2. ASSUME NEW t \in Charging PROVE StartGrid(t, d) \subseteq Charging
  BY StartGridKept, KeptCharging DEF Charging
<1>3. ASSUME NEW t \in Charging PROVE FeedStart(t, d, TRUE) \subseteq Charging
  BY FeedStartKept, KeptCharging DEF Charging
<1>4. ASSUME NEW t \in Charging PROVE StopGrid(t, d, TRUE) \subseteq Charging
  BY StopGridKept, KeptCharging DEF Charging
<1>5. ASSUME NEW t \in Charging PROVE StopGen(t, d, TRUE) \subseteq Charging
  BY StopGenKept, KeptCharging DEF Charging
<1>6. ASSUME NEW t \in Charging PROVE ChargeStartGrid(t, d) \subseteq Charging
  <2> DEFINE Grid(u) == IF u.grid_started THEN {u} ELSE StartGrid(u, d)
             fed == IF On("grid_feed") THEN FeedStart(t, d, TRUE) ELSE {t}
  <2>1. ASSUME NEW u \in Charging PROVE Grid(u) \subseteq Charging
    BY <1>2
  <2>2. fed \subseteq Charging
    BY <1>3
  <2>3. UNION {Grid(u) : u \in fed} \subseteq Charging
    BY <2>1, <2>2
  <2> QED
    BY <2>3 DEF ChargeStartGrid, After
<1>7. EnsureSource(s, d) \subseteq Charging
  BY <1>1, <1>6 DEF EnsureSource
<1>8. UNION {ChargeStartGrid(t, d) : t \in StopGen(s, d, TRUE)} \subseteq Charging
  BY <1>5, <1>6
<1>9. UNION {StartGen(t, d) : t \in StopGrid(s, d, TRUE)} \subseteq Charging
  BY <1>1, <1>4
<1>10. GenToGrid(s, d) \subseteq Charging
  BY <1>8 DEF GenToGrid, After
<1>11. GridToGen(s, d) \subseteq Charging
  BY <1>9 DEF GridToGen, After
<1> QED
  BY <1>1, <1>6, <1>7, <1>10, <1>11

LEMMA ControlReleased ==
  ASSUME NEW s \in Released, NEW d, d.temp # "cold"
  PROVE  ChargeControl(s, d) \subseteq Released
<1>1. ASSUME NEW t \in Charging PROVE ChargeGoesOn(t, d) \subseteq Released
  <2>1. t \in Released
    BY ChargingReleased
  <2>2. /\ ChargeStop(t, d, FALSE) \subseteq Released
        /\ ChargeEnd(t, d) \subseteq Released
        /\ ChargeStartCV(t, d, FALSE) \subseteq Released
    BY <2>1, ChargeStopReleased, ChargeEndReleased, ChargeStartReleased
  <2> QED
    BY <2>1, <2>2 DEF ChargeGoesOn
<1>2. CASE s.charge_mode # 0
  <2>1. s \in Charging
    BY <1>2 DEF Released, Charging
  <2>2. UNION {ChargeGoesOn(t, d) : t \in EnsureSource(s, d)} \subseteq Released
    BY <1>1, <2>1, SourceCharging
  <2> QED
    BY <1>2, <2>2 DEF ChargeControl, After
<1>3. CASE s.charge_mode = 0
  <2> DEFINE Source(t) == IF On("Gen") /\ GenAsked(d) THEN StartGen(t, d)
                          ELSE IF On("Grid") \/ d.ExtVfOk THEN ChargeStartGrid(t, d)
                          ELSE {t}
  <2>1. ASSUME NEW t \in Charging PROVE Source(t) \subseteq Charging
    BY SourceCharging
  <2>2. ChargeStart(s, d, FALSE) \subseteq Charging
    BY <1>3, ChargeStartReleased
  <2>3. UNION {Source(t) : t \in ChargeStart(s, d, FALSE)} \subseteq Charging
    BY <2>1, <2>2
  <2>4. BatteryEmpty(s, d) \subseteq Released
    BY <2>3, ChargingReleased DEF BatteryEmpty, After
  <2> QED
    BY <1>3, <2>4 DEF ChargeControl
<1> QED
  BY <1>2, <1>3

LEMMA CycleReleased ==
  ASSUME NEW s \in Charging, NEW d, d.temp # "cold"
  PROVE  Cycle(s, d) \subseteq Released
<1>1. SyncMain(s, d) \subseteq Charging
  <2>1. [s EXCEPT !.grid_started = (s.GdManStr = "Start"),
                  !.gen_started = (s.GnManStr = "Start"),
                  !.feed_enabled = (s.GdMod = "GridFeed")] \in Charging
    BY DEF Charging, SiRecord, ChargeModes
  <2>2. Disobeyed(s) \in Charging
    BY DEF Disobeyed, Charging, SiRecord, ChargeModes
  <2> QED
    BY <2>1, <2>2 DEF SyncMain
<1>2. ASSUME NEW t \in Charging PROVE FeedMain(t, d) \subseteq Charging
  <2>1. ASSUME NEW u \in Charging
        PROVE  FeedStart(u, d, FALSE) \subseteq Charging /\ FeedStop(u, d, FALSE) \subseteq Charging
    BY FeedStartKept, FeedStopKept, KeptCharging DEF Charging
  <2>2. FeedDates(t, d) \subseteq Charging
    BY <2>1 DEF FeedDates
  <2>3. ASSUME NEW u \in Charging PROVE FeedCheck(u, d) \subseteq Charging
    <3>1. [u EXCEPT !.feed_check = TRUE,
                    !.feed_enabled = u.GdMod = "GridFeed" /\ u.GdManStr = "Start"] \in Charging
      BY DEF Charging, SiRecord, ChargeModes
    <3>2. Disobeyed(u) \in Charging
      BY DEF Disobeyed, Charging, SiRecord, ChargeModes
    <3> QED
      BY <3>1, <3>2 DEF FeedCheck
  <2>4. ASSUME NEW u \in Charging PROVE FeedTimeout(u, d) \subseteq Charging
    BY <2>1 DEF FeedTimeout
  <2>5. UNION {FeedCheck(u, d) : u \in FeedDates(t, d)} \subseteq Charging
    BY <2>2, <2>3
  <2>6. UNION {FeedTimeout(u, d) :
                 u \in UNION {FeedCheck(w, d) : w \in FeedDates(t, d)}} \subseteq Charging
    BY <2>4, <2>5
  <2> QED
    BY <2>6 DEF FeedMain, After
<1>3. ASSUME NEW t \in Charging PROVE ChargeMain(t, d) \subseteq Released
  <2> DEFINE A == GenToGrid(t, d)
             B == UNION {GridToGen(u, d) : u \in A}
             C == UNION {Dates(u, d) : u \in B}
             D == UNION {ChargeControl(u, d) : u \in C}
  <2>1. A \subseteq Charging
    BY SourceCharging
  <2>2. B \subseteq Charging
    BY <2>1, SourceCharging
  <2>3. ASSUME NEW u \in Charging PROVE Dates(u, d) \subseteq Released
    BY ChargingReleased, ChargeStartReleased, ChargeStopReleased DEF Dates
  <2>4. C \subseteq Released
    BY <2>2, <2>3
  <2>5. D \subseteq Released
    BY <2>4, ControlReleased
  <2>6. t \in Released
    BY ChargingReleased
  <2> QED
    BY <2>5, <2>6 DEF ChargeMain, After
<1>4. UNION {FeedMain(t, d) : t \in SyncMain(s, d)} \subseteq Charging
  BY <1>1, <1>2
<1>5. UNION {ChargeMain(t, d) :
               t \in UNION {FeedMain(u, d) : u \in SyncMain(s, d)}} \subseteq Released
  BY <1>3, <1>4
<1> QED
  BY <1>5 DEF Cycle, After

LEMMA FunctionReleased ==
  ASSUME NEW s \in Charging, NEW d
  PROVE  Function(s, d) \subseteq Released
<1>1. s \in Released /\ s \in SiRecord
  BY ChargingReleased
<1>2. FeedStop(s, d, TRUE) \subseteq Charging
  BY <1>1, FeedStopKept, KeptCharging
<1> QED
  BY <1>1, <1>2, ChargingReleased, ChargeStartReleased, ChargeStopReleased,
     ChargeEndReleased, FeedStartReleased DEF Function

\* When a cycle or a function ends a charge and every call goes through, the agent
\* lets go of its generator, and of the grid unless it feeds: for all settings,
\* and for all faults but a battery at or below zero (charge_stop, charge_end).
THEOREM StopReleasesTheorem == Spec => StopReleases
<1>1. IInv /\ [Next]_vars =>
        [si.charge_mode # 0 /\ si'.charge_mode = 0 /\ si'.obeyed =>
           \/ "frost" \in faults \/ Assign
           \/ ~si'.gen_started /\ (si'.grid_started => si'.feed_enabled)]_vars
  <2> SUFFICES ASSUME IInv, Next,
                      si.charge_mode # 0, si'.charge_mode = 0, si'.obeyed,
                      "frost" \notin faults, ~Assign
               PROVE  ~si'.gen_started /\ (si'.grid_started => si'.feed_enabled)
    OBVIOUS
  <2>1. si \in SiRecord
    BY DEF IInv, Good, Held
  <2>2. Fresh \in Charging
    BY <2>1 DEF Fresh, Charging, SiRecord, ChargeModes
  <2>3. CASE ReadMain
    <3>1. PICK d \in Readings : si' \in Cycle(Fresh, d)
      BY <2>3 DEF ReadMain
    <3>2. d.temp # "cold"
      BY DEF Readings
    <3>3. si' \in Released
      BY <2>2, <3>1, <3>2, CycleReleased
    <3> QED
      BY <3>3 DEF Released
  <2>4. CASE Command
    <3>1. PICK d \in Readings : si' \in Function(Fresh, d)
      BY <2>4 DEF Command
    <3>2. si' \in Released
      BY <2>2, <3>1, FunctionReleased
    <3> QED
      BY <3>2 DEF Released
  <2>5. CASE Restart \/ Panel
    <3>1. si'.charge_mode = si.charge_mode
      BY <2>1, <2>5 DEF Restart, Panel, Fresh, SiRecord
    <3> QED
      BY <3>1
  <2> QED
    BY <2>3, <2>4, <2>5 DEF Next
<1> QED
  BY <1>1, Always, PTL DEF Spec, StopReleases

-----------------------------------------------------------------------------
(* Why the agent knows when the inverter feeds.  Where calls are neither   *)
(* lost nor late, the inverter feeds only over a grid that is on, and the  *)
(* agent believes it, or is new and has neither looked nor touched the     *)
(* grid (Aware).  A cycle over a working connection looks before it        *)
(* charges (Looked).                                                       *)

Sure == faults \subseteq {"restart", "offline"}

Aware == {s \in SiRecord : s.GdMod = "GridFeed" =>
            /\ s.GdManStr = "Start"
            /\ s.feed_enabled \/ (~s.feed_check /\ ~s.grid_started)}

Looked == {s \in SiRecord : s.GdMod = "GridFeed" =>
             s.GdManStr = "Start" /\ s.feed_enabled}

LEMMA SureCalls ==
  ASSUME Sure, NEW s, NEW c, NEW v
  PROVE  Refused(s, c, v) = {}
BY DEF Sure, Refused

LEMMA AwareIs ==
  /\ Looked \subseteq Aware
  /\ \A X \in {Aware, Looked} : \A s \in X : s \in SiRecord /\ Disobeyed(s) \in X
<1>1. Looked \subseteq Aware
  BY DEF Aware, Looked
<1>2. \A s \in Aware : s \in SiRecord /\ Disobeyed(s) \in Aware
  BY DEF Aware, Disobeyed, SiRecord, ChargeModes
<1>3. \A s \in Looked : s \in SiRecord /\ Disobeyed(s) \in Looked
  BY DEF Looked, Disobeyed, SiRecord, ChargeModes
<1> QED
  BY <1>1, <1>2, <1>3

LEMMA FeedStartAware ==
  ASSUME Sure, NEW X \in {Aware, Looked}, NEW s \in X, NEW d, NEW force \in BOOLEAN
  PROVE  FeedStart(s, d, force) \subseteq X
<1> DEFINE u == [s EXCEPT !.GdMod = "GridFeed"]
           on == [u EXCEPT !.GdManStr = "Start", !.grid_started = TRUE]
<1>1. s \in SiRecord /\ Disobeyed(s) \in X
  BY AwareIs
<1>2. [on EXCEPT !.feed_enabled = TRUE] \in Looked
  BY <1>1 DEF Looked, SiRecord, ChargeModes
<1>3. [on EXCEPT !.feed_enabled = TRUE] \in X
  BY <1>2, AwareIs
<1>4. d.connected => StartGrid(u, d) = {on}
  BY SureCalls DEF StartGrid
<1>5. Refused(s, "GdMod", "GridFeed") = {}
  BY SureCalls
<1> HIDE DEF on, u
<1>6. \/ FeedStart(s, d, force) = {s} \/ FeedStart(s, d, force) = {Disobeyed(s)}
      \/ FeedStart(s, d, force) = {[t EXCEPT !.feed_enabled = TRUE] : t \in {on}}
  BY <1>4, <1>5 DEF FeedStart, u
<1> QED
  BY <1>1, <1>3, <1>6

\* feed_stop ends all feeding, whatever the state is.
LEMMA FeedStopAware ==
  ASSUME Sure, NEW s \in SiRecord, NEW d, d.connected
  PROVE  /\ FeedStop(s, d, TRUE) \subseteq Looked
         /\ s.feed_enabled => FeedStop(s, d, FALSE) \subseteq Looked
<1> DEFINE u == [s EXCEPT !.GdMod = "GridCharge"]
           off == [u EXCEPT !.GdManStr = "Auto", !.grid_started = FALSE]
<1>1. /\ [u EXCEPT !.feed_enabled = FALSE] \in Looked
      /\ [off EXCEPT !.feed_enabled = FALSE] \in Looked
  BY DEF Looked, SiRecord, ChargeModes
<1>2. StopGrid(u, d, FALSE) \subseteq {u, off}
  BY SureCalls DEF StopGrid
<1>3. Refused(s, "GdMod", "GridCharge") = {}
  BY SureCalls
<1> HIDE DEF off
<1>4. ASSUME NEW force \in BOOLEAN, force \/ s.feed_enabled
      PROVE  FeedStop(s, d, force) = {[t EXCEPT !.feed_enabled = FALSE] : t \in StopGrid(u, d, FALSE)}
  BY <1>3, <1>4 DEF FeedStop
<1>5. {[t EXCEPT !.feed_enabled = FALSE] : t \in StopGrid(u, d, FALSE)} \subseteq Looked
  BY <1>1, <1>2
<1> QED
  BY <1>4, <1>5

LEMMA FeedStopKeepsAware ==
  ASSUME Sure, NEW X \in {Aware, Looked}, NEW s \in X, NEW d, NEW force \in BOOLEAN
  PROVE  FeedStop(s, d, force) \subseteq X
<1>1. s \in SiRecord /\ Disobeyed(s) \in X /\ Looked \subseteq X
  BY AwareIs
<1>2. CASE d.connected /\ (force \/ s.feed_enabled)
  BY <1>1, <1>2, FeedStopAware
<1>3. CASE ~ (d.connected /\ (force \/ s.feed_enabled))
  BY <1>1, <1>3 DEF FeedStop
<1> QED
  BY <1>2, <1>3

\* si_start_gen stops feeding first, so a grid that was lost while it fed is
\* no matter (charge_main).
LEMMA StartGenLooked ==
  ASSUME Sure, NEW s \in SiRecord, NEW d, d.connected,
         s.GdMod = "GridFeed" => s.feed_enabled
  PROVE  StartGen(s, d) \subseteq Looked
<1> DEFINE on == [s EXCEPT !.GnManStr = "Start", !.gen_started = TRUE,
                           !.gen_feed_save = s.feed_enabled]
<1>1. on \in SiRecord /\ (~s.feed_enabled => on \in Looked)
  BY DEF Looked, SiRecord, ChargeModes
<1>2. Refused(s, "GnManStr", "Start") = {}
  BY SureCalls
<1> HIDE DEF on
<1>3. FeedStop(on, d, TRUE) \subseteq Looked
  BY <1>1, FeedStopAware
<1> QED
  BY <1>1, <1>2, <1>3 DEF StartGen, on

LEMMA GenAware ==
  ASSUME Sure, NEW X \in {Aware, Looked}, NEW s \in X, NEW d, NEW force \in BOOLEAN
  PROVE  StartGen(s, d) \subseteq X /\ StopGen(s, d, force) \subseteq X
<1> DEFINE on == [s EXCEPT !.GnManStr = "Start", !.gen_started = TRUE,
                           !.gen_feed_save = s.feed_enabled]
           off == [s EXCEPT !.GnManStr = "Auto", !.gen_started = FALSE]
<1>1. s \in SiRecord /\ Disobeyed(s) \in X
  BY AwareIs
<1>2. on \in X /\ off \in X
  <2>1. CASE X = Aware
    BY <2>1 DEF Aware, SiRecord, ChargeModes
  <2>2. CASE X = Looked
    BY <2>2 DEF Looked, SiRecord, ChargeModes
  <2> QED
    BY <2>1, <2>2
<1>3. Refused(s, "GnManStr", "Start") = {} /\ Refused(s, "GnManStr", "Auto") = {}
  BY SureCalls
<1> HIDE DEF on, off
<1>4. FeedStop(on, d, TRUE) \subseteq X /\ FeedStart(off, d, FALSE) \subseteq X
  BY <1>2, FeedStopKeepsAware, FeedStartAware
<1>5. StartGen(s, d) \subseteq X
  BY <1>1, <1>2, <1>3, <1>4 DEF StartGen, on
<1>6. StopGen(s, d, force) \subseteq X
  BY <1>1, <1>2, <1>3, <1>4 DEF StopGen, off
<1> QED
  BY <1>5, <1>6

LEMMA ChargeAware ==
  ASSUME Sure, NEW X \in {Aware, Looked}, NEW s \in X, NEW d, NEW force \in BOOLEAN
  PROVE  /\ ChargeStart(s, d, force) \subseteq X
         /\ ChargeStartCV(s, d, force) \subseteq X
         /\ ChargeStop(s, d, force) \subseteq X
         /\ ChargeEnd(s, d) \subseteq X
<1>1. ASSUME NEW m \in ChargeModes, NEW t \in X PROVE [t EXCEPT !.charge_mode = m] \in X
  <2>1. CASE X = Aware
    BY <2>1 DEF Aware, SiRecord
  <2>2. CASE X = Looked
    BY <2>2 DEF Looked, SiRecord
  <2> QED
    BY <2>1, <2>2
<1>2. ChargeStart(s, d, force) \subseteq X /\ ChargeStartCV(s, d, force) \subseteq X
  <2>1. [s EXCEPT !.charge_mode = 1] \in X /\ [s EXCEPT !.charge_mode = 2] \in X
    BY <1>1 DEF ChargeModes
  <2> QED
    BY <2>1, FeedStartAware DEF ChargeStart, ChargeStartCV
<1>3. ASSUME NEW f \in BOOLEAN PROVE ChargeStop(s, d, f) \subseteq X
  <2> DEFINE idle == [s EXCEPT !.charge_mode = 0]
             GenOff(t) == IF t.gen_started THEN StopGen(t, d, FALSE) ELSE {t}
             GridOff(t) == IF t.grid_started /\ ~t.feed_enabled
                             THEN StopGrid(t, d, FALSE) ELSE {t}
  <2>1. idle \in X
    BY <1>1 DEF ChargeModes
  <2>2. ASSUME NEW t \in X PROVE GenOff(t) \subseteq X
    BY GenAware
  <2>3. ASSUME NEW t \in X PROVE GridOff(t) \subseteq X
    <3>1. t \in SiRecord /\ Disobeyed(t) \in X
      BY AwareIs
    <3>2. CASE t.grid_started /\ ~t.feed_enabled
      <4>1. [t EXCEPT !.GdManStr = "Auto", !.grid_started = FALSE] \in X
        <5>1. CASE X = Aware
          BY <3>2, <5>1 DEF Aware, SiRecord, ChargeModes
        <5>2. CASE X = Looked
          BY <3>2, <5>2 DEF Looked, SiRecord, ChargeModes
        <5> QED
          BY <5>1, <5>2
      <4>2. Refused(t, "GdManStr", "Auto") = {}
        BY SureCalls
      <4> QED
        BY <3>1, <3>2, <4>1, <4>2 DEF StopGrid
    <3> QED
      BY <3>2
  <2> HIDE DEF idle
  <2>4. UNION {GridOff(t) : t \in GenOff(idle)} \subseteq X
    BY <2>1, <2>2, <2>3
  <2> QED
    BY <2>4 DEF ChargeStop, After, idle
<1>4. ChargeEnd(s, d) \subseteq X
  <2> DEFINE Feed(t) == IF On("ce_feed") THEN FeedStart(t, d, FALSE) ELSE {t}
  <2>1. ASSUME NEW t \in X PROVE Feed(t) \subseteq X
    BY FeedStartAware
  <2>2. UNION {Feed(t) : t \in ChargeStop(s, d, FALSE)} \subseteq X
    BY <1>3, <2>1
  <2> QED
    BY <2>2 DEF ChargeEnd, After
<1> QED
  BY <1>2, <1>3, <1>4

\* What a cycle may charge from.
Ready(d) == IF d.connected THEN Looked ELSE Aware

LEMMA SourceReady ==
  ASSUME Sure, NEW d, NEW s \in Ready(d)
  PROVE  /\ ChargeStartGrid(s, d) \subseteq Ready(d)
         /\ EnsureSource(s, d) \subseteq Ready(d)
         /\ GenToGrid(s, d) \subseteq Ready(d)
         /\ GridToGen(s, d) \subseteq Ready(d)
<1>1. Ready(d) \in {Aware, Looked}
  BY DEF Ready
<1>2. ASSUME NEW t \in Ready(d) PROVE StartGrid(t, d) \subseteq Ready(d)
  <2>1. t \in SiRecord /\ Disobeyed(t) \in Ready(d) /\ Refused(t, "GdManStr", "Start") = {}
    BY <1>1, AwareIs, SureCalls
  <2>2. d.connected => [t EXCEPT !.GdManStr = "Start", !.grid_started = TRUE] \in Ready(d)
    BY DEF Ready, Looked, SiRecord, ChargeModes
  <2> QED
    BY <2>1, <2>2 DEF StartGrid
<1>3. ASSUME NEW t \in Ready(d) PROVE ChargeStartGrid(t, d) \subseteq Ready(d)
  <2> DEFINE Grid(u) == IF u.grid_started THEN {u} ELSE StartGrid(u, d)
             fed == IF On("grid_feed") THEN FeedStart(t, d, TRUE) ELSE {t}
  <2>1. ASSUME NEW u \in Ready(d) PROVE Grid(u) \subseteq Ready(d)
    BY <1>2
  <2>2. fed \subseteq Ready(d)
    BY <1>1, FeedStartAware
  <2>3. UNION {Grid(u) : u \in fed} \subseteq Ready(d)
    BY <2>1, <2>2
  <2> QED
    BY <2>3 DEF ChargeStartGrid, After
<1>4. EnsureSource(s, d) \subseteq Ready(d)
  BY <1>1, <1>3, GenAware DEF EnsureSource
<1>5. GenToGrid(s, d) \subseteq Ready(d)
  <2>1. UNION {ChargeStartGrid(t, d) : t \in StopGen(s, d, TRUE)} \subseteq Ready(d)
    BY <1>1, <1>3, GenAware
  <2> QED
    BY <2>1 DEF GenToGrid, After
<1>6. GridToGen(s, d) \subseteq Ready(d)
  <2> DEFINE off == [s EXCEPT !.GdManStr = "Auto", !.grid_started = FALSE]
  <2>1. s \in SiRecord /\ Disobeyed(s) \in Ready(d)
    BY <1>1, AwareIs
  <2>2. ASSUME NEW t \in StopGrid(s, d, TRUE) PROVE StartGen(t, d) \subseteq Ready(d)
    <3>1. CASE ~d.connected
      <4>1. t = Disobeyed(s)
        BY <2>2, <3>1 DEF StopGrid
      <4> QED
        BY <1>1, <2>1, <4>1, GenAware
    <3>2. CASE d.connected
      <4>1. off \in SiRecord /\ (off.GdMod = "GridFeed" => off.feed_enabled)
        BY <3>2 DEF Ready, Looked, SiRecord, ChargeModes
      <4>2. t = off
        BY <2>2, <3>2, SureCalls DEF StopGrid
      <4> HIDE DEF off
      <4>3. StartGen(t, d) \subseteq Looked
        BY <3>2, <4>1, <4>2, StartGenLooked
      <4> QED
        BY <3>2, <4>3 DEF Ready
    <3> QED
      BY <3>1, <3>2
  <2>3. UNION {StartGen(t, d) : t \in StopGrid(s, d, TRUE)} \subseteq Ready(d)
    BY <2>2
  <2> QED
    BY <2>3 DEF GridToGen, After
<1> QED
  BY <1>3, <1>4, <1>5, <1>6

LEMMA ChargeMainReady ==
  ASSUME Sure, NEW d, NEW s \in Ready(d)
  PROVE  ChargeMain(s, d) \subseteq Ready(d)
<1>1. Ready(d) \in {Aware, Looked}
  BY DEF Ready
<1>2. ASSUME NEW t \in Ready(d) PROVE Dates(t, d) \subseteq Ready(d)
  BY <1>1, ChargeAware DEF Dates
<1>3. ASSUME NEW t \in Ready(d) PROVE ChargeControl(t, d) \subseteq Ready(d)
  <2>1. ASSUME NEW u \in Ready(d) PROVE ChargeGoesOn(u, d) \subseteq Ready(d)
    BY <1>1, ChargeAware DEF ChargeGoesOn
  <2>2. UNION {ChargeGoesOn(u, d) : u \in EnsureSource(t, d)} \subseteq Ready(d)
    BY <2>1, SourceReady
  <2> DEFINE Source(u) == IF On("Gen") /\ GenAsked(d) THEN StartGen(u, d)
                          ELSE IF On("Grid") \/ d.ExtVfOk THEN ChargeStartGrid(u, d)
                          ELSE {u}
  <2>3. ASSUME NEW u \in Ready(d) PROVE Source(u) \subseteq Ready(d)
    BY <1>1, GenAware, SourceReady
  <2>4. ChargeStart(t, d, FALSE) \subseteq Ready(d)
    BY <1>1, ChargeAware
  <2>5. UNION {Source(u) : u \in ChargeStart(t, d, FALSE)} \subseteq Ready(d)
    BY <2>3, <2>4
  <2>6. BatteryEmpty(t, d) \subseteq Ready(d)
    BY <2>5 DEF BatteryEmpty, After
  <2> QED
    BY <2>2, <2>6 DEF ChargeControl, After
<1> DEFINE A == GenToGrid(s, d)
           B == UNION {GridToGen(t, d) : t \in A}
           C == UNION {Dates(t, d) : t \in B}
           D == UNION {ChargeControl(t, d) : t \in C}
<1>4. A \subseteq Ready(d)
  BY SourceReady
<1>5. B \subseteq Ready(d)
  BY <1>4, SourceReady
<1>6. C \subseteq Ready(d)
  BY <1>2, <1>5
<1>7. D \subseteq Ready(d)
  BY <1>3, <1>6
<1> QED
  BY <1>7 DEF ChargeMain, After

\* A cycle that is connected looks whether the inverter feeds (feed_main).
LEMMA FeedMainReady ==
  ASSUME Sure, NEW d \in Readings, NEW s \in Aware
  PROVE  FeedMain(s, d) \subseteq Ready(d)
<1> DEFINE Check(t) == FeedCheck(t, d)
           Timeout(t) == FeedTimeout(t, d)
<1>1. FeedDates(s, d) \subseteq Aware
  BY FeedStartAware, FeedStopKeepsAware DEF FeedDates
<1>2. ASSUME NEW t \in Aware PROVE FeedCheck(t, d) \subseteq Ready(d)
  <2>1. "lost" \notin faults
    BY DEF Sure
  <2>2. t \in SiRecord
    BY DEF Aware
  <2>3. CASE ~d.connected
    BY <2>3 DEF FeedCheck, Ready
  <2>4. CASE d.connected /\ ~t.feed_enabled /\ ~t.feed_check
    <3>1. [t EXCEPT !.feed_check = TRUE,
                    !.feed_enabled = t.GdMod = "GridFeed" /\ t.GdManStr = "Start"] \in Looked
      BY DEF Looked, Aware, SiRecord, ChargeModes
    <3> QED
      BY <2>1, <2>4, <3>1 DEF FeedCheck, Ready
  <2>5. CASE d.connected /\ (t.feed_enabled \/ t.feed_check)
    <3>1. t \in Looked
      BY <2>5 DEF Aware, Looked
    <3> QED
      BY <2>5, <3>1 DEF FeedCheck, Ready
  <2> QED
    BY <2>3, <2>4, <2>5
<1>3. ASSUME NEW t \in Ready(d) PROVE FeedTimeout(t, d) \subseteq Ready(d)
  BY FeedStopKeepsAware DEF FeedTimeout, Ready
<1>4. UNION {FeedCheck(t, d) : t \in FeedDates(s, d)} \subseteq Ready(d)
  BY <1>1, <1>2
<1>5. UNION {FeedTimeout(t, d) :
               t \in UNION {FeedCheck(u, d) : u \in FeedDates(s, d)}} \subseteq Ready(d)
  BY <1>3, <1>4
<1> QED
  BY <1>5 DEF FeedMain, After

LEMMA CycleAware ==
  ASSUME Sure, NEW d \in Readings, NEW s \in Aware
  PROVE  Cycle(s, d) \subseteq Aware
<1>1. SyncMain(s, d) \subseteq Aware
  <2>1. [s EXCEPT !.grid_started = (s.GdManStr = "Start"),
                  !.gen_started = (s.GnManStr = "Start"),
                  !.feed_enabled = (s.GdMod = "GridFeed")] \in Aware
    BY DEF Aware, SiRecord, ChargeModes
  <2>2. "lost" \notin faults
    BY DEF Sure
  <2> QED
    BY <2>1, <2>2 DEF SyncMain
<1>2. UNION {FeedMain(t, d) : t \in SyncMain(s, d)} \subseteq Ready(d)
  BY <1>1, FeedMainReady
<1>3. UNION {ChargeMain(t, d) :
               t \in UNION {FeedMain(u, d) : u \in SyncMain(s, d)}} \subseteq Ready(d)
  BY <1>2, ChargeMainReady
<1>4. Ready(d) \subseteq Aware
  BY AwareIs DEF Ready
<1> QED
  BY <1>3, <1>4 DEF Cycle, After

\* Once it has looked, the agent knows when the inverter feeds, through lost
\* connections and restarts of its own, for all settings (feed.js:203-214).
THEOREM FeedKnownTheorem == Spec => []FeedKnown
<1> DEFINE Inv == Sure => si \in Aware
<1>1. Init => Inv
  BY DEF Init, Aware, SiRecord, ChargeModes
<1>2. Inv /\ [Next]_vars => Inv'
  <2> SUFFICES ASSUME Inv, [Next]_vars, Sure'
               PROVE  si' \in Aware
    BY DEF Aware
  <2>1. faults' = faults
    BY DEF Next, ReadMain, Command, Assign, Restart, Panel, vars
  <2>2. Sure /\ si \in Aware
    BY <2>1 DEF Sure
  <2>3. Fresh \in Aware
    BY <2>2 DEF Fresh, Aware, SiRecord, ChargeModes
  <2>4. CASE ReadMain
    BY <2>2, <2>3, <2>4, CycleAware DEF ReadMain
  <2>5. CASE Command
    <3>1. PICK d \in Readings : si' \in Function(Fresh, d)
      BY <2>5 DEF Command
    <3>2. Function(Fresh, d) \subseteq Aware
      BY <2>2, <2>3, ChargeAware, FeedStartAware, FeedStopKeepsAware DEF Function
    <3> QED
      BY <3>1, <3>2
  <2>6. CASE Restart
    BY <2>2, <2>6 DEF Restart, Aware, SiRecord, ChargeModes
  <2>7. CASE Panel \/ Assign
    BY <2>2, <2>7 DEF Panel, Assign, Sure
  <2>8. CASE UNCHANGED vars
    BY <2>2, <2>8 DEF vars
  <2> QED
    BY <2>4, <2>5, <2>6, <2>7, <2>8 DEF Next
<1>3. Inv => FeedKnown
  BY DEF Sure, Aware, FeedKnown
<1> QED
  BY <1>1, <1>2, <1>3, PTL DEF Spec

-----------------------------------------------------------------------------
(* Why sources are on for a purpose.  While no call fails the flags are    *)
(* exact (Loose).  Between two functions, moreover, what is on without a   *)
(* charge is on for feeding; and where nobody feeds, the generator and the *)
(* grid are not on together (Exact).                                       *)

Calm == faults = {} /\ (NobodyFeeds \/ ~On("gen_enabled"))

Loose == {s \in SiRecord :
            /\ s.grid_started <=> s.GdManStr = "Start"
            /\ s.gen_started <=> s.GnManStr = "Start"
            /\ s.feed_enabled <=> s.GdMod = "GridFeed"
            /\ NobodyFeeds => /\ ~s.feed_enabled /\ ~s.gen_feed_save
                              /\ ~ (s.grid_started /\ s.gen_started)}

Exact == {s \in Loose :
            s.charge_mode = 0 => ~s.gen_started /\ (s.grid_started => s.feed_enabled)}

\* A charge is on; where nobody feeds, no source is.
Waiting == {s \in Exact : /\ s.charge_mode # 0
                          /\ NobodyFeeds => ~s.grid_started /\ ~s.gen_started}

LEMMA CalmCalls ==
  ASSUME Calm, NEW d \in Readings
  PROVE  /\ d.connected /\ d.temp # "cold"
         /\ \A s, c, v : Refused(s, c, v) = {}
BY DEF Calm, Readings, Refused

\* Each call in turn: its outcome is certain.
LEMMA CalmGrid ==
  ASSUME Calm, NEW d \in Readings, NEW s
  PROVE  /\ StartGrid(s, d) = {[s EXCEPT !.GdManStr = "Start", !.grid_started = TRUE]}
         /\ \A force \in BOOLEAN :
              StopGrid(s, d, force) =
                IF s.charge_mode # 0 /\ ~force THEN {s}
                ELSE {[s EXCEPT !.GdManStr = "Auto", !.grid_started = FALSE]}
BY CalmCalls DEF StartGrid, StopGrid

LEMMA CalmFeedStart ==
  ASSUME Calm, ~NobodyFeeds, NEW d \in Readings, NEW s \in Loose, NEW force \in BOOLEAN
  PROVE  \A t \in FeedStart(s, d, force) :
           /\ t \in Loose /\ t.charge_mode = s.charge_mode
           /\ t.gen_started = s.gen_started
           /\ t = s \/ t.feed_enabled
<1> DEFINE u == [s EXCEPT !.GdMod = "GridFeed"]
           on == [u EXCEPT !.GdManStr = "Start", !.grid_started = TRUE]
           fed == [on EXCEPT !.feed_enabled = TRUE]
<1>1. /\ fed \in Loose /\ fed.charge_mode = s.charge_mode
      /\ fed.gen_started = s.gen_started /\ fed.feed_enabled
  BY DEF Loose, SiRecord, ChargeModes
<1>2. StartGrid(u, d) = {on}
  BY CalmGrid
<1>3. Refused(s, "GdMod", "GridFeed") = {} /\ d.connected
  BY CalmCalls
<1> HIDE DEF u, on
<1>4. FeedStart(s, d, force) \subseteq {s, fed}
  BY <1>2, <1>3 DEF FeedStart, u
<1> QED
  BY <1>1, <1>4

\* feed_stop lets the grid go where no charge needs it.
LEMMA CalmFeedStop ==
  ASSUME Calm, NEW d \in Readings, NEW s \in Loose, NEW force \in BOOLEAN
  PROVE  \A t \in FeedStop(s, d, force) :
           /\ t \in Loose /\ t.charge_mode = s.charge_mode
           /\ t.gen_started = s.gen_started
           /\ t = s \/ (s.charge_mode = 0 => ~t.grid_started)
<1> DEFINE u == [s EXCEPT !.GdMod = "GridCharge"]
           off == [u EXCEPT !.GdManStr = "Auto", !.grid_started = FALSE]
           stay == [u EXCEPT !.feed_enabled = FALSE]
           gone == [off EXCEPT !.feed_enabled = FALSE]
<1>1. /\ stay \in Loose /\ stay.charge_mode = s.charge_mode
      /\ stay.gen_started = s.gen_started
  BY DEF Loose, SiRecord, ChargeModes
<1>2. /\ gone \in Loose /\ gone.charge_mode = s.charge_mode
      /\ gone.gen_started = s.gen_started /\ ~gone.grid_started
  BY DEF Loose, SiRecord, ChargeModes
<1>3. u.charge_mode = s.charge_mode
  BY DEF Loose, SiRecord
<1>4. StopGrid(u, d, FALSE) = IF u.charge_mode # 0 THEN {u} ELSE {off}
  BY CalmGrid
<1>5. Refused(s, "GdMod", "GridCharge") = {} /\ d.connected
  BY CalmCalls
<1> HIDE DEF u, off
<1>6. FeedStop(s, d, force) \subseteq
        {s} \cup {[t EXCEPT !.feed_enabled = FALSE] : t \in StopGrid(u, d, FALSE)}
  BY <1>5 DEF FeedStop, u
<1> HIDE DEF stay, gone
<1>7. {[t EXCEPT !.feed_enabled = FALSE] : t \in StopGrid(u, d, FALSE)} =
        IF s.charge_mode # 0 THEN {stay} ELSE {gone}
  BY <1>3, <1>4 DEF stay, gone
<1> QED
  BY <1>1, <1>2, <1>6, <1>7

LEMMA CalmStartGen ==
  ASSUME Calm, NEW d \in Readings, NEW s \in Loose, s.charge_mode # 0,
         NobodyFeeds => ~s.grid_started
  PROVE  StartGen(s, d) \subseteq Exact
<1> DEFINE on == [s EXCEPT !.GnManStr = "Start", !.gen_started = TRUE,
                           !.gen_feed_save = s.feed_enabled]
<1>1. on \in Loose /\ on.charge_mode # 0
  BY DEF Loose, SiRecord, ChargeModes
<1>2. Refused(s, "GnManStr", "Start") = {} /\ d.connected
  BY CalmCalls
<1> HIDE DEF on
<1>3. \A t \in FeedStop(on, d, TRUE) : t \in Loose /\ t.charge_mode # 0
  BY <1>1, CalmFeedStop
<1>4. StartGen(s, d) \subseteq {on} \cup FeedStop(on, d, TRUE)
  BY <1>2 DEF StartGen, on
<1> QED
  BY <1>1, <1>3, <1>4 DEF Exact

LEMMA CalmStopGen ==
  ASSUME Calm, NEW d \in Readings, NEW s \in Loose, NEW force \in BOOLEAN,
         s.charge_mode = 0 \/ force
  PROVE  \A t \in StopGen(s, d, force) :
           t \in Loose /\ t.charge_mode = s.charge_mode /\ ~t.gen_started
<1> DEFINE off == [s EXCEPT !.GnManStr = "Auto", !.gen_started = FALSE]
<1>1. off \in Loose /\ off.charge_mode = s.charge_mode /\ ~off.gen_started
  BY DEF Loose, SiRecord, ChargeModes
<1>2. Refused(s, "GnManStr", "Auto") = {} /\ d.connected
  BY CalmCalls
<1>3. s.gen_feed_save => ~NobodyFeeds
  BY DEF Loose
<1> HIDE DEF off
<1>4. ASSUME s.gen_feed_save, NEW t \in FeedStart(off, d, FALSE)
      PROVE  t \in Loose /\ t.charge_mode = s.charge_mode /\ ~t.gen_started
  <2>1. ~NobodyFeeds /\ off \in Loose
    BY <1>1, <1>3, <1>4
  <2>2. /\ t \in Loose /\ t.charge_mode = off.charge_mode
        /\ t.gen_started = off.gen_started
    BY <1>4, <2>1, CalmFeedStart
  <2> QED
    BY <1>1, <2>2
<1>5. StopGen(s, d, force) = IF s.gen_feed_save THEN FeedStart(off, d, FALSE) ELSE {off}
  BY <1>2 DEF StopGen, off
<1> QED
  BY <1>1, <1>4, <1>5

-----------------------------------------------------------------------------
\* charge_stop leaves on only what feeds.
LEMMA CalmChargeStop ==
  ASSUME Calm, NEW d \in Readings, NEW s \in Exact, NEW force \in BOOLEAN
  PROVE  ChargeStop(s, d, force) \subseteq Exact
<1> DEFINE idle == [s EXCEPT !.charge_mode = 0]
           GenOff(t) == IF t.gen_started THEN StopGen(t, d, FALSE) ELSE {t}
           GridOff(t) == IF t.grid_started /\ ~t.feed_enabled
                           THEN StopGrid(t, d, FALSE) ELSE {t}
<1>1. idle \in Loose /\ idle.charge_mode = 0
  BY DEF Exact, Loose, SiRecord, ChargeModes
<1> HIDE DEF idle
<1>2. ASSUME NEW t \in GenOff(idle)
      PROVE  t \in Loose /\ t.charge_mode = 0 /\ ~t.gen_started
  BY <1>1, <1>2, CalmStopGen
<1>3. ASSUME NEW t \in Loose, t.charge_mode = 0, ~t.gen_started
      PROVE  GridOff(t) \subseteq Exact
  <2>1. [t EXCEPT !.GdManStr = "Auto", !.grid_started = FALSE] \in Exact
    BY <1>3 DEF Exact, Loose, SiRecord, ChargeModes
  <2>2. CASE t.grid_started /\ ~t.feed_enabled
    <3>1. StopGrid(t, d, FALSE) = {[t EXCEPT !.GdManStr = "Auto", !.grid_started = FALSE]}
      BY <1>3, CalmGrid
    <3> QED
      BY <2>1, <2>2, <3>1
  <2>3. CASE ~ (t.grid_started /\ ~t.feed_enabled)
    BY <1>3, <2>3 DEF Exact
  <2> QED
    BY <2>2, <2>3
<1> HIDE DEF GenOff, GridOff
<1>4. UNION {GridOff(t) : t \in GenOff(idle)} \subseteq Exact
  BY <1>2, <1>3
<1> QED
  BY <1>4 DEF ChargeStop, After, idle, GenOff, GridOff

LEMMA CalmFeeding ==
  ASSUME Calm, NEW d \in Readings, NEW s \in Exact, NEW force \in BOOLEAN
  PROVE  /\ ~NobodyFeeds => FeedStart(s, d, force) \subseteq Exact
         /\ FeedStop(s, d, force) \subseteq Exact
BY CalmFeedStart, CalmFeedStop DEF Exact

\* A charge that begins finds no source on, or there is feeding.
LEMMA CalmChargeStart ==
  ASSUME Calm, NEW d \in Readings, NEW s \in Exact, NEW force \in BOOLEAN
  PROVE  /\ ChargeStart(s, d, force) \subseteq Exact
         /\ ChargeStartCV(s, d, force) \subseteq Exact
         /\ s.charge_mode = 0 => ChargeStart(s, d, force) \subseteq Waiting
<1> DEFINE cc == [s EXCEPT !.charge_mode = 1]
           cv == [s EXCEPT !.charge_mode = 2]
<1>1. cc \in Exact /\ cv \in Exact /\ cc.charge_mode # 0 /\ cv.charge_mode # 0
  BY DEF Exact, Loose, SiRecord, ChargeModes
<1>2. s.charge_mode = 0 => cc \in Waiting
  BY DEF Waiting, Exact, Loose, SiRecord, ChargeModes
<1>3. On("charge_feed") \/ On("cc_feed") \/ On("cv_feed") => ~NobodyFeeds
  BY DEF On, NobodyFeeds
<1> HIDE DEF cc, cv
<1>4. ASSUME ~NobodyFeeds, NEW t \in FeedStart(cc, d, TRUE)
      PROVE  t \in Waiting
  <2>1. cc \in Loose
    BY <1>1 DEF Exact
  <2>2. t \in Loose /\ t.charge_mode = cc.charge_mode
    BY <1>4, <2>1, CalmFeedStart
  <2>3. t.charge_mode # 0
    BY <1>1, <2>2
  <2> QED
    BY <1>4, <2>2, <2>3 DEF Waiting, Exact
<1>5. ~NobodyFeeds => FeedStart(cv, d, FALSE) \subseteq Exact
  BY <1>1, CalmFeeding
<1>6. Waiting \subseteq Exact
  BY DEF Waiting
<1>7. ChargeStart(s, d, force) \subseteq Exact
  BY <1>1, <1>3, <1>4, <1>6 DEF ChargeStart, cc
<1>8. ChargeStartCV(s, d, force) \subseteq Exact
  BY <1>1, <1>3, <1>5 DEF ChargeStartCV, cv
<1>9. s.charge_mode = 0 => ChargeStart(s, d, force) \subseteq Waiting
  BY <1>2, <1>3, <1>4, CalmCalls DEF ChargeStart, cc
<1> QED
  BY <1>7, <1>8, <1>9

LEMMA CalmChargeEnd ==
  ASSUME Calm, NEW d \in Readings, NEW s \in Exact
  PROVE  ChargeEnd(s, d) \subseteq Exact
<1> DEFINE Feed(t) == IF On("ce_feed") THEN FeedStart(t, d, FALSE) ELSE {t}
<1>1. On("ce_feed") => ~NobodyFeeds
  BY DEF On, NobodyFeeds
<1>2. ASSUME NEW t \in Exact PROVE Feed(t) \subseteq Exact
  BY <1>1, CalmFeeding
<1>3. ChargeStop(s, d, FALSE) \subseteq Exact
  BY CalmChargeStop
<1>4. UNION {Feed(t) : t \in ChargeStop(s, d, FALSE)} \subseteq Exact
  BY <1>2, <1>3
<1> QED
  BY <1>4 DEF ChargeEnd, After

\* The source of a charge.
LEMMA CalmSource ==
  ASSUME Calm, NEW d \in Readings, NEW s \in Loose, s.charge_mode # 0,
         NobodyFeeds => ~s.gen_started
  PROVE  ChargeStartGrid(s, d) \subseteq Exact
<1> DEFINE Grid(t) == IF t.grid_started THEN {t} ELSE StartGrid(t, d)
           fed == IF On("grid_feed") THEN FeedStart(s, d, TRUE) ELSE {s}
<1>1. On("grid_feed") => ~NobodyFeeds
  BY DEF On, NobodyFeeds
<1>2. ASSUME NEW t \in fed
      PROVE  t \in Loose /\ t.charge_mode # 0 /\ (NobodyFeeds => ~t.gen_started)
  BY <1>1, <1>2, CalmFeedStart
<1>3. ASSUME NEW t \in Loose, t.charge_mode # 0, NobodyFeeds => ~t.gen_started
      PROVE  Grid(t) \subseteq Exact
  <2>1. [t EXCEPT !.GdManStr = "Start", !.grid_started = TRUE] \in Exact
    BY <1>3 DEF Exact, Loose, SiRecord, ChargeModes
  <2>2. t \in Exact
    BY <1>3 DEF Exact
  <2>3. StartGrid(t, d) = {[t EXCEPT !.GdManStr = "Start", !.grid_started = TRUE]}
    BY CalmGrid
  <2> QED
    BY <2>1, <2>2, <2>3
<1> HIDE DEF Grid, fed
<1>4. UNION {Grid(t) : t \in fed} \subseteq Exact
  BY <1>2, <1>3
<1> QED
  BY <1>4 DEF ChargeStartGrid, After, Grid, fed

\* Over to the other source only where nobody feeds, and one after the other.
LEMMA CalmSwitch ==
  ASSUME Calm, NEW d \in Readings, NEW s \in Exact
  PROVE  GenToGrid(s, d) \subseteq Exact /\ GridToGen(s, d) \subseteq Exact
<1>1. CASE ~On("gen_enabled")
  BY <1>1 DEF GenToGrid, GridToGen
<1>2. CASE On("gen_enabled")
  <2>1. NobodyFeeds
    BY <1>2 DEF Calm
  <2>2. s \in Loose /\ ((s.grid_started \/ s.gen_started) => s.charge_mode # 0)
    BY <2>1 DEF Exact, Loose
  <2>3. ASSUME s.gen_started PROVE GenToGrid(s, d) \subseteq Exact
    <3>1. \A t \in StopGen(s, d, TRUE) :
            t \in Loose /\ t.charge_mode # 0 /\ ~t.gen_started
      BY <2>2, <2>3, CalmStopGen
    <3>2. UNION {ChargeStartGrid(t, d) : t \in StopGen(s, d, TRUE)} \subseteq Exact
      BY <3>1, CalmSource
    <3> QED
      BY <3>2 DEF GenToGrid, After
  <2>4. ASSUME s.grid_started PROVE GridToGen(s, d) \subseteq Exact
    <3> DEFINE off == [s EXCEPT !.GdManStr = "Auto", !.grid_started = FALSE]
    <3>1. off \in Loose /\ off.charge_mode # 0 /\ ~off.grid_started
      BY <2>2, <2>4 DEF Loose, SiRecord, ChargeModes
    <3>2. StopGrid(s, d, TRUE) = {off}
      BY CalmGrid
    <3> HIDE DEF off
    <3>3. UNION {StartGen(t, d) : t \in StopGrid(s, d, TRUE)} \subseteq Exact
      BY <3>1, <3>2, CalmStartGen
    <3> QED
      BY <3>3 DEF GridToGen, After
  <2> QED
    BY <2>3, <2>4 DEF GenToGrid, GridToGen
<1> QED
  BY <1>1, <1>2

LEMMA CalmControl ==
  ASSUME Calm, NEW d \in Readings, NEW s \in Exact
  PROVE  ChargeControl(s, d) \subseteq Exact
<1>1. ASSUME NEW t \in Exact PROVE ChargeGoesOn(t, d) \subseteq Exact
  <2>1. /\ ChargeStop(t, d, FALSE) \subseteq Exact
        /\ ChargeEnd(t, d) \subseteq Exact
        /\ ChargeStartCV(t, d, FALSE) \subseteq Exact
    BY CalmChargeStop, CalmChargeEnd, CalmChargeStart
  <2> QED
    BY <2>1 DEF ChargeGoesOn
<1>2. CASE s.charge_mode # 0
  <2>1. ASSUME ~s.grid_started, ~s.gen_started
        PROVE  StartGen(s, d) \subseteq Exact /\ ChargeStartGrid(s, d) \subseteq Exact
    BY <1>2, <2>1, CalmStartGen, CalmSource DEF Exact
  <2>2. EnsureSource(s, d) \subseteq Exact
    BY <2>1 DEF EnsureSource
  <2>3. UNION {ChargeGoesOn(t, d) : t \in EnsureSource(s, d)} \subseteq Exact
    BY <1>1, <2>2
  <2> QED
    BY <1>2, <2>3 DEF ChargeControl, After
<1>3. CASE s.charge_mode = 0
  <2> DEFINE Source(t) == IF On("Gen") /\ GenAsked(d) THEN StartGen(t, d)
                          ELSE IF On("Grid") \/ d.ExtVfOk THEN ChargeStartGrid(t, d)
                          ELSE {t}
  <2>1. ASSUME NEW t \in Waiting PROVE Source(t) \subseteq Exact
    <3>1. t \in Exact /\ t \in Loose /\ t.charge_mode # 0
      BY DEF Waiting, Exact
    <3>2. NobodyFeeds => ~t.grid_started /\ ~t.gen_started
      BY DEF Waiting
    <3>3. StartGen(t, d) \subseteq Exact /\ ChargeStartGrid(t, d) \subseteq Exact
      BY <3>1, <3>2, CalmStartGen, CalmSource
    <3> QED
      BY <3>1, <3>3
  <2>2. ChargeStart(s, d, FALSE) \subseteq Waiting
    BY <1>3, CalmChargeStart
  <2>3. UNION {Source(t) : t \in ChargeStart(s, d, FALSE)} \subseteq Exact
    BY <2>1, <2>2
  <2>4. BatteryEmpty(s, d) \subseteq Exact
    BY <2>3 DEF BatteryEmpty, After
  <2> QED
    BY <1>3, <2>4 DEF ChargeControl
<1> QED
  BY <1>2, <1>3

LEMMA CalmChargeMain ==
  ASSUME Calm, NEW d \in Readings, NEW s \in Exact
  PROVE  ChargeMain(s, d) \subseteq Exact
<1> DEFINE A == GenToGrid(s, d)
           B == UNION {GridToGen(t, d) : t \in A}
           C == UNION {Dates(t, d) : t \in B}
           D == UNION {ChargeControl(t, d) : t \in C}
<1>1. A \subseteq Exact
  BY CalmSwitch
<1>2. B \subseteq Exact
  BY <1>1, CalmSwitch
<1>3. ASSUME NEW t \in Exact PROVE Dates(t, d) \subseteq Exact
  BY CalmChargeStart, CalmChargeStop DEF Dates
<1>4. C \subseteq Exact
  BY <1>2, <1>3
<1>5. D \subseteq Exact
  BY <1>4, CalmControl
<1> QED
  BY <1>5 DEF ChargeMain, After

LEMMA CalmCycle ==
  ASSUME Calm, NEW d \in Readings, NEW s \in Exact
  PROVE  Cycle(s, d) \subseteq Exact
<1>1. d.due = "feed start" => ~NobodyFeeds
  BY DEF Readings, Due, On, NobodyFeeds
<1>2. "lost" \notin faults
  BY DEF Calm
<1>3. SyncMain(s, d) \subseteq Exact
  <2>1. [s EXCEPT !.grid_started = (s.GdManStr = "Start"),
                  !.gen_started = (s.GnManStr = "Start"),
                  !.feed_enabled = (s.GdMod = "GridFeed")] \in Exact
    BY DEF Exact, Loose, SiRecord, ChargeModes
  <2> QED
    BY <1>2, <2>1 DEF SyncMain
<1>4. ASSUME NEW t \in Exact PROVE FeedDates(t, d) \subseteq Exact
  BY <1>1, CalmFeeding DEF FeedDates
<1>5. ASSUME NEW t \in Exact PROVE FeedCheck(t, d) \subseteq Exact
  <2>1. ~t.feed_enabled =>
          [t EXCEPT !.feed_check = TRUE,
                    !.feed_enabled = t.GdMod = "GridFeed" /\ t.GdManStr = "Start"] \in Exact
    BY DEF Exact, Loose, SiRecord, ChargeModes
  <2> QED
    BY <1>2, <2>1 DEF FeedCheck
<1>6. ASSUME NEW t \in Exact PROVE FeedTimeout(t, d) \subseteq Exact
  BY CalmFeeding DEF FeedTimeout
<1>7. ASSUME NEW t \in Exact PROVE FeedMain(t, d) \subseteq Exact
  <2>1. UNION {FeedCheck(u, d) : u \in FeedDates(t, d)} \subseteq Exact
    BY <1>4, <1>5
  <2>2. UNION {FeedTimeout(u, d) :
                 u \in UNION {FeedCheck(w, d) : w \in FeedDates(t, d)}} \subseteq Exact
    BY <1>6, <2>1
  <2> QED
    BY <2>2 DEF FeedMain, After
<1>8. UNION {FeedMain(t, d) : t \in SyncMain(s, d)} \subseteq Exact
  BY <1>3, <1>7
<1>9. UNION {ChargeMain(t, d) :
               t \in UNION {FeedMain(u, d) : u \in SyncMain(s, d)}} \subseteq Exact
  BY <1>8, CalmChargeMain
<1> QED
  BY <1>9 DEF Cycle, After

LEMMA CalmFunction ==
  ASSUME Calm, NEW d \in Readings, NEW s \in Exact
  PROVE  Function(s, d) \subseteq Exact
<1>1. On("feeding") => ~NobodyFeeds
  BY DEF On, NobodyFeeds
<1> QED
  BY <1>1, CalmChargeStart, CalmChargeStop, CalmChargeEnd, CalmFeeding DEF Function

LEMMA CalmAlways == Spec => [](Calm => si \in Exact)
<1> DEFINE Inv == Calm => si \in Exact
<1>1. Init => Inv
  BY DEF Init, Exact, Loose, SiRecord, ChargeModes
<1>2. Inv /\ [Next]_vars => Inv'
  <2> SUFFICES ASSUME Inv, [Next]_vars, Calm'
               PROVE  (si \in Exact)'
    OBVIOUS
  <2>1. faults' = faults /\ settings' = settings
    BY DEF Next, ReadMain, Command, Assign, Restart, Panel, vars
  <2>2. Calm /\ si \in Exact
    BY <2>1 DEF Calm, NobodyFeeds, On
  <2>3. SUFFICES si' \in Exact
    BY <2>1 DEF Exact, Loose, NobodyFeeds
  <2>4. Fresh \in Exact
    BY <2>2 DEF Fresh, Exact, Loose, SiRecord, ChargeModes
  <2>5. CASE ReadMain
    <3>1. PICK d \in Readings : si' \in Cycle(Fresh, d)
      BY <2>5 DEF ReadMain
    <3> QED
      BY <2>2, <2>4, <3>1, CalmCycle
  <2>6. CASE Command
    <3>1. PICK d \in Readings : si' \in Function(Fresh, d)
      BY <2>6 DEF Command
    <3> QED
      BY <2>2, <2>4, <3>1, CalmFunction
  <2>7. CASE Restart \/ Panel \/ Assign
    BY <2>2, <2>7 DEF Restart, Panel, Assign, Calm
  <2>8. CASE UNCHANGED vars
    BY <2>2, <2>8 DEF vars
  <2> QED
    BY <2>5, <2>6, <2>7, <2>8 DEF Next
<1> QED
  BY <1>1, <1>2, PTL DEF Spec

\* While calls go through and nobody feeds, the grid and the generator are never
\* on together, whatever is read and done (charge_main's switch-over).
THEOREM OneSourceTheorem == Spec => []OneSource
<1>1. (Calm => si \in Exact) => OneSource
  BY DEF Calm, Exact, Loose, OneSource
<1> QED
  BY <1>1, CalmAlways, PTL

\* While calls go through, a source is on only for a charge or for feeding, where
\* nobody feeds or there is no generator to switch to (charge_stop, feed_stop).
THEOREM HeldForUseTheorem == Spec => []HeldForUse
<1>1. (Calm => si \in Exact) => HeldForUse
  <2> SUFFICES ASSUME Calm, si \in Exact, si.charge_mode = 0, ~si.feed_enabled
               PROVE  si.GdManStr = "Auto" /\ si.GnManStr = "Auto"
    BY DEF Calm, HeldForUse
  <2> QED
    BY DEF Exact, Loose, SiRecord
<1> QED
  BY <1>1, CalmAlways, PTL
=============================================================================
