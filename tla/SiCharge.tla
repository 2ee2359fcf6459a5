------------------------------ MODULE SiCharge ------------------------------
(***************************************************************************)
(* The SI agent's control of its battery inverter (agents/si): charging,   *)
(* the grid, the generator and feeding into the grid.                      *)
(*                                                                         *)
(* Three reasons to hold the grid (a charge, feeding, the operator) and    *)
(* two to hold the generator meet in flags that the agent keeps in memory  *)
(* and in three channels of the inverter, which it sets over SMANet with   *)
(* calls that may fail.  Only charge_mode outlives the process.            *)
(*                                                                         *)
(* Everything happens in one thread: a cycle (read.js) runs to its end,    *)
(* and the functions an operator calls come between two cycles.  So a step *)
(* is a cycle or a function, built from operators named as the code's,     *)
(* each the set of states it may leave s in, given the readings d.         *)
(*                                                                         *)
(* While data.Run is false a cycle and charge_start do nothing, which is a *)
(* stuttering step.  The agent is not readonly and mirrors no other one.   *)
(***************************************************************************)
EXTENDS Naturals, FiniteSets

CONSTANTS
  Flags,    \* the settings that may be switched on
  Cases     \* pairs of settings and faults to explore

(* Settings are the properties of that name.  "Gen" and "Grid" say what    *)
(* charge_source holds, "cccv" that charge_method is CCCV, and "feeding"   *)
(* that someone asks for feeding, by date or by hand.                      *)
KnownFlags == {"gen_enabled", "ignore_gnrn", "Gen", "Grid", "cccv", "dyngrid",
               "charge_feed", "cc_feed", "cv_feed", "ce_feed", "grid_feed",
               "have_battery_temp", "sync", "feeding"}

(* lost: a call fails and changes nothing; late: it is taken to have       *)
(* failed, but took effect; offline: SMANet may be disconnected in a cycle *)
(* or call; restart: of the agent; panel: someone sets a channel; assign:  *)
(* someone sets a property that the functions of charge and feed keep;     *)
(* frost: the battery may be at or below zero.                             *)
Faults == {"lost", "late", "offline", "restart", "panel", "assign", "frost"}

ASSUME FlagsAssumption == Flags \subseteq KnownFlags
ASSUME CasesAssumption ==
  Cases \subseteq [settings : SUBSET Flags, faults : SUBSET Faults]

VARIABLES
  si,         \* the agent's flags and the inverter's channels
  settings,   \* the settings that are on
  faults      \* the faults there may be

vars == <<si, settings, faults>>

ChargeModes == 0..2   \* CHARGE_MODE_NONE, CC, CV

SiRecord == [charge_mode : ChargeModes,
             grid_started : BOOLEAN, gen_started : BOOLEAN,
             feed_enabled : BOOLEAN, gen_feed_save : BOOLEAN,
             feed_check : BOOLEAN,
             GdManStr : {"Start", "Auto"}, GnManStr : {"Start", "Auto"},
             GdMod : {"GridFeed", "GridCharge"},
             obeyed : BOOLEAN]   \* history: every call of the last step went through

On(flag) == flag \in settings

-----------------------------------------------------------------------------
(* What the agent reads: once per cycle, and afresh before a function      *)
(* (si_can_cb refreshes the data in every pass).                           *)

Due == {"nothing"}
  \cup (IF On("feeding") THEN {"feed start", "feed stop"} ELSE {})
  \cup (IF On("sync") THEN {"sync"} ELSE {})
  \cup {"charge start", "charge stop", "feed timeout"}

\* battery: pround(battery_voltage) against charge_start_voltage and
\* charge_end_voltage, unread when out of range or before the first cycle.
\* due: the date or timer that has come; at most one in a cycle (a bound).
Readings == [connected : IF "offline" \in faults THEN BOOLEAN ELSE {TRUE},
             GnRn : IF On("ignore_gnrn") THEN {FALSE} ELSE BOOLEAN,
             GnOn : BOOLEAN, ExtVfOk : BOOLEAN,
             battery : {"unread", "empty", "between", "full"},
             temp : {"good"}
               \cup (IF On("have_battery_temp") THEN {"risen"} ELSE {})
               \cup (IF On("have_battery_temp") /\ "frost" \in faults
                      THEN {"cold"} ELSE {}),
             due : Due]

\* The generator may be used: it is asked for, or nobody cares
GenAsked(d) == On("ignore_gnrn") \/ d.GnRn

-----------------------------------------------------------------------------
(* Calls over SMANet (utils.js)                                            *)

After(S, Op(_)) == UNION {Op(s) : s \in S}

Disobeyed(s) == [s EXCEPT !.obeyed = FALSE]

\* si_smanet_set_value that does not read back what it set
Refused(s, channel, value) ==
  (IF "lost" \in faults THEN {Disobeyed(s)} ELSE {}) \cup
  (IF "late" \in faults THEN {Disobeyed([s EXCEPT ![channel] = value])} ELSE {})

\* si_start_grid; nothing at all, and no error, while SMANet is not connected
StartGrid(s, d) ==
  IF ~d.connected THEN {Disobeyed(s)}
  ELSE {[s EXCEPT !.GdManStr = "Start", !.grid_started = TRUE]}
         \cup Refused(s, "GdManStr", "Start")

\* Faulty variant: the flag goes before the call has succeeded
StopGridUnsure(s, d, force) ==
  IF ~d.connected THEN {Disobeyed(s)}
  ELSE IF s.charge_mode # 0 /\ ~force THEN {s}
  ELSE {[s EXCEPT !.GdManStr = "Auto"]} \cup Refused(s, "GdManStr", "Auto")

StopGrid(s, d, force) ==
  IF ~d.connected THEN {Disobeyed(s)}
  ELSE IF s.charge_mode # 0 /\ ~force THEN {s}
  ELSE {[s EXCEPT !.GdManStr = "Auto", !.grid_started = FALSE]}
         \cup Refused(s, "GdManStr", "Auto")

FeedStart(s, d, force) ==
  IF \/ ~force /\ (s.feed_enabled \/ (s.charge_mode # 0 /\ On("dyngrid")))
     \/ d.GnOn
    THEN {s}
  ELSE IF ~d.connected THEN {Disobeyed(s)}
  ELSE {[t EXCEPT !.feed_enabled = TRUE] :
          t \in StartGrid([s EXCEPT !.GdMod = "GridFeed"], d)}
         \cup Refused(s, "GdMod", "GridFeed")

\* Faulty variant: the grid is left to the charge that may never come
FeedStopKeepsGrid(s, d, force) ==
  IF ~s.feed_enabled /\ ~force THEN {s}
  ELSE IF ~d.connected THEN {Disobeyed(s)}
  ELSE {[s EXCEPT !.GdMod = "GridCharge", !.feed_enabled = FALSE]}
         \cup Refused(s, "GdMod", "GridCharge")

\* The grid stays on for a charge
FeedStop(s, d, force) ==
  IF ~s.feed_enabled /\ ~force THEN {s}
  ELSE IF ~d.connected THEN {Disobeyed(s)}
  ELSE {[t EXCEPT !.feed_enabled = FALSE] :
          t \in StopGrid([s EXCEPT !.GdMod = "GridCharge"], d, FALSE)}
         \cup Refused(s, "GdMod", "GridCharge")

\* The generator must not feed the grid
StartGen(s, d) ==
  LET on == [s EXCEPT !.GnManStr = "Start", !.gen_started = TRUE,
                      !.gen_feed_save = s.feed_enabled]
  IN IF ~d.connected THEN {Disobeyed(s)}
     ELSE (IF s.feed_enabled THEN FeedStop(on, d, TRUE) ELSE {on})
            \cup Refused(s, "GnManStr", "Start")

StopGen(s, d, force) ==
  LET off == [s EXCEPT !.GnManStr = "Auto", !.gen_started = FALSE]
  IN IF ~d.connected THEN {Disobeyed(s)}
     ELSE IF s.charge_mode # 0 /\ ~force THEN {s}
     ELSE (IF s.gen_feed_save THEN FeedStart(off, d, FALSE) ELSE {off})
            \cup Refused(s, "GnManStr", "Auto")

-----------------------------------------------------------------------------
(* Charging (charge.js)                                                    *)

\* Faulty variant: the mode is cleared last
ChargeStopLate(s, d, force) ==
  LET GenOff(t) == IF t.gen_started THEN StopGen(t, d, FALSE) ELSE {t}
      GridOff(t) == IF t.grid_started /\ ~t.feed_enabled
                      THEN StopGrid(t, d, FALSE) ELSE {t}
  IN IF s.charge_mode = 0 /\ ~force THEN {s}
     ELSE {[t EXCEPT !.charge_mode = 0] : t \in After(GenOff(s), GridOff)}

ChargeStop(s, d, force) ==
  LET GenOff(t) == IF t.gen_started THEN StopGen(t, d, FALSE) ELSE {t}
      GridOff(t) == IF t.grid_started /\ ~t.feed_enabled
                      THEN StopGrid(t, d, FALSE) ELSE {t}
  IN IF s.charge_mode = 0 /\ ~force THEN {s}
     ELSE After(GenOff([s EXCEPT !.charge_mode = 0]), GridOff)

ChargeStart(s, d, force) ==
  LET cc == [s EXCEPT !.charge_mode = 1]
  IN IF (s.charge_mode # 0 /\ ~force) \/ d.temp = "cold" THEN {s}
     ELSE IF On("charge_feed") \/ On("cc_feed") THEN FeedStart(cc, d, TRUE)
     ELSE {cc}

\* Faulty variant: the next mode, whatever the present one
ChargeStartNext(s, d, force) ==
  IF s.charge_mode = 2 /\ ~force THEN {s}
  ELSE {[s EXCEPT !.charge_mode = @ + 1]}

ChargeStartCV(s, d, force) ==
  LET cv == [s EXCEPT !.charge_mode = 2]
  IN IF s.charge_mode = 2 /\ ~force THEN {s}
     ELSE IF On("charge_feed") \/ On("cv_feed") THEN FeedStart(cv, d, FALSE)
     ELSE {cv}

ChargeEnd(s, d) ==
  LET Feed(t) == IF On("ce_feed") THEN FeedStart(t, d, FALSE) ELSE {t}
  IN After(ChargeStop(s, d, FALSE), Feed)

\* grid_feed looks at si.feed_started, which nothing ever sets
ChargeStartGrid(s, d) ==
  LET Grid(t) == IF t.grid_started THEN {t} ELSE StartGrid(t, d)
  IN After(IF On("grid_feed") THEN FeedStart(s, d, TRUE) ELSE {s}, Grid)

\* The generator is not asked for any more: back to the grid
GenToGrid(s, d) ==
  LET Grid(t) == ChargeStartGrid(t, d)
  IN IF On("gen_enabled") /\ s.gen_started /\ ~GenAsked(d)
       THEN After(StopGen(s, d, TRUE), Grid)
       ELSE {s}

\* Faulty variant: the grid is not stopped
GridToGenBeside(s, d) ==
  IF On("gen_enabled") /\ s.grid_started /\ ~d.ExtVfOk /\ GenAsked(d)
    THEN StartGen(s, d)
    ELSE {s}

\* The grid is lost: over to the generator
GridToGen(s, d) ==
  LET Gen(t) == StartGen(t, d)
  IN IF On("gen_enabled") /\ s.grid_started /\ ~d.ExtVfOk /\ GenAsked(d)
       THEN After(StopGrid(s, d, TRUE), Gen)
       ELSE {s}

Dates(s, d) ==
  CASE d.due = "charge start" -> ChargeStart(s, d, FALSE)
    [] d.due = "charge stop" -> ChargeStop(s, d, FALSE)
    [] OTHER -> {s}

\* Faulty variant: only a new charge looks for a source
EnsureSourceNever(s, d) == {s}

\* A charge that has no source, just in case
EnsureSource(s, d) ==
  IF ~(d.battery = "empty" /\ ~s.grid_started /\ ~s.gen_started) THEN {s}
  ELSE IF GenAsked(d) THEN StartGen(s, d)
  ELSE IF d.ExtVfOk THEN ChargeStartGrid(s, d)
  ELSE {s}

\* When CV ends depends on time and amps: a free choice
ChargeGoesOn(s, d) ==
  IF d.temp # "good" THEN ChargeStop(s, d, FALSE)
  ELSE IF s.charge_mode = 2 THEN {s} \cup ChargeEnd(s, d)
  ELSE IF d.battery # "full" THEN {s}
  ELSE IF On("cccv") THEN ChargeStartCV(s, d, FALSE)
  ELSE ChargeEnd(s, d)

\* The source is started even where charge_start refused
BatteryEmpty(s, d) ==
  LET Source(t) == IF On("Gen") /\ GenAsked(d) THEN StartGen(t, d)
                   ELSE IF On("Grid") \/ d.ExtVfOk THEN ChargeStartGrid(t, d)
                   ELSE {t}
  IN After(ChargeStart(s, d, FALSE), Source)

ChargeControl(s, d) ==
  LET GoesOn(t) == ChargeGoesOn(t, d)
  IN IF s.charge_mode # 0 THEN After(EnsureSource(s, d), GoesOn)
     ELSE IF d.battery = "empty" THEN BatteryEmpty(s, d)
     ELSE {s}

ChargeMain(s, d) ==
  LET ToGen(t) == GridToGen(t, d)
      ByDate(t) == Dates(t, d)
      Control(t) == ChargeControl(t, d)
  IN IF d.battery = "unread" THEN {s}
     ELSE After(After(After(GenToGrid(s, d), ToGen), ByDate), Control)

-----------------------------------------------------------------------------
(* The rest of a cycle: sync.js, feed.js                                   *)

\* Every sync_interval minutes what the inverter says counts
SyncMain(s, d) ==
  IF d.connected /\ d.due = "sync"
    THEN {[s EXCEPT !.grid_started = (s.GdManStr = "Start"),
                    !.gen_started = (s.GnManStr = "Start"),
                    !.feed_enabled = (s.GdMod = "GridFeed")]}
           \cup (IF "lost" \in faults THEN {Disobeyed(s)} ELSE {})
    ELSE {s}

FeedDates(s, d) ==
  CASE d.due = "feed start" -> FeedStart(s, d, FALSE)
    [] d.due = "feed stop" /\ ~(s.charge_mode # 0 /\ On("charge_feed")) ->
         FeedStop(s, d, FALSE)
    [] OTHER -> {s}

\* Faulty variant: a restarted agent does not look
FeedCheckForgotten(s, d) ==
  IF d.connected /\ ~s.feed_enabled THEN {[s EXCEPT !.feed_check = TRUE]} ELSE {s}

\* After a restart: is the inverter feeding?  Asked until it answers.
FeedCheck(s, d) ==
  IF d.connected /\ ~s.feed_enabled /\ ~s.feed_check
    THEN {[s EXCEPT !.feed_check = TRUE,
                    !.feed_enabled = s.GdMod = "GridFeed" /\ s.GdManStr = "Start"]}
           \cup (IF "lost" \in faults THEN {Disobeyed(s)} ELSE {})
    ELSE {s}

\* feed timeout: nothing has been fed for feed_timeout seconds
FeedTimeout(s, d) ==
  IF d.due = "feed timeout" /\ s.feed_enabled
       /\ ~(s.charge_mode # 0 /\ On("charge_feed"))
    THEN FeedStop(s, d, FALSE)
    ELSE {s}

FeedMain(s, d) ==
  LET Check(t) == FeedCheck(t, d)
      Timeout(t) == FeedTimeout(t, d)
  IN After(After(FeedDates(s, d), Check), Timeout)

Cycle(s, d) ==
  LET Feed(t) == FeedMain(t, d)
      Charge(t) == ChargeMain(t, d)
  IN After(After(SyncMain(s, d), Feed), Charge)

-----------------------------------------------------------------------------
(* The system                                                              *)

Fresh == [si EXCEPT !.obeyed = TRUE]

ReadMain ==
  /\ si' \in UNION {Cycle(Fresh, d) : d \in Readings}
  /\ UNCHANGED <<settings, faults>>

\* The operator's functions charge and feed (siconfig.c)
Function(s, d) ==
  ChargeStart(s, d, TRUE) \cup ChargeStartCV(s, d, TRUE)
  \cup ChargeStop(s, d, TRUE) \cup ChargeEnd(s, d)
  \cup (IF On("feeding") THEN FeedStart(s, d, TRUE) \cup FeedStop(s, d, TRUE) ELSE {})

Command ==
  /\ si' \in UNION {Function(Fresh, d) : d \in Readings}
  /\ UNCHANGED <<settings, faults>>

\* The agent's set function writes charge_mode and feed_enabled like any other
\* property that is not private, and nothing else happens: they have no trigger
Assign ==
  /\ "assign" \in faults
  /\ \/ \E m \in ChargeModes : si' = [Fresh EXCEPT !.charge_mode = m]
     \/ \E b \in BOOLEAN : si' = [Fresh EXCEPT !.feed_enabled = b]
  /\ UNCHANGED <<settings, faults>>

\* A new process: charge_mode comes from the configuration, the inverter goes on
Restart ==
  /\ "restart" \in faults
  /\ si' = [si EXCEPT !.grid_started = FALSE, !.gen_started = FALSE,
                      !.feed_enabled = FALSE, !.gen_feed_save = FALSE,
                      !.feed_check = FALSE, !.obeyed = TRUE]
  /\ UNCHANGED <<settings, faults>>

\* External: someone sets a channel of the inverter
Panel ==
  /\ "panel" \in faults
  /\ \/ \E v \in {"Start", "Auto"} :
          si' = [Fresh EXCEPT !.GdManStr = v] \/ si' = [Fresh EXCEPT !.GnManStr = v]
     \/ \E v \in {"GridFeed", "GridCharge"} : si' = [Fresh EXCEPT !.GdMod = v]
  /\ UNCHANGED <<settings, faults>>

Init ==
  /\ si = [charge_mode |-> 0, grid_started |-> FALSE, gen_started |-> FALSE,
           feed_enabled |-> FALSE, gen_feed_save |-> FALSE, feed_check |-> FALSE,
           GdManStr |-> "Auto", GnManStr |-> "Auto", GdMod |-> "GridCharge",
           obeyed |-> TRUE]
  /\ \E c \in Cases : settings = c.settings /\ faults = c.faults

Next == ReadMain \/ Command \/ Assign \/ Restart \/ Panel

Spec == Init /\ [][Next]_vars

-----------------------------------------------------------------------------
TypeOK ==
  /\ si \in SiRecord
  /\ settings \subseteq Flags
  /\ faults \subseteq Faults

\* A cycle over a working connection finds the battery empty, with a source at
\* hand and, where the inverter is followed, with a sync due; no CV charge
\* runs out in it
EmptyReadings ==
  {d \in Readings : /\ d.connected /\ d.battery = "empty" /\ d.temp = "good"
                    /\ d.ExtVfOk \/ GenAsked(d)
                    /\ d.due = IF On("sync") THEN "sync" ELSE "nothing"}

EmptyCycle ==
  /\ si' \in UNION {Cycle(Fresh, d) : d \in EmptyReadings}
  /\ si'.obeyed
  /\ si'.charge_mode # 0
  /\ UNCHANGED <<settings, faults>>

FairSpec == Spec /\ SF_vars(EmptyCycle)

\* What the agent believes to be on is on, through failed calls, lost
\* connections and restarts (utils.js: flags change after the call succeeded).
\* Calls that are late and hands at the panel are excluded; an operator who sets
\* feed_enabled is believed.
BeliefsTrue ==
  faults \cap {"late", "panel"} = {} =>
    /\ si.grid_started => si.GdManStr = "Start"
    /\ si.gen_started => si.GnManStr = "Start"
    /\ si.feed_enabled /\ "assign" \notin faults => si.GdMod = "GridFeed"

\* When a cycle or one of the functions charge and feed ends a charge (full,
\* date, temperature, operator) and every call goes through, the agent lets go of
\* the generator it started, and of the grid unless it feeds (charge.js:421).  In
\* frost it may start a source for no charge, and setting the property charge_mode
\* to 0 lets go of nothing: neither is claimed.
StopReleases ==
  [][si.charge_mode # 0 /\ si'.charge_mode = 0 /\ si'.obeyed =>
       \/ "frost" \in faults \/ Assign
       \/ ~si'.gen_started /\ (si'.grid_started => si'.feed_enabled)]_vars

NobodyFeeds ==
  settings \cap {"feeding", "charge_feed", "cc_feed", "cv_feed", "ce_feed", "grid_feed"} = {}

\* Without any of the faults, and while nobody feeds, the switch-over between grid
\* and generator never leaves both on (charge.js:675-692).
OneSource ==
  faults = {} /\ NobodyFeeds =>
    ~(si.GdManStr = "Start" /\ si.GnManStr = "Start")

\* Without any of the faults a source is on only for a charge or for feeding
\* (charge.js:421, feed.js:121), unless a lost grid that fed made way for the
\* generator (charge.js:685).
HeldForUse ==
  faults = {} /\ (NobodyFeeds \/ ~On("gen_enabled")) /\ si.charge_mode = 0 /\ ~si.feed_enabled =>
    si.GdManStr = "Auto" /\ si.GnManStr = "Auto"

\* Once it has looked, the agent knows when the inverter feeds, restarts and
\* lost connections notwithstanding (feed.js:203-214); of calls that fail and of
\* changes at the panel this is not said.
FeedKnown ==
  faults \subseteq {"restart", "offline"} /\ si.feed_check
    /\ si.GdMod = "GridFeed" /\ si.GdManStr = "Start" => si.feed_enabled

\* An agent that cannot be wrong about its sources for ever: nobody is late or at
\* the panel, or it follows the inverter.
CanKnow == faults \cap {"late", "panel"} = {} \/ On("sync")

\* An empty battery gets a source (charge.js:725-729): no failed call, lost
\* connection, restart or assignment leads to a state in which the agent takes for
\* charging what is not; with sync no late answer and no hand at the panel does.
\* Without sync, the default (sync.js:12), they do: after a StopGrid that is taken
\* to have failed but took effect (utils.js:169), or a panel set to Auto,
\* grid_started stays TRUE and charge.js:637 and 725 skip for ever.
EmptyGetsSource ==
  CanKnow => []<>(si.GdManStr = "Start" \/ si.GnManStr = "Start")
=============================================================================
