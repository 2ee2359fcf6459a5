# Verification of solardirector

Solardirector runs a house's solar installation with a set of agents: programs
that share the library `lib/sd`, talk over MQTT and are scripted in JavaScript.
This directory holds TLA+ specifications of the parts that decide who may draw
power and what is switched on: the power allocator (agent **pa**); the remote
calls by which its clients reach it; the air-conditioning plant (agent **ac**)
that is its client, with storage charging and direct mode; the charging of the
house's battery (agent **si**); and the message queue that all agents have in
common. TLC checks them on small instances, and TLAPS proves the safety properties
for all values of the constants.

Contents: [the system](#the-system) ·
[the modules](#the-modules) ·
[the runs](#the-runs) ·
[fairness](#fairness) ·
[the proofs](#the-proofs) ·
[where code and documents differ](#where-code-and-documents-differ) ·
[what is not modelled](#what-is-not-modelled) ·
[plan](#plan)

To repeat the checks, in this directory:

    tlc -workers 2 -config ac_plant.cfg MCAcPlant     # any run below
    tlapm PowerAgentProofs.tla

## The system

### How an agent runs

Every agent is one thread in `agent_run` (`lib/sd/agent.c:940-1150`). One pass:

1. if `interval` seconds have gone by, the driver's read function and the
   script `read.js`;
2. the driver's callback and the script `run.js`;
3. every message in the queue `ap->mq` (`agent_process_message`): configuration
   requests, and calls of the functions the agent has registered;
4. if step 1 took place and succeeded, the write function and `write.js`.

A second thread, the MQTT library's, appends arriving messages to the queue
(`agent_getmsg`, `mqtt_getmsg`). A script that makes a remote call
(`sdconfig.js`) blocks the whole agent until the answer is there or ten polls
have gone by. Nothing else interleaves: a function, a trigger or a script runs
to its end. This is why the modules have one action per function or state step,
and why the interesting interleavings are between agents and between the objects
inside one agent.

### Components

| component | state | operations | hard behaviour | what makes it correct |
|---|---|---|---|---|
| **PA agent**, `agents/pa` | list of reservations, their total `reserved`, `avail`, queue `revokes`, delay and deficit timers, `mode`, battery readings | `reserve` `release` `repri` `revoke_all`, property triggers, `read_main` | one total adjusted by six paths; `avail` written by four; a queue spliced while it is walked; day and night decided in two ways; forgets everything at a restart | one entry per id; total equals the list; grants stay within the budget; nobody loses power untold; revocations arrive |
| **Remote calls**, `lib/sd/sdconfig.js`, `pa_client.js`, `agent.c` | inbox, queues, the outstanding call | call, take a reply, give up, serve, revoke | no sequence numbers; late, lost and stale messages; two agents that wait for each other; restarts of either side | what runs is counted or called back; what is stopped is not counted for ever; what is revoked stops |
| **AC plant**, `agents/ac/run.js pump.js unit.js fan.js common.js start.js errors.js` | per object: state, `refs`, `enabled`, `error`, timer; pins; `ac.mode` | `run_main` once per cycle; start, stop, force stop, revoke, enable, disable, mode, clear error | a pump shared by a count that does not say who holds it; commands in every state; primer pumps; pins survive a restart | no compressor lost sight of or left on by a pump that stops; no pump on for nobody; power is granted before and released after; waiting ends |
| **AC direct mode and storage charging**, `direct.js charge.js` | 17 states per direct group, 4 per charging unit, two marks on the unit | couple a unit to a fan, prove flow, move two valves, hand back; charge the storage | two state machines and the operator count on one unit; the check and the valve are cycles apart; marks cleared in seventeen places | the loop is open only for a proven request and closes when the water stops; no mark is left behind |
| **AC pump cycling, sampling, automatic mode**, `cycle.js sample.js mode.js` | a state per pump | start and stop pumps on temperature and time | each keeps a state beside the pump's count | what one started, it stops, once |
| **AC bus**, `can.c driver.c` | table of CAN frames with times | reader thread fills, agent reads by age | data race, age computed from a time taken too early | a frame is whole and as fresh as asked |
| **SI charging**, `agents/si/charge.js feed.js sync.js utils.js siconfig.c` | charge mode CC/CV, `grid_started`, `gen_started`, `feed_enabled`; three channels of the inverter | start and stop charging, grid, generator and feeding; switch over when a source is lost | three reasons to hold one source; calls over SMANet that fail half way; only the charge mode survives a restart | what it believes to be on is on; a source is on for a reason; an empty battery gets one |
| **SI devices**, `agents/si/can.c smanet.c soc.js` | CAN table, channels, battery model | poll, estimate | a reader thread | (numerical estimation, I/O) |
| **Message queue**, `lib/sd/list.c agent.c` | a linked list with one cursor in it | add, walk, delete, purge | written by two threads, its lock compiled out | no message lost or handled twice, no link broken |
| **Framework otherwise**, `lib/sd/event.c config.c json.c conv.c` | properties and triggers | parse, store, notify | sequential | |
| **MQTT and InfluxDB**, `mqtt.c influx.c` | connection, subscriptions | connect, reconnect, publish | a clean session loses messages | (loss is a fault of `PaClient`) |
| **Device agents**, `jbd jk sb ah` | last reading | poll | none beyond I/O | report what was read |
| **Combiners**, `btc pvc` | last data of others | sum | stale parts | none stated |
| **Others**, `template sc`, `lib/smanet lib/wpi`, `utils reports tools` | | | protocol code, front ends | |
| **JavaScript engine**, `lib/js` | | | vendored SpiderMonkey | |

### How they interact

    thermostats (ah) --fan_set_mode--> AC fans --+
    charge/cycle/sample -------------> AC units -+--pump_start/pump_stop--> AC pumps
                                          |                                    |
                        pa_client: reserve, repri, release (blocking, sdconfig)
                                          v                                    v
    PA  <----------------------------- MQTT -----------------------------------+
     |  revoke (blocking, sdconfig) -> unit_revoke, fan_revoke, pump_revoke
     +-- reads battery and grid power that SI and others publish

`PowerAgent` models the left-hand side of the last call, `PaClient` the wire and
both loops, `AcPlant` the right-hand side. `PaClient` leaves the decisions of the
PA open, which is what `PowerAgent` fills in, and reduces each object of the plant
to the five states its power depends on, which is what `AcPlant` fills in;
`AcPlant` in turn lets the PA answer what it likes. A property proved or checked
of one therefore needs nothing of the others. `PowerLease` states what the
combination promises.

`AcPlant` has no direct groups. `AcDirect` has one, with its unit, and goes the
other way: the unit's pump, the fan and the contactors, which `AcPlant` has in
full, are left open there, and storage charging is in it because direct mode takes
a unit from storage charging and gives it back. `AgentQueue` is the inbox on which
`PaClient` builds: `MessageQueue`, which it implements, is what `PaClient` takes
the queue `toPa` to be. `SiCharge` shares with the others only what the SI agent
publishes, which they read as a free input.

The hazards, each at its line, with the properties that cover it or the reason
none does, are in `PROJECT.json`.

## The modules

| module | what it is |
|---|---|
| `PowerAgent` | the PA agent |
| `MCPowerAgent` | its instances for TLC |
| `PowerAgentProofs` | its theorems |
| `PowerLease` | abstract specification: power drawn is granted, or its recall is on the way |
| `PowerLeaseProofs` | the theorem that this is so |
| `PaClient`, `MCPaClient` | the call protocol between AC and PA, checked to implement `PowerLease` |
| `PaClientProofs` | its theorems, among them that it implements `PowerLease` |
| `AcPlant`, `MCAcPlant` | units, fans and pumps of the AC agent |
| `AcPlantProofs` | its theorems |
| `AcDirect`, `MCAcDirect` | direct mode and storage charging of one unit |
| `AcDirectProofs` | its theorems |
| `SiCharge`, `MCSiCharge` | charging, grid, generator and feeding of the SI agent |
| `SiChargeProofs` | its theorems |
| `MessageQueue` | abstract specification: a queue that loses nothing of its reader's |
| `MessageQueueProofs` | the theorems that this is so |
| `AgentQueue`, `MCAgentQueue` | the list, statement by statement, in two threads, checked to implement `MessageQueue` |
| `AgentQueueProofs` | its theorems, among them that it implements `MessageQueue` |

The definitions named as faulty variants (`AvailLeftStale`, `CoolWithoutRelease`,
`PumpReservesAnyway`, ...) are plausible bugs. No specification uses them; putting
one in the place of the definition after it must break the property that
`PROJECT.json` names under `mutants`, and does.

### PowerAgent

`reservations`, `reserved`, `avail`, `revokes`, `mode` and `battery` are the
members of `pa` of that name (`battery_power` for the last). The list is a set,
since its order matters only for the order in which revocations are queued, and
there every order is allowed (`Orders`). `reserve_age` and `neg_age` are
`last_reserve_time` and `neg_power_time` as ticks elapsed, saturating at the
delay they are compared with. `night` is the clock, which `IsNight`
(`pa_is_night_period`) reads; `mode` is what `read_main` wrote last. `sent` and
`reply` are what a step put on the wire.

| action | code |
|---|---|
| `Reserve` | `pa_reserve` (`funcs.js:55-173`): bypass, battery level, deletion of the old entry, delay, hard limit, budget, priority 1, limit, in that order; a denial has already deleted the old entry (`DropAndDeny`) |
| `Release`, `Repri`, `RevokeAll` | `funcs.js:175-294` |
| `SetBudget`, `SetNightBudget`, `SetBypass` | the properties that change at run time and their triggers (`init.js`); `AvailOn` is the trigger of `reserved`, which runs inside every assignment |
| `Read` | `read_main` (`read.js:2-236`) up to the hard-limit loop; `SentOf` and `LeftOf` are the loop that splices the queue it walks |
| `HardRevoke`, `HardDone` | an iteration of the hard-limit loop, and the rest of `read_main` after it (`phase = "hard"` keeps everything else out) |
| `Tick`, `DuskOrDawn`, `Restart` | time, and a new process: everything but the configuration is forgotten |

What the sensors say is a free choice (`Powers`, `BatteryPowers`, `level_low`);
the average over samples that gives `Powers` is arithmetic and left out.

### PaClient

`item` gives per unit, fan or pump one of five states: `reserve` and `release`
are the states of that name in `run.js`, `running` stands for all states between
the grant and the stop, `cooling` for a pump's COOLDOWN. `call` is the AC's
outstanding call, `toPa` and `toAc` the queues at the two agents, `replies` the
inbox of `sdconfig`. A message's `age` is not in the message: it records whether
the call it belongs to is still waiting (`live`), was given up (`stale`) or died
with the process (`dead`), and only `AwareUnlessBlind` and the choice of who
receives a reply look at it. `blind` is a history variable that becomes true when
the two sides have lost track of each other, with the four ways that can happen
each visible where it is set: a stale reply is taken for an answer
(`sdconfig.js:113`), a pump is woken from a cool-down without power (`pump.js:127`),
the PA is restarted (`init.js:202`), and a revocation is lost. `AwareUnlessBlind` and
`LeaseSpec` promise nothing from then on. They do not show that these four cannot
happen (they do), but that nothing else makes the two lose track.

| action | code |
|---|---|
| `Start` `WarmStart` `Stop` `Cooled` | what moves an object in `run.js`, `pump.js`, `common.js` |
| `Call`, `Accept`, `GiveUp` | `sdconfig` (`sdconfig.js:82-126`): drain, publish, poll ten times, take the oldest; `Outcome` is what `pa_client_reserve`, `_release` and `_repri` and their callers make of the status |
| `GetRevoke` | `unit_revoke`, `fan_revoke`, `pump_revoke` |
| `Serve` | one message in the PA's `agent_process_message`, answered by the three functions of `funcs.js` with any of their outcomes |
| `HardLimit`, `Revoke`, `Resume` | the two ways `read_main` takes power back, and the blocking call by which it does (`utils.js:65-81`) |
| `AcRestart`, `PaRestart`, `Lose*` | restarts and messages lost at a reconnect, in the runs whose `Faults` names them |

### AcPlant

One record per object. `turn` says whose turn it is in the pass of `run_main`:
fans, then pumps, then units (`run.js:87, 361, 569`). A turn is one of
`PumpTurn`, `UnitTurn`, `FanTurn`, whose disjuncts are the `case` branches of
`run.js`, one definition per state (START_PRIMER falls through to WAIT_PRIMER, as
in the code). Commands come only when `turn = 1`, between two cycles, as the
agent's loop has it. `late` is the outcome of the state's timer comparison.
`contactors` and `pin` are output pins; a unit's set of contactors shows when
both, or the wrong one, are closed. `granted` is what the PA has granted to this
agent.

`PumpStart`, `PumpStop`, `PumpForceStop`, `PumpOff` and `PumpRevoke` are functions
from the pumps' record to the new one, because commands combine them as the code
does: `UnitForceStop` is `pump_force_stop`, then `unit_stop`, which calls
`unit_off`, which calls `pump_stop` again.

What the code does and a reader may not expect, all of it in the module:

- `unit_off` calls `pump_stop` whatever the unit's state (`unit.js:193`), also
  when the unit never called `pump_start`; another user's count goes down.
- `pump_force_stop` stops the primer and then calls `pump_off`, which stops it
  again (`pump.js:170-179`). `test_pump.js:134-136` calls this benign; it is not when
  two pumps share the primer.
- A unit that gets no answer because its pump waits for power goes to RELEASE
  without `pump_stop` (`run.js:638`) and counts the pump again next time.
- `pump_revoke` sets `refs` to 1 and `pump_stop` returns at once in COOLDOWN
  (`pump.js:301-316`): a count is left for nobody.
- `pump_start` on a disabled pump counts nothing and reports success.
- `start_fan` sets no `fan.mode`, so the stop by mode NONE does nothing to it.

Not in the module: direct groups (no fan is in one), adding and deleting objects
while running, pins that do not obey, and `unit_enable`'s assignment to the
misspelt `unit.unit_state` (`unit.js:264`), which nothing reads. Every fan has a pump.

### AcDirect

One record `ac`: `dg` is the direct group, `unit` the unit, `valve1` and `valve2`
its pins (`valve1` stands for `direct` of the fan's pump too, which is set with
it). `granted` is the reservation at the PA, `confirmed` a history bit: the state
CONFIRM_FLOW has seen flow for the present request.

The code runs each of `read_main`, `run_main` and a called function to its end, so
each is one step, built from operators from state to state that bear the names of
the functions: `UnitStop`, `UnitMode`, `UnitForceStop`, `DirectOn`, `DirectOff`
(whose several ways to give the unit back are `HandBack`), one operator per state
of `_direct_process`, `ChargeMain` with its cases that fall through.

| action | code |
|---|---|
| `ReadMain(d)` | `direct_main`, then `charge_main`, with the readings `d` (`read.js`) |
| `RunMain` | the unit's turn (`run.js:567-731`) |
| `Direct` | `direct_on`, `direct_off`, `direct_disable`, `direct_enable` (fans, thermostats, operators) |
| `UnitFunction` | `unit_start`, `unit_stop`, force stop, revoke, disable, enable, clear error |
| `SetMode` | the storage changes between cooling and heating |
| `Pump` | the unit's pump starts or stops for reasons of its own (external) |
| `Restart` | a new process; `start_main` forces everything off |

What is left open there: the fan and the pumps (who calls `direct_on` and
`direct_off`, whether a pump runs), charge priorities and their order, the
contactors, `run_started`. The unit has a reserve, a pump and an rvpin without
`rvevery`; the group has both valves; a valve that is closed obeys. Left out are the
functions that move a valve by hand (`dg_valve1_on`, `dg_valve1_off`, `dg_valve2_on`,
`dg_valve2_off`, `dg_valves_off`, registered at `direct.js:192-196`): they switch a
pin whatever the group is doing, so that with them `OpenLoop` is false at once. It
is a statement about the valves direct mode moves.

What the code does and a reader may not expect, all of it in the module:

- WAIT_UNIT can wait for ever: its timeout counts in RESERVE only, on purpose
  (`direct_mode.md:514`; line 165 still has it for reaching RUNNING), so a unit taken
  over in RELEASE with no count, or stopped by an operator meanwhile, is waited for
  until `direct_off`. The same goes for WAIT_UNIT_STOP when another user holds the
  unit, and for WAIT_FAN_PUMP when the fan's pump is shared.
- The pump is not looked at again between `run_main` and the valve
  (`direct.js:648`); `LoopCloses` shows that the loop closes all the same.
- After a failure in the last stage `active` stays set, and `direct_on` answers
  "already active" until `direct_off`.
- A unit given up before the valve opened is not handed back to charging: it stays
  RUNNING with `charging` false (`README.md:243` "hands the unit back to charge.js").
- `run.js:713` (stop of a unit in direct mode whose storage is at temperature) is never
  reached: `run.js:677` leaves the turn of a unit in direct mode first.

### SiCharge

`si` holds the agent's flags and the inverter's three channels (`GdManStr`,
`GnManStr`, `GdMod`); `settings` the properties that are on, `faults` what may go
wrong, or be done past the agent's functions, in this behaviour. A step is a cycle (`read.js`: sync, feed, charge) or a
function of `siconfig.c`, and goes through operators that give the *set* of states
they may end in, because each call over SMANet may fail and every later call
depends on how the earlier ones ended (`After`).

| action | code |
|---|---|
| `ReadMain` | `Cycle`: `SyncMain`, `FeedMain` (dates, check after a restart, timeout), `ChargeMain` (switch-over of sources, dates, start, end) |
| `Command` | `charge` and `feed` functions of the operator |
| `Assign` | the operator sets the property `charge_mode` (`siconfig.c:410`) or `feed_enabled` (`feed.js:54`) itself; neither has a trigger, so nothing else changes |
| `Restart` | only `charge_mode` is kept |
| `Panel` | someone sets a channel at the inverter (external) |

A failed call either changed nothing ("lost") or took effect unseen ("late").
Without a connection a call does nothing and reports no error (`utils.js`).

What the code does and a reader may not expect, all of it in the module:

- When the battery is cold `charge_start` refuses, but the source is started all the
  same, for no charge; nothing stops it until a charge has come and gone.
- Feeding, with a generator enabled, when the grid is lost: the generator starts and
  there is no charge that would stop it.
- With `charge_feed`, `feed_start` may start the grid beside a generator.
- After a restart `charge_mode` is remembered and the sources are not; `charge_stop`
  then leaves on what the former process started, until a sync.
- `si_stop_gen` wants to resume feeding, but is mostly refused, because `GnOn` is
  still true in the data read before.
- `grid_feed` looks at `si.feed_started` (`charge.js:636`), which nothing sets.
- A battery that is empty while CV ends starts a source and stops it in one cycle.
- Without `sync`, the default, `grid_started` can be true for good with the grid on
  Auto: see `EmptyGetsSource` below.
- `charge_mode` set to 0 as a property stops no source.

### MessageQueue and AgentQueue

`MessageQueue` is the promise: own messages are handled in order and once, nothing
else than a purge drops one. `AgentQueue` has the list's fields, the links of each
node, which nodes are allocated, and a program counter and local variables for
each thread. A step is a statement that touches shared fields. `build` says whether
the mutex exists, `reader` who reads: an agent with `agent.purge` or without, or a
script with an MQTT session of its own. `fault` is how the program dies: a NULL or
freed pointer followed, or a failed assertion.

| action | code |
|---|---|
| `Arrive`, `AddTest` to `AddEnd` | `agent_getmsg`, `list_add` (`list.c:104-146`), MQTT thread |
| `ResetRead`, `ResetWrite` | `list_reset`, which takes no lock in either build |
| `GetNext`, `GetEnd`, `Advance` | `list_get_next` |
| `Handle` | `agent_process_message` and the decision to delete (`agent.c:1061-1085`) |
| `DeleteStart` to `DeleteEnds` | `list_delete`, `list_checkitem`, `_delete_item` |
| `PurgeStart` to `PurgeClear` | `list_purge` |

A message's handler leaves the agent's own queue alone: `agent.purgemq` and
`agent.delete_message` exist (`agent.c:1402-1430`), and no script in the repository
calls them. Memory is sequentially consistent, and an address is not reused for a later
message; either would only add to what the plain build can do wrong. With the
mutex, all but `list_reset` is mutually exclusive, so that both are no restriction.

## The runs

All passing runs explore their whole state space. Sizes with two workers.

| run | distinct states | question |
|---|---|---|
| `pa_admission` | 47,654 | Do list, total, available power and budget agree? |
| `pa_night` | 163,756 | Is a protected reservation ever revoked for a deficit, by day or night? |
| `pa_revocation` | 148,826 | Is everybody who loses power told? |
| `rpc_lease` | 378,898 | Does the protocol keep the lease, under loss and restarts, and do recalls take effect? |
| `ac_plant` | 1,473,840 | Is the plant safe under every command? |
| `ac_primer` | 78,838 | Does waiting and cooling down end, and who loses control of what? |
| `ac_direct` | 76,412 | Does direct mode open the loop only when it may, and let go of everything? |
| `si_charge` | 3,786 | Does the SI agent know what is on, and is it on for a reason? |
| `queue` | 109,907 | Is the list right with its lock? |
| `ac_direct_power`, `ac_mode`, `queue_race` | | counterexamples, see [below](#where-code-and-documents-differ) |

**pa_admission**: three consumers (symmetric), two amounts, two priorities, budget
on and off, deficits, bypass, restarts; delays of one tick. Three consumers and
two sizes are what it takes for one to be replaced while two others hold power
and for a smaller request to fit where a larger did not. Checks `Accounting`,
`AvailTracksBudget` and the action property `WithinBudget`. The
hard limit is off (it is on in `pa_revocation`) and the queue stays empty
(`MaxRevokes = 0`).

**pa_night**: dusk and dawn between any two steps, night budget changed at will,
`night_approve_p1` unlike `approve_p1`. Checks `P1Protected`: no reservation that the
rules in force at a read protect is revoked within the limit, by day or by night.
`read_main` goes by `pa.mode`, which it refreshes from the clock before it uses it,
so that nothing stale is at stake here.

**pa_revocation**: fair; hard limit and deficit at once; `revoke_all` when the queue
is empty (`MaxRevokes = 1`; a deficit and the hard limit add to a queue of any
length). Checks `NothingLostSilently`, `HardLimitReachesEveryone` and
`DeficitReachesEveryone`. The queue is longer than two here, so that a read skips
entries; they are sent by later reads.

**rpc_lease**: a unit and a pump, two requests and one revocation under way, all
faults, fair. Checks that what runs
is counted or being called back unless `blind` (`AwareUnlessBlind`), that the PA
holds nothing for a stopped item unless its release is in the queue (`NoOrphan`),
that the protocol implements `PowerLease` (`LeaseSpec`), and that what the PA takes
back stops, also when each of the two agents waits for the other
(`RecallTakesEffect`, which needs that calls return). Two items are needed
for a stale reply to belong to another item; a queue of two is needed for a
request to overtake a call given up, and nothing in the protocol looks further. One
revocation at a time is no restriction for the PA, which waits for the answer to each.

**ac_plant**: one unit and one fan share a pump that has every option (reserve,
warm-up, flow check, cool-down), counts up to 2 by command, every command except a
mode change, which `ac_primer` and `ac_mode` have.
Fan and unit are the two users, and commands on the pump itself stand for any
third. Checks `OffWhenUnused`, `PoweredMeansGranted` and `GrantedIsReleased`.

**ac_primer**: one unit, its pump and a primer pump, fair, all commands except
enable and disable: run_main passes over a disabled object, so a disabled unit
keeps running on a dead pump, and a pump disabled while it warms up keeps its
users waiting for ever. Nothing in the repository says what disabling a running
object should do, so the liveness properties are stated without. Modes change at any time
between two cycles. Checks

- `CompressorUnderControl`: a compressor that is on only where its turn looks after
  it, and by the contactor `unit_off` will open, stays so in every step but one: a
  change of the mode between its failure and the turn that switches it off (with
  `rvevery`, also while it runs). What comes of that one step is `ac_mode`;
- `DryRunOnlyWhenWoken`: a unit watches its pump by the pump's state and not by its
  relay (`run.js:655`). So, first, no unit stays in RUNNING on a pump that has left
  RUNNING; and second, a pump is in RUNNING with its relay open only after a
  `pump_start` in a cool-down that the pump came to without ever having been on
  (`pump.js:127`). A unit may run dry on such a pump: this property does not exclude
  it, it says that there is no other way;
- `WaitersGetAnswer` and `PumpsComeToRest`. Only one pump has the primer here, so
  that a count taken from another pump's primer is not at issue.

**ac_mode**: one unit with its pump, start and mode commands. TLC finds the unit
STOPPED with its compressor on (`StoppedIsOff`).

**ac_direct**: fair; every function but those that move a valve by hand, every mode change, restarts, pump stops at any
moment, counts up to 2 by command. Checks `TypeOK` (with the bound on the unit's
count: nobody counts twice), `OpenLoop` (a valve is open only for a request that has
seen flow, in its mode, with the unit marked), `LetsGo` (no mark without a request)
and `LoopCloses` (when unit or pump stops, the loop closes in the end).

**si_charge**: fair; thirteen pairs of settings and faults (`AllCases`): a backup of grid
and generator, a generator alone, two installations that feed and one that follows
the panel, each with several faults; the backup also with late calls and hands at
the panel but without sync, and backup and feeder with properties set by hand. Every fault occurs, and every setting but
`cc_feed`, which does in CC what `charge_feed` does. Checks `BeliefsTrue`, `OneSource`, `HeldForUse`, `FeedKnown`, the action
property `StopReleases` and the liveness property `EmptyGetsSource`. Each safety
property says under which faults and settings it claims anything; those left out
are the ones listed under `SiCharge` above. `BeliefsTrue` claims nothing with late
calls or hands at the panel; `OneSource` and `HeldForUse` nothing with any fault, nor,
then, with `charge_mode` set by hand; `StopReleases` nothing of an assignment or in
frost. `EmptyGetsSource` claims nothing where the agent can be wrong about its sources
for ever (`CanKnow`): late calls or hands at the panel, without sync. There it is
false, see [below](#where-code-and-documents-differ).

**queue**: fair; three messages, both builds, all three readers. Three are needed
for a deletion at the beginning, in the middle and at the end, each while another
message is being linked or not. Checks `LockSuffices`, `ListWhole`, `RefinesQueue`, `Leaves`, the last
also for a message that arrives while `list_reset` races with `list_add`.

### Bounds

`MaxRevokes` (queue length below which `revoke_all` is still called), `MaxQueue`
(requests under way), `MaxRecalls` (revocations under way), `MaxRefs` (count at which no more users are
added by a command or a retry; a count may exceed it within one cycle by the
objects' own starts). The data sets are in the `MC` modules: watts in steps of
1000, so that a budget of 3000 holds three small or one large and one small.
Symmetry is used only with safety properties (`pa_admission`, `pa_night`), over
`Ids`, which no definition distinguishes. `N` is the number of messages that ever
arrive at a queue. In `SiCharge` one date or timer at most is due in a cycle.

## Fairness

- `PowerAgent`: weak fairness of `read_main` (called every `interval` seconds by
  `agent_run`), of the steps of its loop, and of time. Nothing is assumed of
  requests or of the sensors.
- `PaClient`: a call polls and gives up (weak fairness of `Accept`, `GiveUp`,
  `Resume`). Serving a message is strongly fair, since either agent is again and
  again, not continuously, able to serve: its own calls come in between, and each
  ends. `i \in recalled /\ Revoke(i)` is strongly fair because every `read_main`
  works the queue off; that `LeftOf` skips entries only delays, as `pa_revocation` shows.
- `AcPlant`: weak fairness of `Cycle`. A timer is set when its object enters a state
  and compared in every turn, so an object that stays is late in the end; as its
  turns alternate with others' this is strong fairness of the turn with `late`.
  For a unit or fan in WAIT_PUMP that is assumed only where the code compares
  (`TimesPump`): in WARMUP, FLOW and COOLDOWN of the pump it does not, and that the
  wait ends all the same is what `WaitersGetAnswer` shows. No command is fair.
- `AcDirect`: reads alternate with `run_main` and every timer was set when its state
  was entered, so strong fairness of a read with `late`; weak fairness of `RunMain`.
- `SiCharge`: strong fairness of `EmptyCycle`, an assumption about the house rather
  than the code: again and again there is a cycle with a connection, an empty battery
  and a source at hand in which the calls go through. What is shown is that the code
  gets into no state from which such a cycle would start no source.
- `AgentQueue`: weak fairness of the agent's thread, strong fairness of the MQTT
  thread's steps: the agent sleeps for a second without the mutex in every pass
  (`agent.c:1133`).

## The proofs

Every safety property that a passing run checks (the invariants, the action
properties and the two refinements), but the safety half of `DryRunOnlyWhenWoken`,
is also a theorem, for all values of the
constants; three theorems have a hypothesis, named in their row and explained below.
Liveness stays with TLC; the list is at the end of this section.

### PowerAgent

`PowerAgentProofs` (all constants arbitrary within the assumptions of `PowerAgent`):

| theorem | says | argument |
|---|---|---|
| `TypeCorrect` | `Spec => []TypeOK` | inductive; one step per action, lemmas for grant, drop, deficit, queue |
| `IdsStayUnique` | `Spec => []UniqueIds` | inductive by itself: every path that adds removes the id first |
| `AvailIsRest` | with `NightBudgets = {0}`, `Spec => []AvailTracksBudget` | inductive with `TypeOK`; needs that the trigger runs in every assignment of `reserved` |
| `BudgetIsKept` | with `NightBudgets = {0}`, `Spec => WithinBudget` | from `AvailIsRest` and the admission test (`GrantFits`) |
| `LossIsAnnounced` | `Spec => NothingLostSilently` | step by step; only `HardRevoke` and the holder's own requests delete |
| `AccountsBalance` | `Spec => []Accounting` | inductive with `TypeOK` and `UniqueIds`: dropping an id takes from the total what `HeldAmount` subtracts only because it has one entry |
| `ProtectedStay` | `Spec => P1Protected` | from `HardMode`: while the hard-limit loop runs, `pa.mode` is what the clock says, so revocation and admission go by the same rules |

The assumption `NightBudgets = {0}` says that the installation has no night
budget. It is needed: with one, `pa_reserved_trigger` computes `avail` from the day
budget at night.

`Accounting` is about a sum over a set, defined by recursion. None of the library's
induction theorems can be used, since each takes an operator as a parameter; but
that every non-empty set of naturals has a least member (`LeastNat`, from the
well-foundedness of `<`) can, and gives induction over the size of the set as a
minimal counterexample: the total of a finite set with one member more is the total
of the rest plus that member's amount (the lemmas `Total...`).

### PaClient and PowerLease

`PaClientProofs` (any items, any of them pumps, any faults, queues of any bound):

| theorem | says | argument |
|---|---|---|
| `TypeCorrect` | `Spec => []TypeOK` | with `Types`: requests and replies share the bound, because serving a request makes at most one reply |
| `AwareTheorem` | `Spec => []AwareUnlessBlind` | inductive: `Track`, below |
| `NoOrphanTheorem` | `Spec => []NoOrphan` | inductive: `Track`, `ReleaseTracked` and `LastReleases` |
| `ImplementsLease` | `Spec => LeaseSpec` | every step under `Track` is a step of `PowerLease` or a stutter; one that sets `blind` is its `Betray` |

`Track` is the protocol's argument, which the code relies on and states nowhere.
The AC has one call out at a time and waits for it; so a request whose call is still
waiting is the last in the PA's queue (`LiveRequest`), and when its reply is there
that queue is empty (`LiveReply`): nothing that is still to be served can take away
what the reply grants. What runs is known to the PA, and of its requests under way
none is a reserve or a release (`RunningKept`). The other direction needs the
history of one item: the last request of a stopped item is its release
(`LastReleases`), and while that call is out, the release is the last request of all
or has been served (`ReleaseTracked`).

`PowerLeaseProofs`: `LeaseHolds`, `Spec => []PowerIsLeased` for any set of items.
By `ImplementsLease` it holds of `PaClient`.

### AcPlant

`AcPlantProofs` (any sets of units, fans and pumps, any order of the pass, any
primers, settings and commands):

| theorem | says | argument |
|---|---|---|
| `PlantInvariant` | `Spec => []PlantInv` | inductive; see below |
| `PowerIsReleased` | `Spec => []GrantedIsReleased` | a part of `PlantInv` |
| `UnusedPumpsAreOff` | `Spec => []OffWhenUnused` | a part of `PlantInv` |
| `CompressorControl` | `Spec => CompressorUnderControl` | step by step under `PlantInv`, see `ControlKept` |
| `PowerIsGranted` | `Spec => []PoweredMeansGranted` | a part of `PlantInv` |
| `TypeCorrect` | with an object in the plant, `Spec => []TypeOK` | `PlantInv` and `CountsBounded` |

None of the properties is inductive: that a pump which is on has its power says
nothing of the pump about to be switched on. `PlantInv` therefore says of every
object what each state stands for: in the states between the grant and the
switching on, the power is held (`GoodPump`, `GoodUnit`); RESERVE is entered only
by objects with a reserve; in RELEASE a pump's relay is open already; a pump in
use may be in any state, one without users is off or cools down. It does not
mention timers, the order of the pass, `enabled`, `error`, or what a unit knows of
its pump: safety does not depend on them. The proof follows the code: lemmas for
`pump_start`, `pump_stop`, `pump_off`, `pump_force_stop`, `pump_revoke`,
`unit_off`, `unit_stop`, `fan_stop`, applied to any collection of pumps that is
right; then one lemma per state of `run_main`; then the commands. `pump_off`
repairs the pump it is called for whatever that pump was before, which is why a
force stop, which stops the primer twice, cannot break these invariants (it may
take a count from another user all the same).

None of this says which contactor of a unit is closed, since `unit_mode` can change
`unit.mode` behind a closed one. `ControlKept` is about a step: whoever was under
control still is. It is proved from `unit_off` upwards, through `unit_stop`, force stop,
revocation, the unit's turn and the restart (which finds the mode from the pins), for
every step but `SetMode`; and of `SetMode` that it leaves alone a unit that is neither
in ERROR nor on `rvevery`, for a unit in RUNNING refuses (`unit.js:285`). So the
theorem holds for all modes and commands, and its one exception is the violation that
`ac_mode` shows.

What is left of `TypeOK` is the bound of the counts. That a pump's count equals the
number of its users is false in the code: users forget their counts, and force stops
take those of others. `CountsBounded` is what is true: a count exceeds `MaxRefs` by
no more than the pump has users at that moment (`UsersOf`, the objects linked to it
whose state says that they have started it), and a pump that cools down has a count
of one at most. Every `pump_start` that does not look at the count first makes its
caller a user in the same step, and one who ceases to be a user stops the pump;
commands look at the count. The steps that do several of these at once (a force stop
with a primer, a restart) are composed from lemmas on who becomes a user and who
ceases to be one. That there is an object is needed because `turn` starts at 1.

### AcDirect

`AcDirectProofs` (any commands, any number of users):

| theorem | says | argument |
|---|---|---|
| `StageKept` | `Spec => []Good(ac)` | inductive; see below |
| `LoopIsProven` | `Spec => []OpenLoop` | a part of `Good` |
| `MarksGo` | `Spec => []LetsGo` | a part of `Good` |
| `TypeCorrect` | `Spec => []TypeOK` | `Good` and `Counted` |

`Good` divides the states of a request into three stages (taking the unit, proving
flow, closing the loop through the air handler) and says of each which mark the
unit has (`Marked`), that a marked unit is in the request's mode (`InMode`), and
that the valves are open in the last stage only (`Valves`). Everything that acts on
the unit alone (`unit_stop`, charging, most of the unit's turn) leaves alone what
`Good` looks at: that is `SameGroup`, proved once per operator and composed. What is
left is one lemma per state of the group, and `DirectOff`.

The bound on the unit's count, `MaxRefs + 2`, is one for direct mode and one for
charging; but both forget what they have counted. Charging does when it meets a unit
that is marked, disabled or in error; direct mode does when it fails. `Counted` says
why they cannot count twice all the same: a unit with the full count is one that
charging will not count (`Held`: it is charging already, or the unit is disabled), a
request has room for its own count until START_UNIT (`Requested`), and a request
that failed with its valve open stays `active`, so that `direct_off` later hands the
unit to charging as though charging had counted it: then the unit runs, or it has a
user less (`Active`).

### SiCharge

`SiChargeProofs` (any settings, any faults; the properties say themselves under which
of them they claim anything):

| theorem | says | argument |
|---|---|---|
| `BeliefsCorrect` | `Spec => []BeliefsTrue` | every function leads from `Good` to sets within `Good`, whatever it reads; in the middle of `feed_start` and `feed_stop` only `Held` holds |
| `TypeCorrect` | `Spec => []TypeOK` | from the same lemmas |
| `StopReleasesTheorem` | `Spec => StopReleases` | every function leads from a charge to `Released`, or some call did not go through |
| `FeedKnownTheorem` | `Spec => []FeedKnown` | `Aware`: whenever the inverter feeds, the agent believes it, or is new and has neither looked nor touched the grid; a cycle with a connection looks before it charges (`Looked`) |
| `OneSourceTheorem` | `Spec => []OneSource` | `Exact`, below |
| `HeldForUseTheorem` | `Spec => []HeldForUse` | `Exact` |

While all calls go through, belief and inverter agree exactly (`Loose`), also inside
a function. Between two functions, what is on without a charge is on for feeding
(`Exact`); between the stop of one source and the start of the other no source is on
where nobody feeds (`Waiting`). Each function is taken from one of these sets to the
next, which is the switch-over of `charge_main` step by step.

### AgentQueue and MessageQueue

`MessageQueueProofs` (any messages): `HandledInOrder`, `Spec => []InOrder`, and
`OwnKept`, `Spec => []NothingLost`. Inductive with: what is handled came before
everything of the reader's that waits. By `ImplementsQueue` both hold of the list
with its mutex.

`AgentQueueProofs` (any number of messages, any reader):

| theorem | says | argument |
|---|---|---|
| `TypeCorrect` | `Spec => []TypeOK`, both builds | inductive |
| `LockIsEnough` | `Spec => []LockSuffices` | `IInv`: with the mutex one thread at most is inside the list (`Exclusion`), and the links are those of the sorted set of nodes (`WholeList`), except for what the place of the thread inside says is not done yet (`Adding`, `Removing`, `Purging`) |
| `ListIsWhole` | `Spec => []ListWhole` | `FullInv` (with `Roles`, which reader does what, and `Order`: what was handled is gone or just being deleted, and the cursor has passed nothing of the reader's): `Chain`, the nodes met by following the links, is the set `Linking` that `IInv` describes |
| `ImplementsQueue` | `Spec => RefinesQueue` | under `FullInv`, the link to a new message is `Arrive`, processing an own one `Handle`, taking another's out of the list `Discard`, the end of a purge `Purge`, everything else a stutter |

The links are described by order (`NextIn`, `PrevIn`, `Least`, `Greatest` of a set of
numbers) and not by walking them, so that the invariant needs no induction over the
list. `Chain` does walk; that it reaches exactly the nodes of `Linking` is proved by
the least number it does not reach (`LeastNat` again).
`IInv` was checked by TLC as an invariant with `N = 4` first (699,052 states), and
so were `CountsBounded` (on both AC runs), `Counted` (`ac_direct`, 76,412 states)
and the other inductive invariants, on the runs of their modules.

### Only model-checked

All liveness, which is out of the prover's reach: `LoopCloses`,
`WaitersGetAnswer`, `PumpsComeToRest`, `RecallTakesEffect`,
`HardLimitReachesEveryone`, `DeficitReachesEveryone`, `Leaves`, `EmptyGetsSource`.
`DryRunOnlyWhenWoken` is half liveness and not proved either (its other half,
`DryOnlyWhenWoken`, is within reach).
`PowerHeld`, `StoppedIsOff` and `ChecksHold` are violated by the code and have no theorem.

## Where code and documents differ

With a run that shows it:

| run | what happens |
|---|---|
| `queue_race` | `list_add` links a new item forwards before backwards (`list.c:135`), and no build file defines THREAD_SAFE; `list_delete` in the other thread meets the half of it, and `assert(ip->next->prev == ip)` (`list.c:86`) aborts the agent |
| `ac_direct_power` | `direct_off` takes a count of the unit and releases its power (`direct.js:961-965, 1003-1008`); if charging or an operator counts on the unit too, it runs on in the wrong mode with nothing reserved (`agents/ac/README.md:230`, `direct_mode.md:134`) |
| `ac_mode` | after a mode change between a unit's failure and the next cycle, `unit_off` opens the other contactor (`unit.js:285`): a unit stopped for frost is STOPPED with its compressor on (`agents/ac/README.md:229`, "a unit is stopped if its vapor temp drops below this") |

Found while modelling, without a run in this version:

- `pa_reserved_trigger` computes `avail` from the day budget at night (`init.js:170`);
  the first release or reserve after dusk opens the day budget until the next read
  (`agents/pa/README.md:76, 418`).
- `repri` for an id without reservation tests no budget (`funcs.js:233`;
  `agents/pa/README.md:221` says it does).
- The late answer to a call given up is taken for the answer to the next one
  (`sdconfig.js:113`): a unit runs with nothing reserved (`agents/ac/README.md:230, 256`).
  In `PaClient` this is one of the four ways to become `blind`.
- A pump that never ran goes to COOLDOWN and from there to RUNNING with its relay
  open (`pump.js:127`), and a unit then runs on it; `test_pump.js:106-107` takes for
  granted that in COOLDOWN the "pump is still physically on". `DryRunOnlyWhenWoken` says that
  this is the only way.
- Without `sync`, which is off by default (`sync.js:12`), an empty battery may never
  be charged again: after a StopGrid that is taken to have failed but took effect
  (`si/utils.js:169-175`), or a panel set to Auto, `grid_started` stays true, and
  `charge.js:637` and `charge.js:725` start nothing. TLC finds this when `CanKnow`
  is dropped from `EmptyGetsSource`.
- In the plain build of `AgentQueue` TLC also reaches the use of an item just freed,
  a message lost, and a command executed twice.
- With THREAD_SAFE `list_add_list` would wait for itself, and `list_reset` would still
  take no lock (`queue` shows that this costs a pass and no more).
- With `agent.purge`, what arrives between `run.js:14`'s look at the queue and the
  loop is deleted unseen by scripts; what arrives between the look at a session and
  its purge is lost (`si/mirror.js:55-67`, `pa/utils.js:47-62`).
- `direct_mode.md:49`: "Fan pump MUST be OFF ... valve cannot activate until pump is
  stopped", but the pump is kept off only from the moment the valve opens.
- `dg_valves_off` returns when the first valve refuses and leaves the second one on.
- `siconfig.c:316-320` and the SI agent's README (lines 91, 188) call `grid_start` and
  `grid_stop` of `grid.js`, which has no such functions.
- `agents/pa/README.md:160` says bypass skips all checks; `read.js:203-233` revokes
  for a deficit in bypass too.
- `agents/pa/README.md:284` gives the average over the last N samples; the ring has
  N + 1 places (`read.js:149`), so every N + 1 reads the sum misses the newest one.
- `agents/pa/README.md:307` says that all reservations are revoked immediately at
  the hard limit; the queue is sent every second entry per read (`read.js:8-11`),
  `pa_revocation` shows that all are reached in the end.
- `agents/pa/README.md:203` says release returns 1 when nothing is found; it returns 0 (`funcs.js:175-203`).
- `agents/pa/README.md:328-330` describes on-grid detection that the code does not have.
- `agents/ac/README.md:191` on stopping the pump with the unit: `unit_off` takes a
  count of the pump whether or not the unit held one.
- `agents/ac/README.md:263` says an immediate revocation stops at once; `pump_revoke`
  lets the pump cool down.
- `lib/sd/sdconfig.js` lacks a `return` before `_mkerror("no data")`.

## What is not modelled

- The arithmetic of sensors: moving averages, temperatures, flow rates, state of
  charge. Whatever they yield is a free choice, so safety holds for all of it.
- The CAN and SMANet protocols, MQTT connection set-up, InfluxDB,
  configuration files, options, JSON: I/O and conversions.
- Device agents, combiners, utilities, reports: they poll and report; no state
  that outlives a poll decides anything.
- The JavaScript engine, vendored.
- Of direct mode, the fan and the pumps' states, more than one group on a unit,
  valves that stay open, and the functions that move a valve by hand.
- Of the message queue, a handler that purges or deletes from its own agent's queue.
- Of the SI agent, mirroring another agent, winter and summer settings, and the
  battery model.
- Pump cycling, water sampling and automatic mode: they only issue commands that
  `AcPlant` and `AcDirect` allow at any time; what they keep themselves is not modelled.
- The CAN tables: a race on data whose values are free inputs here.

## Plan

Order: what decides over power and compressors first, then what stands around it.

1. Done: `PowerAgent`, `PowerLease`, `PaClient`, `AcPlant`, `SiCharge`,
   `MessageQueue`, `AgentQueue`, `AcDirect`, and the theorems above.
2. Next modules
   - `CanCache` (`ac/can.c:86-113`, `si/can.c:447`): frames, ages, reader thread.
   - `cycle.js`, `sample.js`, `mode.js` as users of `AcPlant`, with their own states.
   - The fan and its pump in `AcDirect`.
3. Runs: the runs are as many as the questions. `pa_night` and `pa_revocation` stay
   apart: together they have some two million states.
4. Theorems: every safety property but one has one. With the next modules come theirs;
   `DryOnlyWhenWoken` for any plant comes first.
