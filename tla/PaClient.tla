------------------------------ MODULE PaClient ------------------------------
(***************************************************************************)
(* How the AC agent and the PA agent talk: lib/sd/pa_client.js over        *)
(* lib/sd/sdconfig.js, the remote call of this system, and the message     *)
(* loop of lib/sd/agent.c at each end.                                     *)
(*                                                                         *)
(* Both agents are single threads.  A call publishes its request, polls    *)
(* its inbox up to ten times half a second apart, and takes the OLDEST     *)
(* reply in it: requests and replies carry no number, so a reply to a call *)
(* given up earlier is taken for the answer to this one (age "stale").     *)
(* The PA revokes with a call of the same kind, during which it serves     *)
(* nothing (busy), while the AC serves nothing during its own calls: each  *)
(* may be waiting for the other until one of them gives up.                *)
(*                                                                         *)
(* What the PA decides is left open here (PowerAgent models it), and the   *)
(* AC side keeps of each unit, fan and pump only what its power depends    *)
(* on.  Faults says which failures may happen.                             *)
(***************************************************************************)
EXTENDS Integers, SequencesExt

CONSTANTS
  Items,      \* units, fans and pumps with a `reserve`
  Pumps,      \* those that run on for a while when stopped (cooldown > 0)
  Faults,     \* subset of {"ac restart", "pa restart", "loss"}
  MaxQueue,   \* bound: requests under way at a time
  MaxRecalls  \* bound: revocations under way at a time

ASSUME ItemsAssumption == IsFiniteSet(Items) /\ Pumps \subseteq Items
ASSUME FaultsAssumption == Faults \subseteq {"ac restart", "pa restart", "loss"}
ASSUME QueueAssumption == MaxQueue \in Nat \ {0} /\ MaxRecalls \in Nat \ {0}

VARIABLES
  item,         \* state of every item, see ItemStates
  call,         \* the AC's outstanding call, NoCall if none
  toPa,         \* the PA's message queue: requests, oldest first
  replies,      \* the AC's inbox during a call, oldest first
  held,         \* items in pa.reservations
  recalled,     \* items in pa.revokes
  toAc,         \* the AC's message queue: revocations, oldest first
  busy,         \* the PA is inside sdconfig(..., "revoke", ...)
  blind,        \* the AC runs, or may run, something the PA does not count
  lostRequest   \* a request never reached the PA

acVars == <<item, call, replies>>
paVars == <<held, recalled, busy>>
vars == <<acVars, paVars, toPa, toAc, blind, lostRequest>>

ItemStates == {"stopped", "reserve", "running", "cooling", "release"}
Ops == {"reserve", "release", "repri"}
Ages == {"live", "stale", "dead"}
NoCall == [op |-> "none"]
Calls == {NoCall} \cup [op : Ops, item : Items]
Request == [op : Ops, item : Items, age : Ages]
Reply == [status : 0..1, age : Ages]

Known == held \cup recalled \cup Range(toAc)
Requested(i) == \E k \in DOMAIN toPa : toPa[k].item = i
Aged(q, from, age) ==
  [k \in DOMAIN q |-> IF q[k].age \in from THEN [q[k] EXCEPT !.age = age] ELSE q[k]]

-----------------------------------------------------------------------------
(* The AC agent.                                                           *)

Idle == call = NoCall

Become(i, s) == item' = [item EXCEPT ![i] = s]

\* refs goes up on a stopped item
Start(i) ==
  /\ Idle
  /\ item[i] = "stopped"
  /\ Become(i, "reserve")
  /\ UNCHANGED <<call, replies, paVars, toPa, toAc, blind, lostRequest>>

\* pump_start on a pump that cools down: it is RUNNING at once, whether or not
\* its power is still reserved
WarmStart(i) ==
  /\ Idle
  /\ item[i] = "cooling"
  /\ Become(i, "running")
  /\ blind' = (blind \/ i \notin Known \/ Requested(i))
  /\ UNCHANGED <<call, replies, paVars, toPa, toAc, lostRequest>>

\* refs goes down to 0, or an error forces a stop
Stop(i) ==
  /\ Idle
  /\ item[i] \in {"reserve", "running"}
  /\ \/ Become(i, "release")
     \/ i \in Pumps /\ Become(i, "cooling")
  /\ UNCHANGED <<call, replies, paVars, toPa, toAc, blind, lostRequest>>

\* Faulty variant: pump_off takes the pump to STOPPED
CoolWithoutRelease(i) ==
  /\ Idle
  /\ item[i] = "cooling"
  /\ Become(i, "stopped")
  /\ UNCHANGED <<call, replies, paVars, toPa, toAc, blind, lostRequest>>

\* The cooldown time is over, or the pump is forced to stop
Cooled(i) ==
  /\ Idle
  /\ item[i] = "cooling"
  /\ Become(i, "release")
  /\ UNCHANGED <<call, replies, paVars, toPa, toAc, blind, lostRequest>>

\* The call that an item in this state makes; repri only while it runs
CallOf(s) == CASE s = "reserve" -> {"reserve"}
               [] s = "release" -> {"release"}
               [] s = "running" -> {"repri"}
               [] OTHER -> {}

\* Half a second to drain the inbox, then publish; what the queue holds from
\* earlier calls stays in it
Call(i, op) ==
  /\ Idle
  /\ op \in CallOf(item[i])
  /\ Len(toPa) < MaxQueue
  /\ call' = [op |-> op, item |-> i]
  /\ toPa' = Append(toPa, [op |-> op, item |-> i, age |-> "live"])
  /\ replies' = <<>>
  /\ UNCHANGED <<item, paVars, toAc, blind, lostRequest>>

\* Faulty variant: the status of the call is not tested
OutcomeIgnored(op, status) ==
  CASE op = "reserve" -> "running"
    [] op = "release" -> "stopped"
    [] op = "repri" -> "running"

\* What the caller makes of the status
Outcome(op, status) ==
  CASE op = "reserve" -> IF status = 0 THEN "running" ELSE "reserve"
    [] op = "release" -> "stopped"
    [] op = "repri" -> IF status = 0 THEN "running" ELSE "release"

\* Faulty variant: replies other than the one taken stay in the inbox
ReturnUnpurged(status) ==
  /\ call' = NoCall
  /\ Become(call.item, Outcome(call.op, status))
  /\ replies' = replies
  /\ toPa' = Aged(toPa, {"live"}, "stale")
  /\ UNCHANGED <<paVars, toAc, lostRequest>>

\* The call returns: replies still to come are stale for the next call
Return(status) ==
  /\ call' = NoCall
  /\ Become(call.item, Outcome(call.op, status))
  /\ replies' = <<>>
  /\ toPa' = Aged(toPa, {"live"}, "stale")
  /\ UNCHANGED <<paVars, toAc, lostRequest>>

Accept ==
  /\ ~Idle
  /\ replies # <<>>
  /\ Return(Head(replies).status)
  /\ blind' = (blind \/ /\ call.op = "reserve"
                        /\ Head(replies).status = 0
                        /\ Head(replies).age = "stale")

\* Ten polls without a reply: the status is 1
GiveUp ==
  /\ ~Idle
  /\ replies = <<>>
  /\ Return(1)
  /\ UNCHANGED blind

\* Faulty variant: a running item is stopped later, by its thermostat
RevokedWhenStopped(i) ==
  CASE item[i] = "running" -> "running"
    [] i \in Pumps -> "cooling"
    [] OTHER -> "release"

\* unit_revoke, fan_revoke and pump_revoke set refs to 1 and stop the item,
\* whatever its state is
Revoked(i) == IF i \in Pumps THEN "cooling" ELSE "release"

GetRevoke ==
  /\ Idle
  /\ toAc # <<>>
  /\ Become(Head(toAc), Revoked(Head(toAc)))
  /\ toAc' = Tail(toAc)
  /\ UNCHANGED <<call, replies, paVars, toPa, blind, lostRequest>>

\* start_main forces every item to stop, which makes it release its power; the
\* new process has a client id of its own, so old replies never reach it
AcRestart ==
  /\ "ac restart" \in Faults
  /\ item' = [i \in Items |-> "release"]
  /\ call' = NoCall
  /\ replies' = <<>>
  /\ toAc' = <<>>
  /\ toPa' = Aged(toPa, Ages, "dead")
  /\ UNCHANGED <<paVars, blind, lostRequest>>

-----------------------------------------------------------------------------
(* The PA agent.                                                           *)

\* Publish the reply; the AC drops what comes while it is in no call
Publish(request, status) ==
  replies' = IF Idle \/ request.age = "dead" THEN replies
             ELSE Append(replies, [status |-> status, age |-> request.age])

\* pa_reserve grants, denies, or denies after deleting the old reservation
ServeReserve(request) ==
  \/ held' = held \cup {request.item} /\ Publish(request, 0)
  \/ held' = held /\ Publish(request, 1)
  \/ held' = held \ {request.item} /\ Publish(request, 1)

\* pa_release answers 0 whether or not there was something to release
ServeRelease(request) ==
  held' = held \ {request.item} /\ Publish(request, 0)

\* pa_repri on something held always succeeds, otherwise it reserves
ServeRepri(request) ==
  IF request.item \in held
    THEN held' = held /\ Publish(request, 0)
    ELSE \/ held' = held \cup {request.item} /\ Publish(request, 0)
         \/ held' = held /\ Publish(request, 1)

\* One message of the agent's queue
Serve ==
  /\ ~busy
  /\ toPa # <<>>
  /\ LET request == Head(toPa)
     IN CASE request.op = "reserve" -> ServeReserve(request)
          [] request.op = "release" -> ServeRelease(request)
          [] request.op = "repri" -> ServeRepri(request)
  /\ toPa' = Tail(toPa)
  /\ UNCHANGED <<item, call, recalled, toAc, busy, blind, lostRequest>>

\* Faulty variant: the reservations are deleted and nobody is told
HardLimitSilent ==
  /\ ~busy
  /\ held # {}
  /\ held' = {}
  /\ UNCHANGED <<acVars, recalled, busy, toPa, toAc, blind, lostRequest>>

\* Battery hard limit: every reservation is deleted and queued for revocation
HardLimit ==
  /\ ~busy
  /\ held # {}
  /\ held' = {}
  /\ recalled' = recalled \cup held
  /\ UNCHANGED <<acVars, busy, toPa, toAc, blind, lostRequest>>

\* pa_revoke, from the queue or for a deficit (the reservation then stays until
\* the AC releases it): the PA publishes and waits for the answer
Revoke(i) ==
  /\ ~busy
  /\ i \in held \cup recalled
  /\ Len(toAc) < MaxRecalls
  /\ busy' = TRUE
  /\ toAc' = Append(toAc, i)
  /\ recalled' = recalled \ {i}
  /\ UNCHANGED <<acVars, held, toPa, blind, lostRequest>>

\* The AC has answered or ten polls went by; the status is only logged
Resume ==
  /\ busy
  /\ busy' = FALSE
  /\ UNCHANGED <<acVars, held, recalled, toPa, toAc, blind, lostRequest>>

\* The reservations live in memory only
PaRestart ==
  /\ "pa restart" \in Faults
  /\ held' = {}
  /\ recalled' = {}
  /\ toPa' = <<>>
  /\ busy' = FALSE
  /\ blind' = TRUE
  /\ UNCHANGED <<acVars, toAc, lostRequest>>

-----------------------------------------------------------------------------
(* MQTT sessions start clean: what is published while the subscriber        *)
(* reconnects is lost.                                                      *)

LoseRequest ==
  /\ "loss" \in Faults
  /\ \E k \in DOMAIN toPa : toPa' = RemoveAt(toPa, k)
  /\ lostRequest' = TRUE
  /\ UNCHANGED <<acVars, paVars, toAc, blind>>

LoseReply ==
  /\ "loss" \in Faults
  /\ \E k \in DOMAIN replies : replies' = RemoveAt(replies, k)
  /\ UNCHANGED <<item, call, paVars, toPa, toAc, blind, lostRequest>>

LoseRevoke ==
  /\ "loss" \in Faults
  /\ \E k \in DOMAIN toAc : toAc' = RemoveAt(toAc, k)
  /\ blind' = TRUE
  /\ UNCHANGED <<acVars, paVars, toPa, lostRequest>>

-----------------------------------------------------------------------------
Init ==
  /\ item = [i \in Items |-> "stopped"]
  /\ call = NoCall
  /\ toPa = <<>> /\ replies = <<>> /\ toAc = <<>>
  /\ held = {} /\ recalled = {}
  /\ busy = FALSE
  /\ blind = FALSE /\ lostRequest = FALSE

AcStep ==
  \/ \E i \in Items : Start(i) \/ WarmStart(i) \/ Stop(i) \/ Cooled(i)
  \/ \E i \in Items, op \in Ops : Call(i, op)
  \/ Accept \/ GiveUp \/ GetRevoke \/ AcRestart

PaStep ==
  \/ Serve \/ HardLimit \/ Resume \/ PaRestart
  \/ \E i \in Items : Revoke(i)

Network == LoseRequest \/ LoseReply \/ LoseRevoke

Next == AcStep \/ PaStep \/ Network

Spec == Init /\ [][Next]_vars

\* Each agent goes round its loop: it ends its calls, and between two scripts
\* it serves its messages.  read_main of the PA works its revocations off.
Fairness ==
  /\ WF_vars(Accept) /\ WF_vars(GiveUp) /\ WF_vars(Resume)
  /\ SF_vars(GetRevoke) /\ SF_vars(Serve)
  /\ \A i \in Items : SF_vars(i \in recalled /\ Revoke(i))

FairSpec == Spec /\ Fairness

-----------------------------------------------------------------------------
TypeOK ==
  /\ item \in [Items -> ItemStates]
  /\ call \in Calls
  /\ toPa \in Seq(Request) /\ Len(toPa) <= MaxQueue
  /\ replies \in Seq(Reply) /\ Len(replies) <= MaxQueue
  /\ Idle => replies = <<>>
  /\ toAc \in Seq(Items) /\ Len(toAc) <= MaxRecalls
  /\ held \subseteq Items /\ recalled \subseteq Items
  /\ {busy, blind, lostRequest} \subseteq BOOLEAN

\* What runs is counted by the PA, or the order to stop is on its way.
Aware == \A i \in Items : item[i] = "running" => i \in Known

\* Rule Aware survives every order of calls, give-ups, late requests,
\* revocations and AC restarts; what breaks it is a reply taken for another
\* call, a pump restarted while it cools down, a lost revocation, and a restart
\* of the PA.
AwareUnlessBlind == ~blind => Aware

\* The PA does not go on counting a stopped item: what it still holds for one
\* is about to be released by a request in its queue, also when the AC gave up
\* waiting for that release or was restarted.
NoOrphan ==
  \A i \in Items :
    i \in held /\ item[i] = "stopped" /\ ~lostRequest => Requested(i)

\* Whatever the PA decided to take back stops running, also when PA and AC wait
\* for an answer of each other at that time, unless the two have lost track of
\* each other.
RecallTakesEffect ==
  \A i \in Items : i \in recalled ~> (item[i] # "running" \/ blind)

\* The protocol keeps the promise of PowerLease
Lease == INSTANCE PowerLease WITH
  granted <- held,
  recalled <- recalled \cup Range(toAc),
  using <- {i \in Items : item[i] = "running"},
  trusted <- ~blind

LeaseSpec == Lease!Spec
=============================================================================
