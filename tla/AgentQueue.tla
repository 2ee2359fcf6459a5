----------------------------- MODULE AgentQueue -----------------------------
(***************************************************************************)
(* The queue of MQTT messages of an agent (lib/sd/list.c, agent.c): a      *)
(* doubly linked list with one cursor kept in the list itself.  The MQTT   *)
(* client's thread appends to it; the agent's thread walks it, deletes     *)
(* from it and purges it.  The list locks only if it is compiled with      *)
(* THREAD_SAFE, and list_reset not even then.                              *)
(*                                                                         *)
(* Two readers: agent_run, which handles the agent's own messages, after a *)
(* script may have looked at all of them (agent.messages), and a script    *)
(* that looks at the queue of an MQTT session of its own and purges it     *)
(* (pa/utils.js, si/mirror.js).                                            *)
(*                                                                         *)
(* A step of a thread touches the shared fields as one statement does, or  *)
(* as a few statements that no step of the other thread can tell apart     *)
(* while a mutex is held.  Without one a real build has more               *)
(* interleavings than these.                                               *)
(*                                                                         *)
(* Left out: purgemq and delete_message of the agent's own queue, which a  *)
(* handler may call (agent.c:1402-1430) and no script in the repository    *)
(* does; and list_count, whose result is only logged.  A node is never     *)
(* allocated where a freed one was.                                        *)
(***************************************************************************)
EXTENDS Naturals, Sequences

CONSTANTS
  N,         \* the number of messages that arrive (a bound)
  Builds     \* the builds of list.c to look at: "THREAD_SAFE", or "plain" without

ASSUME NAssumption == N \in Nat
ASSUME BuildsAssumption == Builds \subseteq {"THREAD_SAFE", "plain"}

VARIABLES
  lp,        \* the list: first, last, the cursor next, and who holds the mutex
  links,     \* next and prev of the node of each message
  live,      \* the nodes allocated
  mqtt,      \* the MQTT thread: where it is, and ip in list_add
  agent,     \* the agent's thread: where it is, and its local variables
  arrived,   \* the number of messages received
  own,       \* the messages sent to the agent's own topic
  handled,   \* history: the messages processed, in order
  build,     \* how list.c was compiled
  reader,    \* who reads the queue
  fault      \* how the program died

vars == <<lp, links, live, mqtt, agent, arrived, own, handled, build, reader, fault>>

NULL == 0
Node == 1..N      \* the node of the n-th message
Pointer == 0..N

\* What to do in a walk of the queue: look (js_create_messages_array) or serve
Phases == {"look", "serve"}

AddPlaces == {"idle", "test", "next", "last", "first", "tail", "link", "back", "end"}
ReadPlaces == {"idle", "reset", "set", "get", "advance", "handle", "delete",
               "check", "unlink", "ends", "purge", "free"}

\* "purging" agents (agent.purge) drop what is not theirs, "keeping" ones do
\* not; a "session" is looked at and purged
Readers == {"purging", "keeping", "session"}

Init ==
  /\ lp = [first |-> NULL, last |-> NULL, next |-> NULL, mutex |-> "free"]
  /\ links = [n \in Node |-> [next |-> NULL, prev |-> NULL]]
  /\ live = {}
  /\ mqtt = [pc |-> "idle", ip |-> NULL]
  /\ agent = [pc |-> "idle", phase |-> "look", msg |-> NULL, ip |-> NULL,
              prev |-> NULL, next |-> NULL]
  /\ arrived = 0
  /\ own = {}
  /\ handled = <<>>
  /\ build \in Builds
  /\ reader \in Readers
  /\ fault = "none"

-----------------------------------------------------------------------------
(* The mutex of the list, and memory                                       *)

\* pthread_mutex_lock, where it is compiled in
Lock(who) ==
  /\ lp.mutex = "free"
  /\ lp' = [lp EXCEPT !.mutex = IF build = "THREAD_SAFE" THEN who ELSE "free"]

\* The list with the fields l, unlocked
Unlock(l) == lp' = [l EXCEPT !.mutex = "free"]

\* What comes of following the pointer p: NULL or a freed node is the end
Follow(p) == fault' = IF p \in live THEN fault ELSE IF p = NULL THEN "null" ELSE "freed"

-----------------------------------------------------------------------------
(* The MQTT thread: agent_getmsg, list_add                                 *)

new == arrived   \* the node being added

MqttAt(here, there) ==
  /\ mqtt.pc = here
  /\ mqtt' = [mqtt EXCEPT !.pc = there]

\* A message arrives, and a node is allocated for it
Arrive ==
  /\ MqttAt("idle", "test")
  /\ arrived < N
  /\ arrived' = arrived + 1
  /\ own' \in {own, own \cup {arrived + 1}}
  /\ live' = live \cup {arrived + 1}
  /\ UNCHANGED <<lp, links, agent, handled, fault>>

AddTest ==
  /\ MqttAt("test", IF lp.first = NULL THEN "next" ELSE "tail")
  /\ Lock("mqtt")
  /\ UNCHANGED <<links, live, agent, arrived, own, handled, fault>>

\* first = last = next = new_item, from the right to the left
AddOnly ==
  /\ \/ MqttAt("next", "last") /\ lp' = [lp EXCEPT !.next = new]
     \/ MqttAt("last", "first") /\ lp' = [lp EXCEPT !.last = new]
     \/ MqttAt("first", "idle") /\ Unlock([lp EXCEPT !.first = new])
  /\ UNCHANGED <<links, live, agent, arrived, own, handled, fault>>

AddTail ==
  /\ mqtt.pc = "tail"
  /\ mqtt' = [pc |-> "link", ip |-> lp.last]
  /\ UNCHANGED <<lp, links, live, agent, arrived, own, handled, fault>>

\* ip->next = new_item
AddLink ==
  /\ MqttAt("link", "back")
  /\ Follow(mqtt.ip)
  /\ links' = [n \in Node |->
       IF n = mqtt.ip THEN [links[n] EXCEPT !.next = new] ELSE links[n]]
  /\ UNCHANGED <<lp, live, agent, arrived, own, handled>>

\* new_item->prev = ip
AddBack ==
  /\ MqttAt("back", "end")
  /\ Follow(new)
  /\ links' = [links EXCEPT ![new].prev = mqtt.ip]
  /\ UNCHANGED <<lp, live, agent, arrived, own, handled>>

\* Faulty variant: the last item stays the one before
AddEndForgotten ==
  /\ MqttAt("end", "idle")
  /\ Unlock(lp)
  /\ UNCHANGED <<links, live, agent, arrived, own, handled, fault>>

AddEnd ==
  /\ MqttAt("end", "idle")
  /\ Unlock([lp EXCEPT !.last = new])
  /\ UNCHANGED <<links, live, agent, arrived, own, handled, fault>>

-----------------------------------------------------------------------------
(* The agent's thread: a pass over the queue                               *)

AgentAt(here, there) ==
  /\ agent.pc = here
  /\ agent' = [agent EXCEPT !.pc = there]

\* agent_run comes to its queue, or a script looks at one
Begin ==
  /\ agent.pc = "idle"
  /\ \E phase \in IF reader = "session" THEN {"look"} ELSE Phases :
       agent' = [agent EXCEPT !.pc = "reset", !.phase = phase]
  /\ UNCHANGED <<lp, links, live, mqtt, handled, fault>>

\* list_reset reads first and then writes next, locked or not
ResetRead ==
  /\ agent.pc = "reset"
  /\ agent' = [agent EXCEPT !.pc = "set", !.ip = lp.first]
  /\ UNCHANGED <<lp, links, live, mqtt, handled, fault>>

\* Faulty variant: the walk goes on where the last one ended
ResetWriteForgotten ==
  /\ AgentAt("set", "get")
  /\ UNCHANGED <<lp, links, live, mqtt, handled, fault>>

ResetWrite ==
  /\ AgentAt("set", "get")
  /\ lp' = [lp EXCEPT !.next = agent.ip]
  /\ UNCHANGED <<links, live, mqtt, handled, fault>>

\* list_get_next up to the item it will return
GetNext ==
  /\ lp.next # NULL
  /\ agent.pc = "get"
  /\ agent' = [agent EXCEPT !.pc = "advance", !.msg = lp.next]
  /\ Lock("agent")
  /\ UNCHANGED <<links, live, mqtt, handled, fault>>

\* list_get_next finds no more: after the look comes serving, or a purge
GetEnd ==
  /\ lp.next = NULL
  /\ lp.mutex = "free"
  /\ agent.pc = "get"
  /\ agent' = [agent EXCEPT
       !.pc = IF agent.phase = "serve" THEN "idle"
              ELSE IF reader = "session" THEN "purge" ELSE "reset",
       !.phase = "serve"]
  /\ UNCHANGED <<lp, links, live, mqtt, handled, fault>>

\* lp->next = ip->next
Advance ==
  /\ AgentAt("advance", IF agent.phase = "look" THEN "get" ELSE "handle")
  /\ Follow(agent.msg)
  /\ Unlock([lp EXCEPT !.next = links[agent.msg].next])
  /\ UNCHANGED <<links, live, mqtt, handled>>

\* Faulty variant: the topic of a message is not looked at
HandleAny ==
  /\ AgentAt("handle", "delete")
  /\ handled' = Append(handled, agent.msg)
  /\ UNCHANGED <<lp, links, live, mqtt, fault>>

\* Faulty variant: a message that was processed stays unless all are purged
HandleKeeps ==
  /\ AgentAt("handle", IF reader = "purging" THEN "delete" ELSE "get")
  /\ handled' = IF agent.msg \in own THEN Append(handled, agent.msg) ELSE handled
  /\ UNCHANGED <<lp, links, live, mqtt, fault>>

\* agent_process_message, and whether the message goes then; the handler itself
\* leaves the queue alone
Handle ==
  /\ AgentAt("handle", IF agent.msg \in own \/ reader = "purging" THEN "delete" ELSE "get")
  /\ handled' = IF agent.msg \in own THEN Append(handled, agent.msg) ELSE handled
  /\ UNCHANGED <<lp, links, live, mqtt, fault>>

-----------------------------------------------------------------------------
(* list_delete and list_purge                                              *)

DeleteStart ==
  /\ agent.pc = "delete"
  /\ agent' = [agent EXCEPT !.pc = "check", !.ip = lp.first]
  /\ Lock("agent")
  /\ UNCHANGED <<links, live, mqtt, handled, fault>>

\* The assertions of list_checkitem
Consistent(ip) ==
  LET prev == links[ip].prev
      next == links[ip].next
  IN /\ prev # ip /\ next # ip
     /\ prev # NULL => links[prev].prev # ip /\ links[prev].next = ip
     /\ next # NULL => links[next].prev = ip /\ links[next].next # ip

\* list_delete looks at an item; an assertion that fails is the end, too
DeleteCheck ==
  /\ agent.pc = "check"
  /\ agent.ip # NULL
  /\ fault' = IF agent.ip \notin live THEN "freed"
              ELSE IF Consistent(agent.ip) THEN fault ELSE "assert"
  /\ agent' = IF agent.ip # agent.msg
                THEN [agent EXCEPT !.ip = links[agent.ip].next]
                ELSE [agent EXCEPT !.pc = "unlink",
                        !.prev = links[agent.ip].prev,
                        !.next = links[agent.ip].next]
  /\ UNCHANGED <<lp, links, live, mqtt, handled>>

\* list_delete does not find the item
DeleteNotFound ==
  /\ agent.ip = NULL
  /\ AgentAt("check", "get")
  /\ Unlock(lp)
  /\ UNCHANGED <<links, live, mqtt, handled, fault>>

\* _delete_item: the links in the others
Unlink ==
  /\ AgentAt("unlink", "ends")
  /\ links' = [n \in Node |->
       [next |-> IF n = agent.prev THEN agent.next ELSE links[n].next,
        prev |-> IF n = agent.next THEN agent.prev ELSE links[n].prev]]
  /\ UNCHANGED <<lp, live, mqtt, handled, fault>>

\* Faulty variant: the list still ends with the node that is freed
DeleteEndsKeepsLast ==
  /\ AgentAt("ends", "get")
  /\ Unlock([lp EXCEPT
       !.first = IF @ = agent.ip THEN agent.next ELSE @,
       !.next = IF @ = agent.ip THEN agent.next ELSE @])
  /\ live' = live \ {agent.ip}
  /\ UNCHANGED <<links, mqtt, handled, fault>>

\* _delete_item: first, last and next, and the node is freed
DeleteEnds ==
  /\ AgentAt("ends", "get")
  /\ Unlock([lp EXCEPT
       !.first = IF @ = agent.ip THEN agent.next ELSE @,
       !.last = IF @ = agent.ip THEN agent.prev ELSE @,
       !.next = IF @ = agent.ip THEN agent.next ELSE @])
  /\ live' = live \ {agent.ip}
  /\ UNCHANGED <<links, mqtt, handled, fault>>

\* list_purge
PurgeStart ==
  /\ agent.pc = "purge"
  /\ agent' = [agent EXCEPT !.pc = "free", !.ip = lp.first]
  /\ Lock("agent")
  /\ UNCHANGED <<links, live, mqtt, handled, fault>>

PurgeFree ==
  /\ agent.pc = "free"
  /\ agent.ip # NULL
  /\ Follow(agent.ip)
  /\ agent' = [agent EXCEPT !.ip = links[agent.ip].next]
  /\ live' = live \ {agent.ip}
  /\ UNCHANGED <<lp, links, mqtt, handled>>

PurgeClear ==
  /\ agent.ip = NULL
  /\ AgentAt("free", "idle")
  /\ Unlock([lp EXCEPT !.first = NULL, !.last = NULL, !.next = NULL])
  /\ UNCHANGED <<links, live, mqtt, handled, fault>>

-----------------------------------------------------------------------------

MqttStep == AddTest \/ AddOnly \/ AddTail \/ AddLink \/ AddBack \/ AddEnd

AgentStep ==
  /\ \/ Begin \/ ResetRead \/ ResetWrite \/ GetNext \/ GetEnd \/ Advance \/ Handle
     \/ DeleteStart \/ DeleteCheck \/ DeleteNotFound \/ Unlink \/ DeleteEnds
     \/ PurgeStart \/ PurgeFree \/ PurgeClear
  /\ UNCHANGED <<arrived, own>>

Runs == fault = "none" /\ UNCHANGED <<build, reader>>

\* A dead program does nothing
Dead == fault # "none" /\ UNCHANGED vars

Next ==
  \/ Runs /\ Arrive
  \/ Runs /\ MqttStep
  \/ Runs /\ AgentStep
  \/ Dead

Spec == Init /\ [][Next]_vars

\* Both threads get to run; whether a message comes is nobody's duty.  The
\* agent sleeps between its passes, when the MQTT thread gets the mutex.
FairSpec ==
  /\ Spec
  /\ SF_vars(Runs /\ MqttStep)
  /\ WF_vars(Runs /\ AgentStep)

-----------------------------------------------------------------------------
(* Properties                                                              *)

TypeOK ==
  /\ lp \in [first : Pointer, last : Pointer, next : Pointer,
             mutex : {"free", "mqtt", "agent"}]
  /\ links \in [Node -> [next : Pointer, prev : Pointer]]
  /\ live \subseteq Node
  /\ mqtt \in [pc : AddPlaces, ip : Pointer]
  /\ agent \in [pc : ReadPlaces, phase : Phases, msg : Pointer, ip : Pointer,
                prev : Pointer, next : Pointer]
  /\ arrived \in Pointer
  /\ own \subseteq Node
  /\ handled \in Seq(own)     \* nobody else's message is processed
  /\ build \in Builds
  /\ reader \in Readers
  /\ fault \in {"none", "null", "freed", "assert"}

\* No assertion of list_checkitem (list.c:72-89) fails in list_delete,
\* whatever the build.
ChecksHold == fault # "assert"

\* With the mutex nobody follows a NULL pointer, touches a node that was
\* freed or meets a broken link, whichever way appending, walking, deleting
\* and purging interleave.
LockSuffices == build = "THREAD_SAFE" => fault = "none"

\* The nodes on the way from the first one
Chain ==
  LET reached[k \in Pointer] ==
        IF k = 0 THEN {lp.first} \ {NULL}
        ELSE reached[k - 1] \cup ({links[n].next : n \in reached[k - 1]} \ {NULL})
  IN reached[N]

\* With the mutex, whenever it is free, the list is whole: both ways along the links
\* lead through the same nodes in the order in which they arrived, first and
\* last are its ends, no node is leaked, and the cursor is in it.
ListWhole ==
  build = "THREAD_SAFE" /\ lp.mutex = "free" =>
    /\ Chain = live \ (IF mqtt.pc = "test" THEN {new} ELSE {})
    /\ lp.next \in Chain \cup {NULL}
    /\ \A n \in Chain :
         /\ links[n].prev # NULL => links[n].prev < n
         /\ links[n].prev = NULL <=> n = lp.first
         /\ links[n].next = NULL <=> n = lp.last
         /\ Consistent(n)
    /\ Chain = {} <=> lp.last = NULL

\* With the mutex the queue is what its reader takes it for: its own messages
\* are handled once each and in order, and only a purge may drop one of them.
Linked == mqtt.pc \in {"idle", "back", "end"}
Queue == INSTANCE MessageQueue WITH
  latest <- IF Linked THEN arrived ELSE arrived - 1,
  own <- IF Linked THEN own ELSE own \ {arrived},
  waiting <- {n \in Chain : ~\E i \in DOMAIN handled : handled[i] = n},
  purging <- reader = "session"
RefinesQueue ==
  /\ Queue!Init
  /\ [][build = "THREAD_SAFE" => Queue!Next]_(Queue!vars)

\* With the mutex a message that is handled, purged or not wanted leaves the queue, also one
\* that came while the queue was walked and that list_reset raced with.
Leaves ==
  \A n \in Node :
    /\ build = "THREAD_SAFE"
    /\ n \in live
    /\ n \in own \/ reader # "keeping"
    ~> n \notin live
=============================================================================
