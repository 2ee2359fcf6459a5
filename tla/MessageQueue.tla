---------------------------- MODULE MessageQueue ----------------------------
(***************************************************************************)
(* What a queue of messages promises its reader (the abstract              *)
(* specification of AgentQueue).  Messages are numbered in the order in    *)
(* which they arrive.  The reader handles those addressed to it, its own,  *)
(* in that order and each once; it may throw away the others one by one.   *)
(* A reader that only looks at the queue purges it as a whole.             *)
(***************************************************************************)
EXTENDS Naturals, Sequences

VARIABLES
  latest,    \* the number of messages that have arrived
  own,       \* those addressed to the reader
  waiting,   \* those in the queue, not handled yet
  handled,   \* those handled, in the order it was done
  purging    \* the reader purges instead of handling

vars == <<latest, own, waiting, handled, purging>>

Init ==
  /\ latest = 0
  /\ own = {}
  /\ waiting = {}
  /\ handled = <<>>
  /\ purging \in BOOLEAN

Arrive ==
  /\ latest' = latest + 1
  /\ own' \in {own, own \cup {latest + 1}}
  /\ waiting' = waiting \cup {latest + 1}
  /\ UNCHANGED <<handled, purging>>

Handle(n) ==
  /\ ~purging
  /\ n \in waiting \cap own
  /\ \A k \in waiting \cap own : n <= k
  /\ waiting' = waiting \ {n}
  /\ handled' = Append(handled, n)
  /\ UNCHANGED <<latest, own, purging>>

Discard(n) ==
  /\ ~purging
  /\ n \in waiting \ own
  /\ waiting' = waiting \ {n}
  /\ UNCHANGED <<latest, own, handled, purging>>

Purge ==
  /\ purging
  /\ waiting' = {}
  /\ UNCHANGED <<latest, own, handled, purging>>

Next ==
  \/ Arrive
  \/ \E n \in waiting : Handle(n) \/ Discard(n)
  \/ Purge

Spec == Init /\ [][Next]_vars

-----------------------------------------------------------------------------

TypeOK ==
  /\ latest \in Nat
  /\ own \subseteq 1..latest
  /\ waiting \subseteq 1..latest
  /\ handled \in Seq(own)
  /\ purging \in BOOLEAN

\* Messages are handled in the order in which they came, none twice.
InOrder == \A i, j \in 1..Len(handled) : i < j => handled[i] < handled[j]

\* A message addressed to the reader waits until it has been handled.
NothingLost ==
  ~purging => \A n \in own : n \in waiting \/ \E i \in 1..Len(handled) : handled[i] = n
=============================================================================
