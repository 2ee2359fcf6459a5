----------------------------- MODULE PowerLease -----------------------------
(***************************************************************************)
(* What the power accounting of an installation promises, whatever carries *)
(* the messages: a consumer that draws power holds a lease on it, or the   *)
(* lease has been recalled and the recall is still on its way.             *)
(*                                                                         *)
(* The promise cannot survive everything (an allocator that forgets its    *)
(* leases, a recall that is lost): `trusted` says that nothing of the kind *)
(* has happened yet, and Betray is the step at which it does.  PaClient,   *)
(* the protocol the agents really run, is checked to implement Spec.       *)
(***************************************************************************)
EXTENDS Naturals

CONSTANT Items      \* the power consumers

VARIABLES
  granted,    \* items the allocator counts
  recalled,   \* items that have been, or are about to be, told to stop
  using,      \* items that draw power
  trusted     \* neither side has lost track of the other

vars == <<granted, recalled, using, trusted>>

Grant(i) ==
  /\ granted' = granted \cup {i}
  /\ UNCHANGED <<recalled, using, trusted>>

Begin(i) ==
  /\ i \in granted \cup recalled
  /\ using' = using \cup {i}
  /\ UNCHANGED <<granted, recalled, trusted>>

End(i) ==
  /\ using' = using \ {i}
  /\ UNCHANGED <<granted, recalled, trusted>>

\* A lease ends only when its item draws nothing
Free(i) ==
  /\ i \notin using
  /\ granted' = granted \ {i}
  /\ UNCHANGED <<recalled, using, trusted>>

\* The allocator wants the items of S back; it may forget their leases at once
Recall(S) ==
  /\ recalled' = recalled \cup S
  /\ granted' \in {granted, granted \ S}
  /\ UNCHANGED <<using, trusted>>

\* The recall reaches the item, which stops
Told(i) ==
  /\ using' = using \ {i}
  /\ recalled' \in {recalled, recalled \ {i}}
  /\ UNCHANGED <<granted, trusted>>

\* The consumers stop altogether, and with them the recalls on their way
Halt ==
  /\ using' = {}
  /\ recalled' \subseteq recalled
  /\ UNCHANGED <<granted, trusted>>

\* One side loses track of the other: nothing is promised from here on
Betray ==
  /\ trusted' = FALSE
  /\ granted' \subseteq Items
  /\ recalled' \subseteq Items
  /\ using' \subseteq Items

Init ==
  /\ granted = {}
  /\ recalled = {}
  /\ using = {}
  /\ trusted = TRUE

Next ==
  \/ \E i \in Items : Grant(i) \/ Begin(i) \/ End(i) \/ Free(i) \/ Told(i)
  \/ \E S \in SUBSET Items : Recall(S)
  \/ Halt
  \/ Betray

Spec == Init /\ [][Next]_vars

-----------------------------------------------------------------------------
TypeOK ==
  /\ granted \subseteq Items
  /\ recalled \subseteq Items
  /\ using \subseteq Items
  /\ trusted \in BOOLEAN

\* Power that is drawn is known to the allocator, or its recall is under way
\* (the rule of agents/ac/README.md:230, "it must not run without PA
\* awareness").
PowerIsLeased == trusted => using \subseteq granted \cup recalled
=============================================================================
