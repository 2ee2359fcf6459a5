-------------------------- MODULE PowerLeaseProofs --------------------------
(* The promise of PowerLease, for any set of items.                        *)
EXTENDS PowerLease, TLAPS

\* The state of the abstract lease keeps its types (PowerLease.Spec).
LEMMA LeaseTypes == Spec => []TypeOK
<1>1. Init => TypeOK
  BY DEF Init, TypeOK
<1>2. TypeOK /\ [Next]_vars => TypeOK'
  BY DEF TypeOK, Next, vars, Grant, Begin, End, Free, Recall, Told, Halt, Betray
<1> QED
  BY <1>1, <1>2, PTL DEF Spec

\* Power that is drawn is known to the allocator or being called back: what
\* every implementation of PowerLease (PaClient: the calls of pa_client.js)
\* inherits.
THEOREM LeaseHolds == Spec => []PowerIsLeased
<1>1. Init => PowerIsLeased
  BY DEF Init, PowerIsLeased
<1>2. PowerIsLeased /\ [Next]_vars => PowerIsLeased'
  <2> SUFFICES ASSUME PowerIsLeased, [Next]_vars, trusted'
               PROVE  using' \subseteq granted' \cup recalled'
    BY DEF PowerIsLeased
  <2>1. ASSUME NEW i \in Items, Grant(i)
        PROVE  using' \subseteq granted' \cup recalled'
    BY <2>1 DEF PowerIsLeased, Grant
  <2>2. ASSUME NEW i \in Items, Begin(i)
        PROVE  using' \subseteq granted' \cup recalled'
    BY <2>2 DEF PowerIsLeased, Begin
  <2>3. ASSUME NEW i \in Items, End(i) \/ Told(i)
        PROVE  using' \subseteq granted' \cup recalled'
    BY <2>3 DEF PowerIsLeased, End, Told
  <2>4. ASSUME NEW i \in Items, Free(i)
        PROVE  using' \subseteq granted' \cup recalled'
    BY <2>4 DEF PowerIsLeased, Free
  <2>5. ASSUME NEW S \in SUBSET Items, Recall(S)
        PROVE  using' \subseteq granted' \cup recalled'
    BY <2>5 DEF PowerIsLeased, Recall
  <2>6. CASE Halt
    BY <2>6 DEF Halt
  <2>7. CASE Betray
    BY <2>7 DEF Betray
  <2>8. CASE UNCHANGED vars
    BY <2>8 DEF PowerIsLeased, vars
  <2> QED
    BY <2>1, <2>2, <2>3, <2>4, <2>5, <2>6, <2>7, <2>8 DEF Next
<1> QED
  BY <1>1, <1>2, PTL DEF Spec
=============================================================================
