--------------------------- MODULE AiStatusProofs ---------------------------
(***************************************************************************)
(* The breaker for any number of turns and any threshold.                  *)
(***************************************************************************)
EXTENDS AiStatus, FiniteSetTheorems, TLAPS

\* The state of the service keeps its types.
THEOREM TypeCorrect == Spec => []TypeOK
<1>1. Init => TypeOK
  <2> SUFFICES ASSUME Init PROVE TypeOK
    OBVIOUS
  <2>1. degraded \in BOOLEAN
    BY Zenon DEF Init
  <2>2. consecutiveFailures \in Nat /\ inFlight \subseteq Turns
    BY DEF Init
  <2>3. QED BY <2>1, <2>2 DEF TypeOK
<1>2. TypeOK /\ [Next]_vars => TypeOK'
  <2> SUFFICES ASSUME TypeOK, [Next]_vars PROVE TypeOK'
    OBVIOUS
  <2>1. degraded' \in BOOLEAN
    BY Zenon DEF TypeOK, Next, TurnStep, Enter, Leave, RecordFailure, RecordSuccess, Restart, vars
  <2>2. consecutiveFailures' \in Nat /\ inFlight' \subseteq Turns
    BY DEF TypeOK, Next, TurnStep, Enter, Leave, RecordFailure, RecordSuccess, Restart, vars
  <2>3. QED BY <2>1, <2>2 DEF TypeOK
<1>3. QED BY <1>1, <1>2, PTL DEF Spec

\* isDegraded() is TRUE exactly when the failures counted since the last
\* success have reached the threshold, in every interleaving of the turns.
THEOREM DegradedIsConsistent == Spec => []DegradedConsistent
<1> USE ThresholdAssumption
<1>1. Init => DegradedConsistent
  BY DEF Init, DegradedConsistent
<1>2. ASSUME TypeOK, DegradedConsistent, [Next]_vars
      PROVE  DegradedConsistent'
  <2> USE <1>2 DEF TypeOK, DegradedConsistent
  <2>1. ASSUME NEW t \in Turns, RecordFailure(t) PROVE DegradedConsistent'
    <3>1. degraded' <=> (degraded \/ consecutiveFailures + 1 >= Threshold)
      BY <2>1, Zenon DEF RecordFailure
    <3>2. consecutiveFailures' = consecutiveFailures + 1
      BY <2>1 DEF RecordFailure
    <3>3. QED BY <3>1, <3>2
  <2>2. CASE Restart \/ \E t \in Turns : RecordSuccess(t)
    <3>1. ~degraded' /\ consecutiveFailures' = 0
      BY <2>2, Zenon DEF Restart, RecordSuccess
    <3>2. QED BY <3>1
  <2>3. CASE UNCHANGED vars \/ \E t \in Turns : Enter(t) \/ Leave(t)
    BY <2>3 DEF Enter, Leave, vars
  <2>4. QED BY <2>1, <2>2, <2>3 DEF Next, TurnStep
<1>3. QED BY <1>1, <1>2, TypeCorrect, PTL DEF Spec

\* The failures counted stay below the threshold plus the turns that overlap.
\* Inductive with DegradedConsistent: a closed breaker has room for every turn
\* to come in, and an open one only lets them out, one failure each at most.
THEOREM OvershootIsBounded == Spec => []OvershootBounded
<1> USE TurnsAssumption, ThresholdAssumption
<1> DEFINE N(S) == Cardinality(S)
<1>1. \A S \in SUBSET Turns : N(S) \in Nat /\ N(S) <= N(Turns)
  BY FS_Subset, FS_CardinalityType
<1>2. \A S \in SUBSET Turns : \A t \in S : N(S \ {t}) = N(S) - 1
  BY FS_Subset, FS_RemoveElement
<1>3. N(Turns) \in Nat /\ N({}) = 0
  BY FS_CardinalityType, FS_EmptySet
<1>4. Init => OvershootBounded
  BY <1>3 DEF Init, OvershootBounded
<1>5. ASSUME TypeOK, DegradedConsistent, OvershootBounded, [Next]_vars
      PROVE  OvershootBounded'
  <2> USE <1>3, <1>5 DEF TypeOK, OvershootBounded
  <2>1. ASSUME NEW t \in Turns, Enter(t) PROVE OvershootBounded'
    <3>1. consecutiveFailures' = consecutiveFailures /\ consecutiveFailures <= Threshold - 1
      BY <2>1 DEF Enter, DegradedConsistent
    <3>2. inFlight' \in SUBSET Turns
      BY <2>1 DEF Enter
    <3>3. N(inFlight') \in Nat /\ N(inFlight') <= N(Turns)
      BY <1>1, <3>2
    <3>4. QED BY <3>1, <3>3
  <2>2. ASSUME NEW t \in Turns, Leave(t) \/ RecordFailure(t) \/ RecordSuccess(t)
        PROVE  OvershootBounded'
    <3>1. t \in inFlight /\ inFlight' = inFlight \ {t} /\ consecutiveFailures' \in Nat
          /\ consecutiveFailures' <= consecutiveFailures + 1
      BY <2>2 DEF Leave, RecordFailure, RecordSuccess
    <3>2. N(inFlight) \in Nat /\ N(inFlight') = N(inFlight) - 1
      BY <1>1, <1>2, <3>1
    <3>3. QED BY <3>1, <3>2
  <2>3. CASE Restart
    BY <2>3 DEF Restart
  <2>4. CASE UNCHANGED vars
    BY <2>4 DEF vars
  <2>5. QED BY <2>1, <2>2, <2>3, <2>4 DEF Next, TurnStep
<1>6. QED BY <1>4, <1>5, TypeCorrect, DegradedIsConsistent, PTL DEF Spec
=============================================================================
