-------------------------- MODULE CallBudgetProofs --------------------------
(***************************************************************************)
(* Proofs about the call ceiling for any number of callers, any ceiling    *)
(* and any retry policy.                                                   *)
(***************************************************************************)
EXTENDS CallBudget, FiniteSetTheorems, TLAPS

\* The attempts of an ask, with what the suspended coroutine will still do.
AttemptInv ==
  \A c \in Caller :
    /\ pc[c] = "answer" => attempt[c] >= 1
    /\ pc[c] \in {"delay", "repack"} => attempt[c] < MaxAttempts
    /\ posts[c] <= attempt[c] + (IF repacked[c] THEN 1 ELSE 0)

IInv == TypeOK /\ Charged /\ AttemptInv /\ OvershootBounded

-----------------------------------------------------------------------------
\* Suspended callers are callers: finitely many.
LEMMA InFlightFinite ==
  /\ IsFiniteSet(InFlight)
  /\ Cardinality(InFlight) \in Nat
  /\ Cardinality(Caller) \in Nat
  /\ Cardinality(InFlight) <= Cardinality(Caller)
BY CallerAssumption, FS_Subset, FS_CardinalityType DEF InFlight

\* Types and attempts, one lemma per action.
LEMMA AskLocal ==
  ASSUME TypeOK, AttemptInv, NEW c \in Caller, Ask(c)
  PROVE  TypeOK' /\ AttemptInv'
BY AttemptsAssumption DEF TypeOK, AttemptInv, Ask

LEMMA ConsumeLocal ==
  ASSUME TypeOK, AttemptInv, NEW c \in Caller, Consume(c)
  PROVE  TypeOK' /\ AttemptInv'
BY DEF TypeOK, AttemptInv, Consume, Return, Suspend

LEMMA ContextTooLongLocal ==
  ASSUME TypeOK, AttemptInv, NEW c \in Caller, ContextTooLong(c)
  PROVE  TypeOK' /\ AttemptInv'
BY AttemptsAssumption DEF TypeOK, AttemptInv, ContextTooLong

LEMMA TryLaterLocal ==
  ASSUME TypeOK, AttemptInv, NEW c \in Caller, TryLater(c)
  PROVE  TypeOK' /\ AttemptInv'
BY DEF TypeOK, AttemptInv, TryLater, Suspend

LEMMA PostAgainLocal ==
  ASSUME TypeOK, AttemptInv, NEW c \in Caller, PostAgain(c)
  PROVE  TypeOK' /\ AttemptInv'
BY AttemptsAssumption DEF TypeOK, AttemptInv, PostAgain, Post

LEMMA EndLocal ==
  ASSUME TypeOK, AttemptInv, NEW c \in Caller, FinalError(c) \/ Cancel(c)
  PROVE  TypeOK' /\ AttemptInv'
BY DEF TypeOK, AttemptInv, FinalError, Cancel, Return, Suspend

LEMMA Local ==
  ASSUME TypeOK, AttemptInv, [Next]_vars
  PROVE  TypeOK' /\ AttemptInv'
<1>1. CASE UNCHANGED vars
  BY <1>1 DEF TypeOK, AttemptInv, vars
<1>2. ASSUME NEW c \in Caller, Ask(c) \/ Step(c) \/ Cancel(c)
      PROVE  TypeOK' /\ AttemptInv'
  BY <1>2, AskLocal, ConsumeLocal, ContextTooLongLocal, TryLaterLocal,
     PostAgainLocal, EndLocal DEF Step
<1> QED BY <1>1, <1>2 DEF Next

-----------------------------------------------------------------------------
\* A step that starts no ask and charges nothing leaves no more asks in flight.
LEMMA FewerInFlight ==
  ASSUME OvershootBounded, Charged, TypeOK,
         UNCHANGED <<used, dropped>>, InFlight' \subseteq InFlight
  PROVE  Charged' /\ OvershootBounded'
<1>1. Cardinality(InFlight') \in Nat /\ Cardinality(InFlight') <= Cardinality(InFlight)
  BY InFlightFinite, FS_Subset, FS_CardinalityType
<1> QED BY <1>1, InFlightFinite DEF OvershootBounded, Charged, TypeOK

\* The answer of c leaves one ask less in flight.
LEMMA ConsumeBounded ==
  ASSUME OvershootBounded, Charged, TypeOK, NEW c \in Caller, Consume(c)
  PROVE  Charged' /\ OvershootBounded'
<1>1. InFlight' = InFlight \ {c} /\ c \in InFlight
  BY DEF InFlight, Consume, Return, Suspend, TypeOK
<1>2. Cardinality(InFlight') = Cardinality(InFlight) - 1
  BY <1>1, InFlightFinite, FS_RemoveElement
<1>3. CASE used < Cap
  <2>1. used' = used + 1 /\ dropped' = dropped /\ dropped = 0
    BY <1>3, CapAssumption DEF Consume, Charged, TypeOK
  <2> QED BY <1>2, <1>3, <2>1, InFlightFinite, CapAssumption
          DEF Charged, OvershootBounded, TypeOK
<1>4. CASE used = Cap
  <2>1. used' = used /\ dropped' = dropped + 1
    BY <1>4, CapAssumption DEF Consume
  <2> QED BY <1>2, <1>4, <2>1, InFlightFinite, CapAssumption
          DEF Charged, OvershootBounded, TypeOK
<1> QED BY <1>3, <1>4, CapAssumption DEF Charged, TypeOK

\* A new ask is in flight only while the ceiling is not reached.
LEMMA AskBounded ==
  ASSUME OvershootBounded, Charged, TypeOK, NEW c \in Caller, Ask(c)
  PROVE  Charged' /\ OvershootBounded'
<1>1. UNCHANGED <<used, dropped>>
  BY DEF Ask
<1>2. CASE used < Cap
  BY <1>1, <1>2, CapAssumption DEF Charged, OvershootBounded, TypeOK
<1>3. CASE ~(used < Cap)
  <2>1. InFlight' = InFlight
    BY <1>3 DEF Ask, InFlight
  <2> QED BY <1>1, <2>1, FewerInFlight
<1> QED BY <1>2, <1>3

LEMMA OtherBounded ==
  ASSUME OvershootBounded, Charged, TypeOK, NEW c \in Caller,
         ContextTooLong(c) \/ TryLater(c) \/ PostAgain(c) \/ FinalError(c) \/ Cancel(c)
  PROVE  Charged' /\ OvershootBounded'
<1>1. UNCHANGED <<used, dropped>>
  BY DEF ContextTooLong, TryLater, PostAgain, FinalError, Cancel
<1>2. InFlight' \subseteq InFlight
  BY DEF ContextTooLong, TryLater, PostAgain, FinalError, Cancel, Post, Return,
         Suspend, InFlight, TypeOK
<1> QED BY <1>1, <1>2, FewerInFlight

-----------------------------------------------------------------------------
THEOREM Inductive == Spec => []IInv
<1>1. Init => IInv
  <2> SUFFICES ASSUME Init PROVE IInv
    OBVIOUS
  <2>1. TypeOK /\ AttemptInv
    BY AttemptsAssumption DEF Init, TypeOK, AttemptInv
  <2>2. used # Cap /\ Charged
    BY CapAssumption DEF Init, Charged
  <2> QED BY <2>1, <2>2 DEF IInv, OvershootBounded
<1>2. IInv /\ [Next]_vars => IInv'
  <2> SUFFICES ASSUME IInv, [Next]_vars PROVE IInv'
    OBVIOUS
  <2>1. TypeOK' /\ AttemptInv'
    BY Local DEF IInv
  <2>2. ASSUME NEW c \in Caller, Ask(c) \/ Step(c) \/ Cancel(c)
        PROVE  Charged' /\ OvershootBounded'
    BY <2>2, AskBounded, ConsumeBounded, OtherBounded DEF IInv, Step
  <2>3. Charged' /\ OvershootBounded'
    <3>1. CASE UNCHANGED vars
      <4>1. UNCHANGED <<used, dropped>> /\ InFlight' = InFlight
        BY <3>1 DEF vars, InFlight
      <4> QED BY <4>1, FewerInFlight DEF IInv
    <3> QED BY <2>2, <3>1 DEF Next
  <2> QED BY <2>1, <2>3 DEF IInv
<1> QED BY <1>1, <1>2, PTL DEF Spec

\* Types hold for any parameters.
THEOREM TypeCorrect == Spec => []TypeOK
<1>1. IInv => TypeOK
  BY DEF IInv
<1> QED BY <1>1, Inductive, PTL

\* Never more charges than the ceiling, and no answer dropped before it.
THEOREM ChargedWithinCap == Spec => []Charged
<1>1. IInv => Charged
  BY DEF IInv
<1> QED BY <1>1, Inductive, PTL

\* The answers paid for beyond the ceiling are fewer than the callers.
THEOREM Overshoot == Spec => []OvershootBounded
<1>1. IInv => OvershootBounded
  BY DEF IInv
<1> QED BY <1>1, Inductive, PTL

\* An ask sends at most MaxAttempts + 1 requests.
THEOREM Posts == Spec => []PostsBounded
<1>1. IInv => PostsBounded
  <2> SUFFICES ASSUME IInv, NEW c \in Caller PROVE posts[c] <= MaxAttempts + 1
    BY DEF PostsBounded
  <2>1. attempt[c] \in 0..MaxAttempts /\ posts[c] \in Nat
    BY DEF IInv, TypeOK
  <2>2. posts[c] <= attempt[c] + (IF repacked[c] THEN 1 ELSE 0)
    BY DEF IInv, AttemptInv
  <2> QED BY <2>1, <2>2, AttemptsAssumption
<1> QED BY <1>1, Inductive, PTL
=============================================================================
