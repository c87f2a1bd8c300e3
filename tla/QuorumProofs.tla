---------------------------- MODULE QuorumProofs ----------------------------
(***************************************************************************)
(* Quorum's safety properties, for every set of calls and families.        *)
(* The invariant says, for every call, where it is counted by the state of *)
(* its task, and that cancellation follows the quorum.                     *)
(***************************************************************************)
EXTENDS QuorumRound, FiniteSetTheorems, TLAPS

\* Where every call is counted.  While the coroutine waits, a call is pending
\* until its end has been collected; what it leaves the loop with is cancelled.
Counted ==
  /\ \A c \in results : task[c] = "answered"
  /\ \A c \in failures : task[c] = "failed"
  /\ pending \cup results \cup failures = Call
  /\ pc = "wait" => /\ cancelled = {}
                    /\ \A c \in pending : task[c] \in Finished \cup {"running"}
  /\ pc \in {"reap", "returned", "rows", "below"} =>
       /\ cancelled = pending
       /\ \A c \in pending : task[c] \in {"cancelling", "cancelled"}
  /\ pc \in {"returned", "rows", "below"} => \A c \in pending : task[c] = "cancelled"
  /\ pc = "abandoned" => cancelled = {} \/ cancelled = pending

\* Cancellation follows a deadline, the deadline follows the quorum.
QuorumFirst ==
  /\ deadline # "none" => Cardinality(Families(results)) >= Required
  /\ cancelled # {} => deadline # "none"
  /\ pc = "below" => Cardinality(Call) >= 2 /\ Cardinality(Families(results)) < 2

IInv == TypeOK /\ Counted /\ QuorumFirst

-----------------------------------------------------------------------------

\* Sets of calls and of their families are finite, and grow together.
LEMMA FamiliesGrow ==
  ASSUME NEW S \in SUBSET Call, NEW T \in SUBSET Call, S \subseteq T
  PROVE  /\ IsFiniteSet(Families(T)) /\ Cardinality(Families(T)) \in Nat
         /\ Cardinality(Families(S)) \in Nat
         /\ Cardinality(Families(S)) <= Cardinality(Families(T))
<1>1. IsFiniteSet(T)
  BY CallAssumption, FS_Subset
<1>2. IsFiniteSet(Families(T))
  <2> DEFINE f == [c \in T |-> FamilyOf[c]]
  <2>1. f \in Surjection(T, Families(T))
    BY DEF Families, Surjection
  <2> QED BY <1>1, <2>1, FS_Surjection
<1>3. Families(S) \subseteq Families(T)
  BY DEF Families
<1> QED BY <1>2, <1>3, FS_Subset, FS_CardinalityType

LEMMA RequiredType == Required \in 0..2
<1>1. Cardinality(Call) \in Nat
  BY CallAssumption, FS_CardinalityType
<1> QED BY <1>1 DEF Required, Fewer

LEMMA InitInv == Init => IInv
<1> SUFFICES ASSUME Init PROVE IInv
  OBVIOUS
<1>1. TypeOK
  BY CallAssumption DEF Init, TypeOK, Finished, Over
<1>2. Counted
  BY DEF Init, Counted, Finished
<1>3. QuorumFirst
  BY DEF Init, QuorumFirst
<1> QED BY <1>1, <1>2, <1>3 DEF IInv

\* A task ends: it was pending, and is counted when it is collected.
LEMMA TaskInv ==
  ASSUME IInv, NEW c \in Call, Answer(c) \/ Fail(c) \/ EndCancelled(c)
  PROVE  IInv'
<1>1. PICK from \in {"running", "cancelling"}, to \in Finished \cup {"cancelled"} :
        /\ TaskEnds(c, from, to)
        /\ from = "running" => to \in Finished
        /\ from = "cancelling" => to = "cancelled"
  BY DEF Answer, Fail, EndCancelled, Finished
<1>2. /\ task[c] = from /\ task' = [task EXCEPT ![c] = to]
      /\ UNCHANGED <<pending, results, failures, cancelled, deadline, pc>>
  BY <1>1 DEF TaskEnds
<1>3. TypeOK'
  BY <1>2 DEF IInv, TypeOK, Finished
<1>4. c \notin results /\ c \notin failures
  BY <1>1, <1>2 DEF IInv, Counted
<1>5. \A d \in Call : task'[d] = IF d = c THEN to ELSE task[d]
  BY <1>2 DEF IInv, TypeOK
<1>6. Counted'
  <2>1. \A d \in pending : task[d] = "cancelled" => task'[d] = "cancelled"
    BY <1>1, <1>2, <1>5 DEF IInv, TypeOK
  <2>2. \A d \in pending : task[d] \in {"cancelling", "cancelled"}
                             => task'[d] \in {"cancelling", "cancelled"}
    BY <1>1, <1>2, <1>5 DEF IInv, TypeOK
  <2>3. \A d \in pending : task[d] \in Finished \cup {"running"}
                             => task'[d] \in Finished \cup {"running"}
    BY <1>1, <1>2, <1>5 DEF IInv, TypeOK, Finished
  <2> QED BY <1>2, <1>4, <1>5, <2>1, <2>2, <2>3 DEF IInv, TypeOK, Counted
<1>7. QuorumFirst'
  BY <1>2 DEF IInv, QuorumFirst, Families, Required
<1> QED BY <1>3, <1>6, <1>7 DEF IInv

\* Leaving the loop, with a deadline if anything is left.
LEMMA LeaveInv ==
  ASSUME IInv, pc = "wait", NEW left \in SUBSET pending, Leave(left),
         results' \in SUBSET Call, failures' \in SUBSET Call,
         deadline' \in {"none", "set", "passed"},
         \A c \in results' : task[c] = "answered",
         \A c \in failures' : task[c] = "failed",
         \A c \in left : task[c] \notin Finished,
         left \cup results' \cup failures' = Call,
         left # {} => deadline' # "none",
         deadline' # "none" => Cardinality(Families(results')) >= Required
  PROVE  IInv'
<1>1. \A c \in left : task'[c] = "cancelling"
  BY DEF Leave, IInv, TypeOK
<1>2. \A c \in Call \ left : task'[c] = task[c]
  BY DEF Leave
<1>3. left \in SUBSET Call
  BY DEF IInv, TypeOK
<1>4. task' \in [Call -> Finished \cup {"running", "cancelling", "cancelled"}]
  BY <1>3 DEF Leave, IInv, TypeOK
<1>5. left \cap results' = {} /\ left \cap failures' = {}
  BY DEF Finished
<1>6. TypeOK'
  BY <1>3, <1>4 DEF Leave, TypeOK, Over, Finished
<1>7. Counted'
  BY <1>1, <1>2, <1>5 DEF Leave, Counted
<1>8. QuorumFirst'
  BY DEF Leave, QuorumFirst, Families, Required
<1> QED BY <1>6, <1>7, <1>8 DEF IInv

LEMMA CollectInv == ASSUME IInv, Collect PROVE IInv'
<1> DEFINE answered == {c \in Ready : task[c] = "answered"}
           failed == {c \in Ready : task[c] = "failed"}
           left == pending \ Ready
<1>1. /\ pc = "wait" /\ results' = results \cup answered /\ failures' = failures \cup failed
      /\ deadline' \in NextDeadline(results')
  BY DEF Collect
<1>2. /\ Ready \subseteq pending /\ Ready = answered \cup failed
      /\ \A c \in left : task[c] \notin Finished
  BY DEF Ready, Finished
<1>3. /\ results \in SUBSET Call /\ results' \in SUBSET Call
      /\ failures' \in SUBSET Call /\ results \subseteq results'
  BY <1>1, <1>2 DEF IInv, TypeOK
<1>4. /\ \A c \in results' : task[c] = "answered"
      /\ \A c \in failures' : task[c] = "failed"
      /\ left \cup results' \cup failures' = Call
  BY <1>1, <1>2 DEF IInv, Counted
<1>5. /\ deadline' \in {"none", "set", "passed"}
      /\ deadline' # "none" => Cardinality(Families(results')) >= Required
  <2>1. /\ Cardinality(Families(results)) \in Nat /\ Cardinality(Families(results')) \in Nat
        /\ Cardinality(Families(results)) <= Cardinality(Families(results'))
    BY <1>3, FamiliesGrow
  <2>2. deadline # "none" => Cardinality(Families(results')) >= Required
    BY <2>1, RequiredType DEF IInv, QuorumFirst
  <2>3. deadline \in {"none", "set", "passed"}
    BY DEF IInv, TypeOK
  <2>4. CASE deadline = "set"
    BY <1>1, <2>2, <2>4 DEF NextDeadline
  <2>5. CASE deadline = "none"
    BY <1>1, <2>5 DEF NextDeadline
  <2>6. CASE deadline = "passed"
    BY <1>1, <2>2, <2>6 DEF NextDeadline
  <2> QED BY <2>3, <2>4, <2>5, <2>6
<1>6. CASE left = {} \/ deadline' = "passed"
  <2>1. Leave(left)
    BY <1>6 DEF Collect
  <2>2. left \in SUBSET pending
    OBVIOUS
  <2>3. left # {} => deadline' # "none"
    BY <1>6
  <2> HIDE DEF left
  <2> QED BY <1>1, <1>2, <1>3, <1>4, <1>5, <2>1, <2>2, <2>3, LeaveInv
<1>7. CASE ~(left = {} \/ deadline' = "passed")
  <2>1. pending' = left /\ left # {} /\ UNCHANGED <<task, cancelled, pc>>
    BY <1>7 DEF Collect
  <2>2. TypeOK'
    BY <1>1, <1>3, <1>5, <2>1 DEF IInv, TypeOK
  <2>3. Counted'
    BY <1>1, <1>4, <2>1 DEF IInv, Counted
  <2>4. QuorumFirst'
    <3>1. /\ cancelled' = {} /\ pc' = "wait"
      BY <1>1, <2>1 DEF IInv, Counted
    <3> QED BY <1>5, <3>1 DEF QuorumFirst, Families, Required
  <2> QED BY <2>2, <2>3, <2>4 DEF IInv
<1> QED BY <1>6, <1>7

LEMMA TimeOutInv == ASSUME IInv, TimeOut PROVE IInv'
<1>1. /\ pc = "wait" /\ Ready = {} /\ deadline = "passed" /\ Leave(pending)
      /\ results' = results /\ failures' = failures /\ deadline' = deadline
  BY DEF TimeOut
<1>2. /\ \A c \in pending : task[c] \notin Finished
      /\ pending \in SUBSET pending
  BY <1>1 DEF Ready
<1>3. /\ \A c \in results' : task[c] = "answered"
      /\ \A c \in failures' : task[c] = "failed"
      /\ pending \cup results' \cup failures' = Call
      /\ results' \in SUBSET Call /\ failures' \in SUBSET Call
      /\ deadline' \in {"none", "set", "passed"} /\ deadline' # "none"
      /\ Cardinality(Families(results')) >= Required
  BY <1>1 DEF IInv, TypeOK, Counted, QuorumFirst
<1> QED BY <1>1, <1>2, <1>3, LeaveInv

\* The rest of the coroutine, and the passing of the deadline.
LEMMA RestInv ==
  ASSUME IInv, Reap \/ Conclude \/ Abandon \/ DeadlinePasses \/ UNCHANGED vars
  PROVE  IInv'
<1>1. UNCHANGED <<task, pending, results, failures, cancelled>>
  BY DEF Reap, Conclude, Abandon, DeadlinePasses, vars
<1>2. TypeOK'
  BY DEF IInv, TypeOK, Reap, Conclude, Abandon, DeadlinePasses, vars, Over
<1>3. Counted'
  <2>1. CASE Reap
    BY <1>1, <2>1 DEF IInv, Counted, Reap
  <2>2. CASE Conclude
    BY <1>1, <2>2 DEF IInv, Counted, Conclude
  <2>3. CASE Abandon
    BY <1>1, <2>3 DEF IInv, Counted, Abandon
  <2>4. CASE DeadlinePasses \/ UNCHANGED vars
    BY <1>1, <2>4 DEF IInv, Counted, DeadlinePasses, vars
  <2> QED BY <2>1, <2>2, <2>3, <2>4
<1>4. QuorumFirst'
  <2>1. Families(results)' = Families(results) /\ Required' = Required
    BY <1>1 DEF Families, Required
  <2>2. CASE Conclude
    BY <1>1, <2>1, <2>2 DEF IInv, QuorumFirst, Conclude
  <2>3. CASE Reap \/ Abandon \/ DeadlinePasses \/ UNCHANGED vars
    BY <1>1, <2>1, <2>3 DEF IInv, QuorumFirst, Reap, Abandon, DeadlinePasses, vars
  <2> QED BY <2>2, <2>3
<1> QED BY <1>2, <1>3, <1>4 DEF IInv

LEMMA Invariance == Spec => []IInv
<1>1. IInv /\ [Next]_vars => IInv'
  BY TaskInv, CollectInv, TimeOutInv, RestInv DEF Next, CallNext, GatherNext
<1> QED BY <1>1, InitInv, PTL DEF Spec

\* The type invariant, for every set of calls; asyncio.wait is never given an
\* empty set (routing.py:461).
THEOREM TypeCorrect == Spec => []TypeOK
<1>1. IInv => TypeOK
  BY DEF IInv
<1> QED BY <1>1, Invariance, PTL

\* The answers, failures and cancellations returned account for every call,
\* by how its task ended (routing.py:470-486).
THEOREM AllAccounted == Spec => []Accounted
<1>1. IInv => Accounted
  BY DEF IInv, TypeOK, Counted, Accounted
<1> QED BY <1>1, Invariance, PTL

\* Nobody is cancelled before the quorum, and a round below quorum has waited
\* for everybody (routing.py:476-480, protocols.py:1420-1424).
THEOREM QuorumBeforeCancel == Spec => []CancelledAfterQuorum
<1>1. ASSUME IInv PROVE CancelledAfterQuorum
  <2>1. cancelled # {} => Cardinality(Families(results)) >= Required
    BY <1>1 DEF IInv, QuorumFirst
  <2>2. ASSUME pc = "below" PROVE cancelled = {}
    <3>1. Cardinality(Call) >= 2 /\ Cardinality(Families(results)) < 2
      BY <1>1, <2>2 DEF IInv, QuorumFirst
    <3>2. Cardinality(Families(results)) \in Nat /\ Cardinality(Call) \in Nat
      BY <1>1, FamiliesGrow, CallAssumption, FS_CardinalityType DEF IInv, TypeOK
    <3>3. Required = 2
      BY <3>1, <3>2 DEF Required, Fewer
    <3> QED BY <2>1, <3>1, <3>2, <3>3
  <2> QED BY <2>1, <2>2 DEF CancelledAfterQuorum
<1> QED BY <1>1, Invariance, PTL
=============================================================================
