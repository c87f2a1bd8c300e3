----------------------- MODULE TaintPropagationProofs -----------------------
(***************************************************************************)
(* Proofs about propagate_taint for every id set, edge list and initial    *)
(* set.  The argument: what the loop adds is always reachable (it lies in  *)
(* every closed superset of the initial ids), and when it stops the set is *)
(* itself a closed superset, so it is the least one.                       *)
(***************************************************************************)
EXTENDS TaintPropagation, TLAPS

\* The least closed set holds the target of an edge whose source it holds.
LEMMA TaintedClosed ==
  ASSUME NEW E, NEW I, NEW e \in E, e[1] \in Tainted(E, I)
  PROVE  e[2] \in Tainted(E, I)
BY DEF Tainted, Closed, Ids

\* The least closed set holds the initial ids and lies in any closed superset.
LEMMA TaintedLeast ==
  ASSUME NEW E, NEW I
  PROVE  /\ I \subseteq Tainted(E, I)
         /\ \A S \in SUBSET Ids(E, I) :
              I \subseteq S /\ Closed(E, S) => Tainted(E, I) \subseteq S
BY DEF Tainted, Closed, Ids

\* The initial states are well typed.
LEMMA InitTypes == Init => TypeOK
<1> SUFFICES ASSUME Init PROVE TypeOK
  OBVIOUS
<1>1. PICK n \in 0..MaxEdges : edges \in [1..n -> Id \X Id]
  BY DEF Init
<1>2. n \in Nat
  BY <1>1, MaxEdgesAssumption
<1>3. edges \in Seq(Id \X Id) /\ Len(edges) \in Nat
  BY <1>1, <1>2
<1>4. /\ initial \in SUBSET Id /\ flagged \in SUBSET Node /\ tainted = initial
      /\ transitions = <<>> /\ changed = FALSE /\ next = 1 /\ pc = "scan"
  BY DEF Init
<1>5. transitions \in Seq(Id \X Id)
  BY <1>4
<1>6. next \in 1..(Len(edges) + 1)
  BY <1>3, <1>4
<1> QED BY <1>3, <1>4, <1>5, <1>6 DEF TypeOK

\* Visiting an edge keeps the types.
LEMMA VisitTypes ==
  ASSUME TypeOK, VisitEdge
  PROVE  /\ TypeOK'
         /\ next \in 1..Len(edges)
         /\ edges[next] \in Id \X Id
<1>1. /\ Len(edges) \in Nat
      /\ next \in 1..Len(edges)
      /\ edges[next] \in Id \X Id
  BY DEF TypeOK, VisitEdge
<1>2. edges[next][2] \in Id
  BY <1>1
<1>3. CASE Spreads(edges[next])
  <2>1. tainted' \in SUBSET Id /\ changed' = TRUE
    BY <1>2, <1>3 DEF TypeOK, VisitEdge
  <2>2. transitions' = Append(transitions, edges[next])
    BY <1>3 DEF VisitEdge
  <2>3. transitions \in Seq(Id \X Id)
    BY DEF TypeOK
  <2>4. transitions' \in Seq(Id \X Id)
    BY <1>1, <2>2, <2>3
  <2> QED BY <1>1, <2>1, <2>4 DEF TypeOK, VisitEdge
<1>4. CASE ~Spreads(edges[next])
  BY <1>1, <1>4 DEF TypeOK, VisitEdge
<1> QED BY <1>1, <1>3, <1>4

\* So does starting another pass.
LEMMA NextPassTypes ==
  ASSUME TypeOK, NextPass
  PROVE  TypeOK'
<1>1. edges \in Seq(Id \X Id)
  BY DEF TypeOK
<1>2. Len(edges) \in Nat
  BY <1>1
<1>3. UNCHANGED <<edges, initial, flagged, tainted, transitions, pc>>
  BY DEF NextPass
<1>4. next' \in 1..(Len(edges) + 1) /\ changed' = FALSE
  BY <1>2 DEF NextPass
<1> QED BY <1>3, <1>4 DEF TypeOK

\* So does returning: the flags left are those of nodes.
LEMMA ReturnTypes ==
  ASSUME TypeOK, Return
  PROVE  TypeOK'
<1>1. flagged' \in SUBSET Node
  BY DEF Return
<1>2. UNCHANGED <<edges, initial, tainted, transitions, changed, next>> /\ pc' = "done"
  BY DEF Return
<1> QED BY <1>1, <1>2 DEF TypeOK

\* The locals of the loop keep their types (v4.py:526-542).
THEOREM TypeCorrect == Spec => []TypeOK
<1>1. Init => TypeOK
  BY InitTypes
<1>2. TypeOK /\ [Next]_vars => TypeOK'
  <2> SUFFICES ASSUME TypeOK, [Next]_vars PROVE TypeOK'
    OBVIOUS
  <2>1. CASE VisitEdge
    BY <2>1, VisitTypes
  <2>2. CASE NextPass
    BY <2>2, NextPassTypes
  <2>3. CASE Return
    BY <2>3, ReturnTypes
  <2>4. CASE UNCHANGED vars
    BY <2>4 DEF TypeOK, vars
  <2> QED BY <2>1, <2>2, <2>3, <2>4 DEF Next
<1> QED BY <1>1, <1>2, PTL DEF Spec

\* The inductive invariant holds of every state of the loop.
THEOREM Inductive == Spec => []IInv
<1>1. Init => IInv
  <2> SUFFICES ASSUME Init PROVE IInv
    OBVIOUS
  <2>1. TypeOK
    BY InitTypes
  <2>2. initial \subseteq Tainted(EdgeSet, initial)
    BY TaintedLeast
  <2> QED BY <2>1, <2>2 DEF Init, IInv, PassSoFarClosed
<1>2. IInv /\ [Next]_vars => IInv'
  <2> SUFFICES ASSUME IInv, [Next]_vars PROVE IInv'
    OBVIOUS
  <2> USE DEF IInv
  <2>1. CASE VisitEdge
    <3>1. /\ edges[next] \in Id \X Id
          /\ next \in 1..Len(edges)
          /\ edges[next] \in EdgeSet
      BY <2>1, VisitTypes DEF EdgeSet
    <3>2. TypeOK'
      BY <2>1, VisitTypes
    <3>3. EdgeSet' = EdgeSet /\ initial' = initial
      BY <2>1 DEF VisitEdge, EdgeSet
    <3>4. tainted' \subseteq Tainted(EdgeSet, initial)
      <4>1. CASE Spreads(edges[next])
        <5>1. edges[next][2] \in Tainted(EdgeSet, initial)
          BY <3>1, <4>1, TaintedClosed DEF Spreads
        <5> QED BY <2>1, <4>1, <5>1 DEF VisitEdge
      <4>2. CASE ~Spreads(edges[next])
        BY <2>1, <4>2 DEF VisitEdge
      <4> QED BY <4>1, <4>2
    <3>5. PassSoFarClosed'
      <4>1. CASE Spreads(edges[next])
        BY <2>1, <4>1 DEF VisitEdge, PassSoFarClosed
      <4>2. CASE ~Spreads(edges[next])
        <5>1. UNCHANGED <<edges, tainted, changed>> /\ next' = next + 1
          BY <2>1, <4>2 DEF VisitEdge
        <5>2. edges[next][1] \in tainted => edges[next][2] \in tainted
          BY <4>2 DEF Spreads
        <5>3. \A k \in 1..next : k \in 1..(next - 1) \/ k = next
          BY DEF TypeOK
        <5> QED BY <3>1, <5>1, <5>2, <5>3 DEF PassSoFarClosed, TypeOK
      <4> QED BY <4>1, <4>2
    <3>6. pc' = "scan" /\ initial' \subseteq tainted'
      BY <2>1 DEF VisitEdge
    <3> QED BY <3>2, <3>3, <3>4, <3>5, <3>6
  <2>2. CASE NextPass
    <3>1. TypeOK'
      BY <2>2, NextPassTypes
    <3>2. PassSoFarClosed'
      BY <2>2 DEF NextPass, PassSoFarClosed
    <3> QED BY <2>2, <3>1, <3>2 DEF NextPass, EdgeSet
  <2>3. CASE Return
    <3>1. TypeOK'
      BY <2>3, ReturnTypes
    <3>2. PassSoFarClosed'
      BY <2>3 DEF Return, PassSoFarClosed
    <3> QED BY <2>3, <3>1, <3>2 DEF Return, EdgeSet
  <2>4. CASE UNCHANGED vars
    BY <2>4 DEF TypeOK, vars, EdgeSet, PassSoFarClosed
  <2> QED BY <2>1, <2>2, <2>3, <2>4 DEF Next
<1> QED BY <1>1, <1>2, PTL DEF Spec

\* propagate_taint returns exactly the ids the genealogy carries taint to.
THEOREM Correct == Spec => []ResultIsClosure
<1>1. IInv => ResultIsClosure
  <2> SUFFICES ASSUME IInv, pc = "done"
               PROVE  tainted = Tainted(EdgeSet, initial) /\ flagged = tainted \cap Node
    BY DEF ResultIsClosure
  <2>1. Closed(EdgeSet, tainted)
    <3>1. \A k \in 1..Len(edges) : k \in 1..(next - 1)
      BY DEF IInv, TypeOK
    <3> QED BY <3>1 DEF IInv, PassSoFarClosed, Closed, EdgeSet
  <2>2. tainted \in SUBSET Ids(EdgeSet, initial)
    BY DEF IInv, Tainted
  <2>3. Tainted(EdgeSet, initial) \subseteq tainted
    BY <2>1, <2>2, TaintedLeast DEF IInv
  <2> QED BY <2>3 DEF IInv
<1> QED BY <1>1, Inductive, PTL

-----------------------------------------------------------------------------
\* The transitions explain the tainted set at every moment of the loop: each
\* starts at an initial id or at the target of an earlier one.
THEOREM Explained == Spec => []TransitionsExplain
<1>1. Init => TransitionsExplain
  BY DEF Init, TransitionsExplain
<1>2. TypeOK /\ TransitionsExplain /\ [Next]_vars => TransitionsExplain'
  <2> SUFFICES ASSUME TypeOK, TransitionsExplain, [Next]_vars
               PROVE  TransitionsExplain'
    OBVIOUS
  <2>1. CASE VisitEdge /\ Spreads(edges[next])
    <3> DEFINE n == Len(transitions)
               t == Append(transitions, edges[next])
    <3>1. /\ n \in Nat
          /\ transitions' = t
          /\ tainted' = tainted \cup {edges[next][2]}
          /\ initial' = initial
          /\ edges[next] \in Id \X Id
      BY <2>1 DEF VisitEdge, TypeOK
    <3>2. /\ Len(t) = n + 1
          /\ t[n + 1] = edges[next]
          /\ \A k \in 1..n : t[k] = transitions[k]
      BY <3>1 DEF TypeOK
    <3>3. \A k \in 1..(n + 1) : k \in 1..n \/ k = n + 1
      BY <3>1
    <3>4. edges[next][1] \in tainted /\ edges[next][2] \notin tainted
      BY <2>1 DEF Spreads
    <3>5. \A k \in 1..n : transitions[k][2] # edges[next][2]
      BY <3>4 DEF TransitionsExplain
    <3> HIDE DEF n, t
    <3>6. ASSUME NEW k \in 1..(n + 1)
          PROVE  t[k][1] \in initial \/ \E j \in 1..(k - 1) : t[j][2] = t[k][1]
      <4>1. CASE k \in 1..n
        <5>1. t[k] = transitions[k] /\ \A j \in 1..(k - 1) : t[j] = transitions[j]
          BY <3>1, <3>2, <4>1
        <5> QED BY <4>1, <5>1 DEF TransitionsExplain, n
      <4>2. CASE k = n + 1
        <5>1. t[k] = edges[next] /\ k - 1 = n
          BY <3>1, <3>2, <4>2
        <5> QED BY <3>2, <3>4, <5>1 DEF TransitionsExplain, n
      <4> QED BY <3>3, <4>1, <4>2
    <3>7. tainted \cup {edges[next][2]} = initial \cup {t[k][2] : k \in 1..(n + 1)}
      BY <3>1, <3>2, <3>3, SMTT(60) DEF TransitionsExplain, n
    <3>8. \A j, k \in 1..(n + 1) : t[j][2] = t[k][2] => j = k
      BY <3>2, <3>3, <3>5 DEF TransitionsExplain, n
    <3> QED BY <3>1, <3>2, <3>6, <3>7, <3>8 DEF TransitionsExplain
  <2>2. CASE VisitEdge /\ ~Spreads(edges[next])
    BY <2>2 DEF VisitEdge, TransitionsExplain
  <2>3. CASE NextPass
    BY <2>3 DEF NextPass, TransitionsExplain
  <2>4. CASE Return
    BY <2>4 DEF Return, TransitionsExplain
  <2>5. CASE UNCHANGED vars
    BY <2>5 DEF vars, TransitionsExplain
  <2> QED BY <2>1, <2>2, <2>3, <2>4, <2>5 DEF Next
<1> QED BY <1>1, <1>2, TypeCorrect, PTL DEF Spec
=============================================================================
