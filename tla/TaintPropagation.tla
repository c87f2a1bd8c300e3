-------------------------- MODULE TaintPropagation --------------------------
(***************************************************************************)
(* propagate_taint (v4.py:526-542): passes over graph.edges in list order, *)
(* adding the target of every edge whose source is tainted and recording   *)
(* why; the passes stop when one adds nothing.  Then every node's flag is  *)
(* OVERWRITTEN with the result.  One step per edge visited.                *)
(*                                                                         *)
(* persist_manifest calls it with the flagged nodes, outcome_command with  *)
(* the ids an outcome invalidates: any set of ids, and any earlier flags.  *)
(* Names of the model: Node are the ids the graph has a node for; edges    *)
(* and outcomes may name others (an evidence ref outside the inventory).   *)
(***************************************************************************)
EXTENDS Naturals, Sequences, Genealogy

CONSTANTS Id,          \* identifiers an edge or an outcome may name
          Node,        \* ids of graph.nodes
          MaxEdges     \* bound on the length of graph.edges

ASSUME NodeAssumption == Node \subseteq Id
ASSUME MaxEdgesAssumption == MaxEdges \in Nat

VARIABLES
  edges,        \* graph.edges, each <<source, target>>
  initial,      \* initially_tainted
  flagged,      \* ids of the nodes whose .tainted flag is set
  tainted,      \* the local set
  transitions,  \* the local list: the edges that added an id
  changed,      \* the local flag
  next,         \* index of the edge the inner loop visits next
  pc            \* "scan" inside the loops, "done" after the return

vars == <<edges, initial, flagged, tainted, transitions, changed, next, pc>>

EdgeSet == {edges[k] : k \in 1..Len(edges)}

Init ==
  /\ edges \in UNION {[1..n -> Id \X Id] : n \in 0..MaxEdges}
  /\ initial \in SUBSET Id
  /\ flagged \in SUBSET Node
  /\ tainted = initial
  /\ transitions = <<>>
  /\ changed = FALSE
  /\ next = 1
  /\ pc = "scan"

\* The edge carries taint to an id that does not have it yet.
Spreads(e) == e[1] \in tainted /\ e[2] \notin tainted

\* Bug: a transition for every visited edge, not only for those that spread.
VisitUnexplained ==
  /\ pc = "scan" /\ next <= Len(edges)
  /\ next' = next + 1
  /\ tainted' = IF edges[next][1] \in tainted THEN tainted \cup {edges[next][2]}
                ELSE tainted
  /\ changed' = (tainted' # tainted)
  /\ transitions' = Append(transitions, edges[next])
  /\ UNCHANGED <<edges, initial, flagged, pc>>

\* The body of `for edge in graph.edges`.
VisitEdge ==
  /\ pc = "scan"
  /\ next <= Len(edges)
  /\ next' = next + 1
  /\ IF Spreads(edges[next])
     THEN /\ tainted' = tainted \cup {edges[next][2]}
          /\ transitions' = Append(transitions, edges[next])
          /\ changed' = TRUE
     ELSE UNCHANGED <<tainted, transitions, changed>>
  /\ UNCHANGED <<edges, initial, flagged, pc>>

\* Bug: `changed = False` forgotten at the start of a pass.
NextPassKeepsChanged ==
  /\ pc = "scan" /\ next > Len(edges) /\ changed
  /\ next' = 1
  /\ UNCHANGED <<edges, initial, flagged, tainted, transitions, changed, pc>>

\* `while changed`: another pass after one that added something.
NextPass ==
  /\ pc = "scan"
  /\ next > Len(edges)
  /\ changed
  /\ changed' = FALSE
  /\ next' = 1
  /\ UNCHANGED <<edges, initial, flagged, tainted, transitions, pc>>

\* Bug: one pass only, whatever it added.
ReturnAfterOnePass ==
  /\ pc = "scan" /\ next > Len(edges)
  /\ flagged' = tainted \cap Node
  /\ pc' = "done"
  /\ UNCHANGED <<edges, initial, tainted, transitions, changed, next>>

\* Bug: flags are set for ids that are not nodes of the graph.
ReturnFlagsAll ==
  /\ pc = "scan" /\ next > Len(edges) /\ ~changed
  /\ flagged' = tainted
  /\ pc' = "done"
  /\ UNCHANGED <<edges, initial, tainted, transitions, changed, next>>

\* The last pass added nothing: overwrite the nodes' flags and return.
Return ==
  /\ pc = "scan"
  /\ next > Len(edges)
  /\ ~changed
  /\ flagged' = tainted \cap Node
  /\ pc' = "done"
  /\ UNCHANGED <<edges, initial, tainted, transitions, changed, next>>

Next == VisitEdge \/ NextPass \/ Return

\* The loop is plain sequential code: it keeps running.
Spec == Init /\ [][Next]_vars /\ WF_vars(Next)

-----------------------------------------------------------------------------
\* Types of the locals of propagate_taint (v4.py:526-542).
TypeOK ==
  /\ edges \in Seq(Id \X Id)
  /\ initial \in SUBSET Id
  /\ flagged \in SUBSET Node
  /\ tainted \in SUBSET Id
  /\ transitions \in Seq(Id \X Id)
  /\ changed \in BOOLEAN
  /\ next \in 1..(Len(edges) + 1)
  /\ pc \in {"scan", "done"}

\* The returned set is the promise of Genealogy: every id reachable from an
\* initial one and no other, whatever the order of the edge list (claims are
\* listed after the verifications they feed) and whatever cycles it holds; and
\* the flags left in the graph say the same, earlier flags being cleared.
ResultIsClosure ==
  pc = "done" => /\ tainted = Tainted(EdgeSet, initial)
                 /\ flagged = tainted \cap Node

\* TaintState.transitions explains the result: the source of each transition is
\* initial or the target of an EARLIER transition, every tainted id is initial
\* or a target, and no id is explained twice (v4.py:533-538).
TransitionsExplain ==
  /\ \A k \in 1..Len(transitions) :
       \/ transitions[k][1] \in initial
       \/ \E j \in 1..(k - 1) : transitions[j][2] = transitions[k][1]
  /\ tainted = initial \cup {transitions[k][2] : k \in 1..Len(transitions)}
  /\ \A j, k \in 1..Len(transitions) :
       transitions[j][2] = transitions[k][2] => j = k

\* The loop ends: a cycle in the genealogy cannot keep `changed` true for ever
\* (v4.py:529-538).
Terminates == <>(pc = "done")

-----------------------------------------------------------------------------
\* The inductive invariant behind ResultIsClosure: only reachable ids are
\* added, and a pass that has added nothing so far has found every edge it
\* visited closed.
PassSoFarClosed ==
  ~changed => \A k \in 1..(next - 1) :
                edges[k][1] \in tainted => edges[k][2] \in tainted

IInv ==
  /\ TypeOK
  /\ initial \subseteq tainted
  /\ tainted \subseteq Tainted(EdgeSet, initial)
  /\ PassSoFarClosed
  /\ pc = "done" => next > Len(edges) /\ ~changed /\ flagged = tainted \cap Node
=============================================================================
