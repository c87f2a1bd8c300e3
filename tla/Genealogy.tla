----------------------------- MODULE Genealogy -----------------------------
(***************************************************************************)
(* The claim genealogy of a run, reduced to what taint needs: directed     *)
(* edges between identifiers (sources, claims, verifications,              *)
(* contributions, the verdict).  Tainted(E, I) is the abstract promise of  *)
(* propagate_taint (v4.py): the least set that holds the ids in I and is   *)
(* closed under the edges E.  It is stated without recursion, as the       *)
(* intersection of all closed supersets, so that proofs can use it.        *)
(***************************************************************************)

\* The ids that edges or the initial ids mention: a finite universe.
Ids(E, I) == I \cup {e[1] : e \in E} \cup {e[2] : e \in E}

Closed(E, S) == \A e \in E : e[1] \in S => e[2] \in S

Tainted(E, I) ==
  {n \in Ids(E, I) :
     \A S \in SUBSET Ids(E, I) : I \subseteq S /\ Closed(E, S) => n \in S}
=============================================================================
