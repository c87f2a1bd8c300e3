-------------------------- MODULE MCImplementation --------------------------
(* TLC instance of ImplementationPass: two candidates of two families, and   *)
(* one validator family that is neither the judge's nor an author's.         *)
EXTENDS ImplementationPass, TLC

CONSTANTS a, b, fa, fb

\* A risky change with a regression test, a refactoring, and documentation
\* without tests, asked for as such or not.
MCRequest ==
  {[commands |-> TRUE,  mode |-> "regression", docs |-> FALSE, high |-> TRUE],
   [commands |-> TRUE,  mode |-> "invariant",  docs |-> FALSE, high |-> FALSE],
   [commands |-> FALSE, mode |-> "docs",       docs |-> TRUE,  high |-> FALSE],
   [commands |-> FALSE, mode |-> "docs",       docs |-> FALSE, high |-> FALSE]}

MCFamilyOf == a :> fa @@ b :> fb
=============================================================================
