----------------------------- MODULE MCCouncil -----------------------------
(* TLC instance of Council: one load-bearing claim that can be tested and has *)
(* evidence, and one criterion, which it covers.                             *)
EXTENDS Council, TLC

CONSTANTS c, x, y, fa, fb

Plain == [kind |-> "objective_answer", redTeam |-> FALSE, high |-> FALSE,
          calibrated |-> FALSE, learned |-> None, commands |-> 0]

MCRequest ==
  {[Plain EXCEPT !.commands = 1],
   [Plain EXCEPT !.kind = "safety_gate", !.high = TRUE],
   [Plain EXCEPT !.kind = "subjective_tradeoff", !.learned = "verify"],
   [Plain EXCEPT !.kind = "evidence_synthesis", !.calibrated = TRUE],
   [Plain EXCEPT !.redTeam = TRUE]}

\* A risky request with one command.
RiskyRequest == {[Plain EXCEPT !.high = TRUE, !.commands = 1]}

Alike == Permutations({x, y}) \cup Permutations({fa, fb})

MCCriteria == 1 :> {c}
=============================================================================
