------------------------------ MODULE MCQuorum ------------------------------
(* TLC instance of Quorum: four calls to three families.                     *)
EXTENDS QuorumRound, TLC

CONSTANTS a, b, c, d

MCFamilyOf == a :> "x" @@ b :> "x" @@ c :> "y" @@ d :> "z"
=============================================================================
