---------------------------- MODULE AtomicStore ----------------------------
(***************************************************************************)
(* What a state store promises: each command takes effect at one moment,   *)
(* on the content of that moment, at most once; or it fails and has no     *)
(* effect.                                                                 *)
(***************************************************************************)
EXTENDS StoreCommands

VARIABLES content, status

avars == <<content, status>>

AInit ==
  /\ content = Absent
  /\ status = [p \in Process |-> "open"]

TakeEffect(p) ==
  /\ status[p] = "open"
  /\ status' = [status EXCEPT ![p] = "applied"]
  /\ After(p, content) # Raised
  /\ content' = After(p, content)

Fail(p) ==
  /\ status[p] = "open"
  /\ status' = [status EXCEPT ![p] = "failed"]
  /\ UNCHANGED content

ANext == \E p \in Process : TakeEffect(p) \/ Fail(p)

ASpec == AInit /\ [][ANext]_avars
=============================================================================
