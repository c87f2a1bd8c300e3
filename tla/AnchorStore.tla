---------------------------- MODULE AnchorStore ----------------------------
(***************************************************************************)
(* The calibration anchors (AnchorStore, v4_state.py:86-176): the state    *)
(* store anchors.json, whose commands import a file of anchors or retire   *)
(* one of them.  Each command is a locked_write; what this module adds to  *)
(* StateStore is what their mutators do.  Imports of one file twice, of    *)
(* files that disagree, and a retirement between them, happen in any order *)
(* and from several processes.                                             *)
(***************************************************************************)
EXTENDS StateStore

CONSTANTS
  Importer,  \* `anchors import` commands
  Retirer,   \* `anchors retire` commands
  Anchor,    \* anchor ids
  Text,      \* what an anchor says: its task and the answer expected
  Imports,   \* import command -> the anchors of its file
  Retires    \* retire command -> the id it is given

\* A digest covers the whole body, `active` included.
Digest(text, active) == <<text, active>>

Signed(text, active) ==
  [text |-> text, active |-> active, sha256 |-> Digest(text, active)]

Row == [text : Text, active : BOOLEAN, sha256 : Text \X BOOLEAN]

AnchorCommand == Importer \cup Retirer
AnchorContent == UNION {[S -> Row] : S \in SUBSET Anchor}
NoAnchors == [a \in {} |-> a]

\* The mutator of import_file: all anchors of the file, or none if one of them
\* is known with another digest.
Merge(rows, incoming) ==
  IF \E a \in DOMAIN rows \cap DOMAIN incoming : rows[a].sha256 # incoming[a].sha256
  THEN Raised
  ELSE [a \in DOMAIN rows \cup DOMAIN incoming |->
          IF a \in DOMAIN incoming THEN incoming[a] ELSE rows[a]]

\* Bug: a retired anchor keeps the digest it was imported with.
RetireKeepsDigest(rows, id) ==
  IF id \in DOMAIN rows THEN [rows EXCEPT ![id] = [@ EXCEPT !.active = FALSE]]
  ELSE Raised

\* The mutator of retire.
Retire(rows, id) ==
  IF id \in DOMAIN rows THEN [rows EXCEPT ![id] = Signed(@.text, FALSE)]
  ELSE Raised

AnchorEffect ==
  [p \in AnchorCommand |-> [rows \in AnchorContent |->
     IF p \in Importer THEN Merge(rows, Imports[p]) ELSE Retire(rows, Retires[p])]]

\* A file of anchors is refused unless its digests are right (parse_jsonl).
ASSUME AnchorAssumption ==
  /\ Importer \cap Retirer = {}
  /\ Retires \in [Retirer -> Anchor]
  /\ \A p \in Importer :
       /\ Imports[p] \in AnchorContent
       /\ \A a \in DOMAIN Imports[p] :
            Imports[p][a] = Signed(Imports[p][a].text, Imports[p][a].active)
  /\ Updater = AnchorCommand
  /\ Content = AnchorContent
  /\ Default = NoAnchors
  /\ Effect = AnchorEffect

-----------------------------------------------------------------------------
\* An anchor, once known, is never lost and never says something else, and once
\* retired it never counts again: importing its file once more is refused, by
\* whichever process and in whichever order (v4_state.py:126-171).
RetiredStaysRetired ==
  [][\A a \in DOMAIN Present(file) :
       /\ a \in DOMAIN Present(file')
       /\ Present(file')[a].text = Present(file)[a].text
       /\ Present(file')[a].active => Present(file)[a].active]_vars
=============================================================================
