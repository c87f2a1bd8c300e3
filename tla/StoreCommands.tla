--------------------------- MODULE StoreCommands ---------------------------
(***************************************************************************)
(* The commands on a state store (v4_state.py:14-83) and what each of them *)
(* does to its content: a store of any kind, its mutators given as Effect. *)
(***************************************************************************)
CONSTANTS
  Updater,      \* commands that change what is there    (locked_write)
  Initializer,  \* commands that create what is missing  (initialize)
  Content,      \* what the JSON file can hold
  Default,      \* what a store that is not there reads as
  Effect,       \* updater -> content -> new content, or Raised
  Absent,       \* no file
  Raised        \* the mutator raised

Process == Updater \cup Initializer

ASSUME CommandAssumption ==
  /\ Updater \cap Initializer = {}
  /\ Default \in Content
  /\ \A c \in Content : c # Absent /\ c # Raised
  /\ Effect \in [Updater -> [Content -> Content \cup {Raised}]]

Present(c) == IF c = Absent THEN Default ELSE c

\* What a command makes of the content.
After(p, c) == IF p \in Updater THEN Effect[p][Present(c)] ELSE Present(c)
=============================================================================
