----------------------------- MODULE StateStore -----------------------------
(***************************************************************************)
(* A learning or anchor store as processes really use it: PrivateJsonStore *)
(* (v4_state.py:14-83) over flock_exclusive (state_compat.py:47-75).  The  *)
(* same steps, written out again, are ReliabilityStore.update              *)
(* (reliability.py) and, but for a failed write, CoFailureStore.record:    *)
(* that one does not take its temporary file away (v4.py:211-220).  One    *)
(* JSON file, one lock file beside it, any number of processes; each step  *)
(* is a system call and may fail, and a process may be killed between any  *)
(* two: the kernel then drops its flock, its temporary file stays.         *)
(***************************************************************************)
EXTENDS StoreCommands

CONSTANTS
  Free,  \* nobody holds the lock
  Tidy   \* does a failed update take its temporary file away?

VARIABLES
  file,   \* the JSON file: Absent, or its content
  lock,   \* holder of <file>.lock
  pc,     \* process -> where it is
  mem,    \* process -> the data it read, then the data it will publish
  temp,   \* process -> its temporary file exists
  took    \* history: process -> its data was published

vars == <<file, lock, pc, mem, temp, took>>

ASSUME FreeAssumption == Free \notin Process
ASSUME TidyAssumption == Tidy \in BOOLEAN

Init ==
  /\ file = Absent
  /\ lock = Free
  /\ pc = [p \in Process |-> "start"]
  /\ mem = [p \in Process |-> Default]
  /\ temp = [p \in Process |-> FALSE]
  /\ took = [p \in Process |-> FALSE]

\* flock_exclusive: poll the lock ...
Lock(p) ==
  /\ pc[p] = "start"
  /\ lock = Free
  /\ lock' = p
  /\ pc' = [pc EXCEPT ![p] = "locked"]
  /\ UNCHANGED <<file, mem, temp, took>>

\* ... for at most 10 s.
TimeOut(p) ==
  /\ pc[p] = "start"
  /\ lock # Free
  /\ pc' = [pc EXCEPT ![p] = "failed"]
  /\ UNCHANGED <<file, lock, mem, temp, took>>

\* locked_write reads the file, or copies the default.
Read(p) ==
  /\ pc[p] = "locked" /\ p \in Updater
  /\ mem' = [mem EXCEPT ![p] = Present(file)]
  /\ pc' = [pc EXCEPT ![p] = "read"]
  /\ UNCHANGED <<file, lock, temp, took>>

\* The data to publish: of an update, what its mutator returns.
Compute(p) ==
  /\ \/ p \in Updater /\ pc[p] = "read" /\ Effect[p][mem[p]] # Raised
     \/ p \in Initializer /\ pc[p] = "locked"
  /\ mem' = [mem EXCEPT ![p] = IF p \in Updater THEN Effect[p][@] ELSE Default]
  /\ pc' = [pc EXCEPT ![p] = "ready"]
  /\ UNCHANGED <<file, lock, temp, took>>

\* Bug: the lock is kept when the mutator raises.
RaiseKeepsLock(p) ==
  /\ pc[p] = "read" /\ Effect[p][mem[p]] = Raised
  /\ pc' = [pc EXCEPT ![p] = "failed"]
  /\ UNCHANGED <<file, lock, mem, temp, took>>

\* The mutator raises.
Raise(p) ==
  /\ pc[p] = "read" /\ Effect[p][mem[p]] = Raised
  /\ lock' = Free
  /\ pc' = [pc EXCEPT ![p] = "failed"]
  /\ UNCHANGED <<file, mem, temp, took>>

\* _write_temp: the new content under another name, ...
CreateTemp(p) ==
  /\ pc[p] = "ready"
  /\ temp' = [temp EXCEPT ![p] = TRUE]
  /\ pc' = [pc EXCEPT ![p] = "writing"]
  /\ UNCHANGED <<file, lock, mem, took>>

\* ... complete and synced.
WriteTemp(p) ==
  /\ pc[p] = "writing"
  /\ pc' = [pc EXCEPT ![p] = "written"]
  /\ UNCHANGED <<file, lock, mem, temp, took>>

\* It cannot be created, written, synced, renamed or linked: the handlers unlink
\* it and unlock.  (One killed in a handler is one killed before it: Crash.)
WriteFails(p) ==
  /\ pc[p] \in {"ready", "writing", "written"}
  /\ temp' = [temp EXCEPT ![p] = @ /\ p \in Updater /\ ~Tidy]
  /\ lock' = Free
  /\ pc' = [pc EXCEPT ![p] = "failed"]
  /\ UNCHANGED <<file, mem, took>>

\* Bug: initialize() replaces a file that is there.
PublishAlwaysReplaces(p) ==
  /\ pc[p] = "written"
  /\ file' = mem[p]
  /\ took' = [took EXCEPT ![p] = TRUE]
  /\ pc' = [pc EXCEPT ![p] = "published"]
  /\ UNCHANGED <<lock, mem, temp>>

\* os.replace; for initialize os.link, which leaves a file that exists alone.
Publish(p) ==
  /\ pc[p] = "written"
  /\ file' = IF p \in Initializer /\ file # Absent THEN file ELSE mem[p]
  /\ temp' = [temp EXCEPT ![p] = (p \in Initializer)]
  /\ took' = [took EXCEPT ![p] = TRUE]
  /\ pc' = [pc EXCEPT ![p] = "published"]
  /\ UNCHANGED <<lock, mem>>

\* `finally`: unlink the temporary file if it is left, then unlock.  The chmod
\* before it may raise: the command fails, though its data are published.
Release(p) ==
  /\ pc[p] = "published"
  /\ temp' = [temp EXCEPT ![p] = FALSE]
  /\ lock' = Free
  /\ \E end \in {"done", "failed"} : pc' = [pc EXCEPT ![p] = end]
  /\ UNCHANGED <<file, mem, took>>

Over(p) == pc[p] \in {"done", "failed", "crashed"}

\* Bug: the lock of a dead process stays (a lock file instead of flock).
CrashKeepsLock(p) ==
  /\ ~Over(p)
  /\ pc' = [pc EXCEPT ![p] = "crashed"]
  /\ UNCHANGED <<file, lock, mem, temp, took>>

Crash(p) ==
  /\ ~Over(p)
  /\ pc' = [pc EXCEPT ![p] = "crashed"]
  /\ lock' = IF lock = p THEN Free ELSE lock
  /\ UNCHANGED <<file, mem, temp, took>>

Step(p) == \/ Lock(p) \/ TimeOut(p) \/ Read(p) \/ Compute(p) \/ Raise(p)
           \/ CreateTemp(p) \/ WriteTemp(p) \/ WriteFails(p)
           \/ Publish(p) \/ Release(p)

Next == \E p \in Process : Step(p) \/ Crash(p)

\* A process that is not killed goes on.
Spec == Init /\ [][Next]_vars /\ \A p \in Process : WF_vars(Step(p))

-----------------------------------------------------------------------------
Holding == {"locked", "read", "ready", "writing", "written", "published"}

\* Types, and that a process holds the lock exactly from Lock to its release.
TypeOK ==
  /\ file \in Content \cup {Absent}
  /\ lock \in Process \cup {Free}
  /\ pc \in [Process -> Holding \cup {"start", "done", "failed", "crashed"}]
  /\ mem \in [Process -> Content]
  /\ temp \in [Process -> BOOLEAN]
  /\ took \in [Process -> BOOLEAN]
  /\ \A p \in Process : lock = p <=> pc[p] \in Holding

\* What a command has achieved, for the abstract store.
Status(p) == IF took[p] THEN "applied"
             ELSE IF pc[p] \in {"failed", "crashed"} THEN "failed" ELSE "open"

Atomic == INSTANCE AtomicStore
            WITH content <- file, status <- [p \in Process |-> Status(p)]

\* The store is atomic: concurrent commands and crashes never lose an update,
\* apply one twice or half, and initialize never erases (v4_state.py:59-83).
IsAtomic == Atomic!ASpec

\* A temporary file is the lock holder's, or was left by a process that was
\* killed; a failed write leaves one only where no handler takes it away, and
\* then nothing of it was published (v4_state.py:33-40, 47-69; v4.py:211-220).
NoTempLeft ==
  \A p \in Process :
    temp[p] => \/ lock = p
               \/ pc[p] = "crashed"
               \/ ~Tidy /\ p \in Updater /\ pc[p] = "failed" /\ ~took[p]

\* Every command ends, and a lock is always released, also by a process that is
\* killed while it holds it: nobody times out for ever.
CommandsEnd ==
  /\ \A p \in Process : <>Over(p)
  /\ \A p \in Process : lock = p ~> lock # p
=============================================================================
