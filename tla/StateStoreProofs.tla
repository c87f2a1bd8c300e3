-------------------------- MODULE StateStoreProofs --------------------------
(***************************************************************************)
(* StateStore implements AtomicStore, for any set of processes.  The       *)
(* argument: only the holder of the lock publishes, so what the holder has *)
(* read or computed stays what the file calls for until it publishes.  The *)
(* last part is about the one store whose content is modelled in detail,   *)
(* AnchorStore, and uses what the first parts say of every store.          *)
(***************************************************************************)
EXTENDS AnchorStore, TLAPS

\* What the memory of a process that holds the lock is worth.
MemInv ==
  \A p \in Process :
    /\ pc[p] = "read" => p \in Updater /\ mem[p] = Present(file)
    /\ pc[p] \in {"ready", "writing", "written"} =>
         IF p \in Initializer THEN mem[p] = Default
         ELSE mem[p] = After(p, file) /\ After(p, file) # Raised
    /\ took[p] => pc[p] \in {"published", "done", "failed", "crashed"}
    /\ pc[p] \in {"published", "done"} => took[p]
    /\ temp[p] => \/ pc[p] \in {"writing", "written", "published", "crashed"}
                  \/ ~Tidy /\ p \in Updater /\ pc[p] = "failed" /\ ~took[p]

IInv == TypeOK /\ MemInv

-----------------------------------------------------------------------------
\* Two processes never hold the lock together.
LEMMA OneHolder ==
  ASSUME TypeOK, NEW p \in Process, NEW q \in Process,
         pc[p] \in Holding, pc[q] \in Holding
  PROVE  p = q
BY DEF TypeOK

LEMMA LockInv ==
  ASSUME IInv, NEW p \in Process, Lock(p)
  PROVE  IInv'
BY FreeAssumption DEF IInv, TypeOK, MemInv, Lock, Holding

LEMMA TimeOutInv ==
  ASSUME IInv, NEW p \in Process, TimeOut(p)
  PROVE  IInv'
BY FreeAssumption DEF IInv, TypeOK, MemInv, TimeOut, Holding

LEMMA ReadInv ==
  ASSUME IInv, NEW p \in Process, Read(p)
  PROVE  IInv'
<1>1. Present(file) \in Content
  BY CommandAssumption DEF IInv, TypeOK, Present
<1>2. TypeOK'
  BY <1>1 DEF IInv, TypeOK, Read, Holding
<1>3. MemInv'
  BY DEF IInv, TypeOK, MemInv, Read, After
<1> QED BY <1>2, <1>3 DEF IInv

LEMMA ComputeInv ==
  ASSUME IInv, NEW p \in Process, Compute(p)
  PROVE  IInv'
<1>1. mem[p] \in Content
  BY DEF IInv, TypeOK
<1>2. ASSUME p \in Updater PROVE Effect[p][mem[p]] \in Content
  BY <1>1, <1>2, CommandAssumption DEF Compute
<1>3. mem'[p] \in Content
  BY <1>2, CommandAssumption DEF IInv, TypeOK, Compute
<1>4. TypeOK'
  BY <1>3 DEF IInv, TypeOK, Compute, Holding
<1>5. IF p \in Initializer THEN mem'[p] = Default
      ELSE mem'[p] = After(p, file) /\ After(p, file) # Raised
  <2>1. CASE p \in Initializer
    BY <2>1, CommandAssumption DEF IInv, TypeOK, Compute
  <2>2. CASE p \notin Initializer
    <3>1. p \in Updater /\ mem[p] = Present(file)
      BY <2>2 DEF IInv, MemInv, Compute
    <3> QED BY <2>2, <3>1 DEF IInv, TypeOK, Compute, After
  <2> QED BY <2>1, <2>2
<1>6. MemInv'
  BY <1>5 DEF IInv, TypeOK, MemInv, Compute, After
<1> QED BY <1>4, <1>6 DEF IInv

LEMMA RaiseInv ==
  ASSUME IInv, NEW p \in Process, Raise(p)
  PROVE  IInv'
BY FreeAssumption DEF IInv, TypeOK, MemInv, Raise, Holding

LEMMA CreateTempInv ==
  ASSUME IInv, NEW p \in Process, CreateTemp(p)
  PROVE  IInv'
BY DEF IInv, TypeOK, MemInv, CreateTemp, Holding

LEMMA WriteFailsInv ==
  ASSUME IInv, NEW p \in Process, WriteFails(p)
  PROVE  IInv'
<1>1. TypeOK'
  BY FreeAssumption, TidyAssumption DEF IInv, TypeOK, WriteFails, Holding
<1>2. MemInv'
  BY TidyAssumption DEF IInv, TypeOK, MemInv, WriteFails
<1> QED BY <1>1, <1>2 DEF IInv

LEMMA WriteTempInv ==
  ASSUME IInv, NEW p \in Process, WriteTemp(p)
  PROVE  IInv'
BY DEF IInv, TypeOK, MemInv, WriteTemp, Holding

LEMMA PublishInv ==
  ASSUME IInv, NEW p \in Process, Publish(p)
  PROVE  IInv'
<1>1. \A q \in Process : pc[q] \in Holding => q = p
  BY OneHolder DEF Publish, Holding, IInv
<1>2. TypeOK'
  BY DEF IInv, TypeOK, Publish, Holding
<1>3. MemInv'
  BY <1>1 DEF IInv, TypeOK, MemInv, Publish, Holding
<1> QED BY <1>2, <1>3 DEF IInv

LEMMA ReleaseInv ==
  ASSUME IInv, NEW p \in Process, Release(p)
  PROVE  IInv'
BY FreeAssumption DEF IInv, TypeOK, MemInv, Release, Holding

LEMMA CrashInv ==
  ASSUME IInv, NEW p \in Process, Crash(p)
  PROVE  IInv'
BY FreeAssumption DEF IInv, TypeOK, MemInv, Crash, Over, Holding

THEOREM Inductive == Spec => []IInv
<1>1. Init => IInv
  BY FreeAssumption, CommandAssumption DEF Init, IInv, TypeOK, MemInv, Holding
<1>2. IInv /\ [Next]_vars => IInv'
  <2> SUFFICES ASSUME IInv, [Next]_vars PROVE IInv'
    OBVIOUS
  <2>1. CASE UNCHANGED vars
    BY <2>1 DEF IInv, TypeOK, MemInv, vars
  <2>2. ASSUME NEW p \in Process, Step(p) \/ Crash(p) PROVE IInv'
    BY <2>2, LockInv, TimeOutInv, ReadInv, ComputeInv, RaiseInv, CreateTempInv,
       WriteTempInv, WriteFailsInv, PublishInv, ReleaseInv, CrashInv DEF Step
  <2> QED BY <2>1, <2>2 DEF Next
<1> QED BY <1>1, <1>2, PTL DEF Spec

\* Types, and who holds the lock.
THEOREM TypeCorrect == Spec => []TypeOK
<1>1. IInv => TypeOK
  BY DEF IInv
<1> QED BY <1>1, Inductive, PTL

\* A temporary file belongs to the holder of the lock; beyond that, only a killed
\* process leaves one, whatever fails while it is written or published, and a
\* failed update where no handler unlinks it (v4_state.py:33-69; v4.py:211-220).
THEOREM NoOrphans == Spec => []NoTempLeft
<1>1. IInv => NoTempLeft
  BY DEF IInv, TypeOK, MemInv, NoTempLeft, Holding
<1> QED BY <1>1, Inductive, PTL

-----------------------------------------------------------------------------
(* Refinement.                                                             *)

StatusMap == [p \in Process |-> Status(p)]

\* A step that publishes is the moment the command takes effect.
LEMMA PublishTakesEffect ==
  ASSUME IInv, NEW p \in Process, Publish(p)
  PROVE  Atomic!TakeEffect(p)
<1>1. Status(p) = "open" /\ Status(p)' = "applied"
  BY DEF IInv, MemInv, TypeOK, Status, Publish
<1>2. \A q \in Process : q # p => Status(q)' = Status(q)
  BY DEF IInv, TypeOK, Status, Publish
<1>3. file' = After(p, file) /\ After(p, file) # Raised
  <2>1. CASE p \in Initializer
    BY <2>1, CommandAssumption DEF IInv, TypeOK, MemInv, Publish, After, Present
  <2>2. CASE p \notin Initializer
    BY <2>2 DEF IInv, MemInv, Publish
  <2> QED BY <2>1, <2>2
<1> QED BY <1>1, <1>2, <1>3
    DEF Atomic!TakeEffect, Atomic!After, Atomic!Present, After, Present

\* A step that ends a command before it published is its failure.
LEMMA FailureFails ==
  ASSUME IInv, NEW p \in Process,
         TimeOut(p) \/ Raise(p) \/ WriteFails(p) \/ (Crash(p) /\ ~took[p])
  PROVE  Atomic!Fail(p)
<1>1. Status(p) = "open" /\ Status(p)' = "failed"
  BY DEF IInv, MemInv, TypeOK, Status, TimeOut, Raise, WriteFails, Crash, Over
<1>2. \A q \in Process : q # p => Status(q)' = Status(q)
  BY DEF IInv, TypeOK, Status, TimeOut, Raise, WriteFails, Crash
<1>3. file' = file
  BY DEF TimeOut, Raise, WriteFails, Crash
<1> QED BY <1>1, <1>2, <1>3 DEF Atomic!Fail

\* Every other step leaves the abstract store as it is.
LEMMA OtherStutters ==
  ASSUME IInv, NEW p \in Process,
         \/ Lock(p) \/ Read(p) \/ Compute(p) \/ CreateTemp(p) \/ WriteTemp(p)
         \/ Release(p) \/ (Crash(p) /\ took[p])
  PROVE  UNCHANGED Atomic!avars
<1>1. \A q \in Process : Status(q)' = Status(q)
  BY DEF IInv, MemInv, TypeOK, Status, Lock, Read, Compute, CreateTemp, WriteTemp,
         Release, Crash
<1>2. file' = file
  BY DEF Lock, Read, Compute, CreateTemp, WriteTemp, Release, Crash
<1> QED BY <1>1, <1>2 DEF Atomic!avars

\* The detailed store implements the atomic one.
THEOREM Refinement == Spec => IsAtomic
<1>1. Init => Atomic!AInit
  BY DEF Init, Atomic!AInit, Atomic!Process, Process, Status
<1>2. IInv /\ [Next]_vars => [Atomic!ANext]_(Atomic!avars)
  <2> SUFFICES ASSUME IInv, [Next]_vars PROVE [Atomic!ANext]_(Atomic!avars)
    OBVIOUS
  <2>1. CASE UNCHANGED vars
    BY <2>1 DEF vars, Atomic!avars, Status
  <2>2. ASSUME NEW p \in Process, Step(p) \/ Crash(p)
        PROVE  \/ Atomic!TakeEffect(p) \/ Atomic!Fail(p) \/ UNCHANGED Atomic!avars
    <3>1. CASE Publish(p)
      BY <3>1, PublishTakesEffect
    <3>2. CASE TimeOut(p) \/ Raise(p) \/ WriteFails(p) \/ (Crash(p) /\ ~took[p])
      BY <3>2, FailureFails
    <3>3. CASE \/ Lock(p) \/ Read(p) \/ Compute(p) \/ CreateTemp(p) \/ WriteTemp(p)
               \/ Release(p) \/ (Crash(p) /\ took[p])
      BY <3>3, OtherStutters
    <3> QED BY <2>2, <3>1, <3>2, <3>3 DEF Step
  <2> QED BY <2>1, <2>2 DEF Next, Atomic!ANext, Atomic!Process, Process
<1> QED BY <1>1, <1>2, Inductive, PTL DEF Spec, IsAtomic, Atomic!ASpec

-----------------------------------------------------------------------------
(* The anchors.  Every digest in the store is right, so an import that     *)
(* finds the digest of its own row finds its own row.                      *)

WellSigned(rows) ==
  \A a \in DOMAIN rows : rows[a] = Signed(rows[a].text, rows[a].active)

\* What an update may do to the anchors that are known.
Keeps(old, new) ==
  \A a \in DOMAIN old : /\ a \in DOMAIN new
                        /\ new[a].text = old[a].text
                        /\ new[a].active => old[a].active

SignedInv ==
  /\ WellSigned(Present(file))
  /\ \A p \in Process : WellSigned(mem[p])

LEMMA DigestTellsRows ==
  ASSUME NEW r, NEW s,
         r = Signed(r.text, r.active), s = Signed(s.text, s.active),
         r.sha256 = s.sha256
  PROVE  r.text = s.text /\ r.active = s.active
<1>1. r.sha256 = <<r.text, r.active>>
  BY DEF Signed, Digest
<1>2. s.sha256 = <<s.text, s.active>>
  BY DEF Signed, Digest
<1>3. \A t, u, v, w : <<t, u>> = <<v, w>> => t = v /\ u = w
  OBVIOUS
<1>4. <<r.text, r.active>> = <<s.text, s.active>>
  BY <1>1, <1>2
<1> QED BY <1>3, <1>4

LEMMA MergeKeeps ==
  ASSUME NEW rows, NEW incoming, WellSigned(rows), WellSigned(incoming),
         Merge(rows, incoming) # Raised
  PROVE  WellSigned(Merge(rows, incoming)) /\ Keeps(rows, Merge(rows, incoming))
<1> DEFINE all == DOMAIN rows \cup DOMAIN incoming
<1> DEFINE new == [a \in all |-> IF a \in DOMAIN incoming THEN incoming[a] ELSE rows[a]]
<1>1. Merge(rows, incoming) = new
  BY DEF Merge
<1>2. \A a \in DOMAIN rows \cap DOMAIN incoming : rows[a].sha256 = incoming[a].sha256
  BY DEF Merge
<1>3. WellSigned(new)
  BY DEF WellSigned
<1>4. Keeps(rows, new)
  <2> SUFFICES ASSUME NEW a \in DOMAIN rows
               PROVE  new[a].text = rows[a].text /\ (new[a].active => rows[a].active)
    BY DEF Keeps
  <2>1. CASE a \in DOMAIN incoming
    <3>1. rows[a].text = incoming[a].text /\ rows[a].active = incoming[a].active
      BY <2>1, <1>2, DigestTellsRows DEF WellSigned
    <3> QED BY <2>1, <3>1
  <2>2. CASE a \notin DOMAIN incoming
    BY <2>2
  <2> QED BY <2>1, <2>2
<1> QED BY <1>1, <1>3, <1>4

LEMMA RetireKeeps ==
  ASSUME NEW rows \in AnchorContent, NEW id, WellSigned(rows),
         Retire(rows, id) # Raised
  PROVE  WellSigned(Retire(rows, id)) /\ Keeps(rows, Retire(rows, id))
<1>1. rows = [a \in DOMAIN rows |-> rows[a]]
  BY DEF AnchorContent
<1>2. Retire(rows, id) = [rows EXCEPT ![id] = Signed(rows[id].text, FALSE)]
  BY DEF Retire
<1>3. \A t : Signed(t, FALSE).text = t /\ Signed(t, FALSE).active = FALSE
  BY DEF Signed
<1>4. \A a \in DOMAIN rows :
        Retire(rows, id)[a] = IF a = id THEN Signed(rows[a].text, FALSE) ELSE rows[a]
  BY <1>1, <1>2
<1>5. DOMAIN Retire(rows, id) = DOMAIN rows
  BY <1>2
<1>6. Keeps(rows, Retire(rows, id))
  BY <1>3, <1>4, <1>5 DEF Keeps
<1>7. WellSigned(Retire(rows, id))
  BY <1>3, <1>4, <1>5, ZenonT(60) DEF WellSigned
<1> QED BY <1>6, <1>7

\* What each command does to what is known.
LEMMA EffectKeeps ==
  ASSUME NEW p \in Updater, NEW rows \in Content, WellSigned(rows),
         Effect[p][rows] # Raised
  PROVE  WellSigned(Effect[p][rows]) /\ Keeps(rows, Effect[p][rows])
<1>1. p \in AnchorCommand /\ rows \in AnchorContent
  BY AnchorAssumption
<1>2. Effect[p][rows] = IF p \in Importer THEN Merge(rows, Imports[p])
                        ELSE Retire(rows, Retires[p])
  BY <1>1, AnchorAssumption DEF AnchorEffect
<1>3. CASE p \in Importer
  <2>1. WellSigned(Imports[p])
    BY <1>3, AnchorAssumption DEF WellSigned
  <2> QED BY <1>2, <1>3, <2>1, MergeKeeps
<1>4. CASE p \notin Importer
  BY <1>1, <1>2, <1>4, RetireKeeps
<1> QED BY <1>3, <1>4

LEMMA NoneSigned == WellSigned(Default)
BY AnchorAssumption DEF WellSigned, NoAnchors

\* A publication keeps what is known.
LEMMA PublishKeeps ==
  ASSUME IInv, SignedInv, NEW p \in Process, Publish(p)
  PROVE  Keeps(Present(file), Present(file')) /\ WellSigned(Present(file'))
<1>1. file' = After(p, file) /\ After(p, file) # Raised
  BY PublishTakesEffect DEF Atomic!TakeEffect, Atomic!After, Atomic!Present,
     After, Present
<1>2. Present(file) \in Content
  BY CommandAssumption DEF IInv, TypeOK, Present
<1>3. CASE p \in Updater
  <2>1. file' = Effect[p][Present(file)] /\ Effect[p][Present(file)] # Raised
    BY <1>1, <1>3 DEF After
  <2>2. file' \in Content
    BY <1>2, <1>3, <2>1, CommandAssumption
  <2>3. Present(file') = file'
    BY <2>2, CommandAssumption DEF Present
  <2> QED BY <1>2, <1>3, <2>1, <2>3, EffectKeeps DEF SignedInv
<1>4. CASE p \notin Updater
  <2>1. file' = Present(file)
    BY <1>1, <1>4 DEF After
  <2>2. Present(file') = Present(file)
    BY <1>2, <2>1, CommandAssumption DEF Present
  <2> QED BY <2>2 DEF SignedInv, Keeps
<1> QED BY <1>3, <1>4

\* What a step other than a publication leaves in a process's memory.
LEMMA MemorySigned ==
  ASSUME IInv, SignedInv, NEW p \in Process, Step(p) \/ Crash(p),
         NEW q \in Process
  PROVE  WellSigned(mem'[q])
<1>1. CASE Read(p)
  BY <1>1 DEF IInv, TypeOK, SignedInv, Read
<1>2. CASE Compute(p)
  <2>1. CASE q = p /\ p \in Updater
    <3>1. mem[p] \in Content /\ WellSigned(mem[p])
      BY DEF IInv, TypeOK, SignedInv
    <3>2. mem'[p] = Effect[p][mem[p]] /\ Effect[p][mem[p]] # Raised
      BY <1>2, <2>1, CommandAssumption DEF IInv, TypeOK, Compute
    <3> QED BY <2>1, <3>1, <3>2, EffectKeeps
  <2>2. CASE q = p /\ p \notin Updater
    BY <1>2, <2>2, NoneSigned DEF IInv, TypeOK, Compute
  <2>3. CASE q # p
    BY <1>2, <2>3 DEF IInv, TypeOK, SignedInv, Compute
  <2> QED BY <2>1, <2>2, <2>3
<1>3. CASE UNCHANGED mem
  BY <1>3 DEF SignedInv
<1> QED BY <1>1, <1>2, <1>3
    DEF Step, Lock, TimeOut, Raise, CreateTemp, WriteTemp, WriteFails, Publish,
        Release, Crash

LEMMA StepKeeps ==
  ASSUME IInv, SignedInv, [Next]_vars
  PROVE  SignedInv' /\ Keeps(Present(file), Present(file'))
<1>1. CASE UNCHANGED vars
  BY <1>1 DEF vars, SignedInv, Keeps
<1>2. ASSUME NEW p \in Process, Step(p) \/ Crash(p)
      PROVE  SignedInv' /\ Keeps(Present(file), Present(file'))
  <2>1. \A q \in Process : WellSigned(mem'[q])
    BY <1>2, MemorySigned
  <2>2. CASE Publish(p)
    BY <2>1, <2>2, PublishKeeps DEF SignedInv
  <2>3. CASE file' = file
    BY <2>1, <2>3 DEF SignedInv, Keeps
  <2> QED BY <1>2, <2>2, <2>3
      DEF Step, Lock, TimeOut, Read, Compute, Raise, CreateTemp, WriteTemp, WriteFails,
          Release, Crash
<1> QED BY <1>1, <1>2 DEF Next

\* An anchor is never lost, changed or brought back once it is retired, for any
\* set of anchors, any files and any number of commands (v4_state.py:126-171).
THEOREM RetirementIsFinal == Spec => RetiredStaysRetired
<1>1. Init => SignedInv
  BY NoneSigned DEF Init, SignedInv, Present
<1>2. IInv /\ SignedInv /\ [Next]_vars => SignedInv'
  BY StepKeeps
<1>3. IInv /\ SignedInv /\ [Next]_vars =>
        [\A a \in DOMAIN Present(file) :
           /\ a \in DOMAIN Present(file')
           /\ Present(file')[a].text = Present(file)[a].text
           /\ Present(file')[a].active => Present(file)[a].active]_vars
  BY StepKeeps DEF Keeps
<1> QED BY <1>1, <1>2, <1>3, Inductive, PTL DEF Spec, RetiredStaysRetired
=============================================================================
