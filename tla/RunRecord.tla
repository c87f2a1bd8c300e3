----------------------------- MODULE RunRecord -----------------------------
(***************************************************************************)
(* One run directory and everything that writes or trusts it:              *)
(*  - the engine that produces the run (protocols.py run, git_worker.py    *)
(*    run) and saves it with persist_manifest (protocols.py:386-610), and  *)
(*    the replay command around it (reason_assembly.py:664-735);           *)
(*  - `outcome` commands (reason_assembly.py:763-1125) that record what    *)
(*    happened later, invalidate lineage and feed the learning stores;     *)
(*  - `apply` (git_worker.py:1843-1904) and `regrade` commands             *)
(*    (reason_assembly.py:505-587), which read the record and trust it.    *)
(* They are separate OS processes.  They share files, not memory, and only *)
(* write_transaction and seal_manifest (artifacts.py) take .run.lock.      *)
(*                                                                         *)
(* Every file is replaced atomically, so a write of one file is one step   *)
(* and the steps of different processes interleave between files.  The     *)
(* seal of the manifest (artifact_hashes) is the whole of the other files  *)
(* as they were hashed, or None until somebody seals it.  A process may    *)
(* crash between any two steps.  The engine starts where its first         *)
(* persist_manifest has written manifest.json and not sealed it yet; from  *)
(* there to its verdict it touches no file modelled here but worktrees.   *)
(***************************************************************************)
EXTENDS Naturals, Sequences, Genealogy

CONSTANTS
  Modes,         \* which engines: a subset of {"council", "implement"}
  Replays,       \* may the run be a replay of another: a subset of BOOLEAN
  Outcome,       \* the outcome commands that may be issued
  Reader,        \* the apply and regrade commands that may be issued
  Node, Edge,    \* the run's claim genealogy ...
  Final,         \* ... and its node V-final
  Findings,      \* what the engine may find: <<tainted nodes, unresolved claims>>
  Invalidation,  \* sets of subject ids an outcome may invalidate
  None,          \* a file that is absent; nobody holds the lock
  Engine,        \* the engine process
  MaxCrashes     \* bound on the processes that crash

ASSUME GenealogyAssumption == /\ Final \in Node
                              /\ Edge \subseteq Node \X Node
                              /\ Findings \subseteq (SUBSET Node) \X (SUBSET Node)
ASSUME ModesAssumption == Modes \subseteq {"council", "implement"} /\ Replays \subseteq BOOLEAN
ASSUME NamesAssumption == /\ None \notin Outcome \cup {Engine}
                          /\ Engine \notin Outcome
ASSUME BoundAssumption == MaxCrashes \in Nat

Finality == {"none", "abort", "verdict_commit", "semantic_commit"}
Subject == Node \cup UNION Invalidation

VARIABLES
  mode,      \* which engine runs
  art,       \* the run's artifacts: file name -> content or None
  manifest,  \* manifest.json: [status, finality, commit, seal]
  lock,      \* holder of .run.lock
  eng,       \* the engine: where it is and its memory
  out,       \* each outcome command: where it is and its memory
  reader,    \* each apply or regrade command
  learned,   \* learning store -> outcome commands that fed it, in order
  crashes,   \* crashes so far
  early      \* history: some outcome command loaded the run before it ended

vars == <<mode, art, manifest, lock, eng, out, reader, learned, crashes, early>>

\* The locked JSON stores an outcome feeds, in order; "calibration" stands for
\* the calibration, co-failure and operation-effect stores, which follow one
\* another in the same way.
Stores == <<"reliability", "calibration">>

\* One write of a file; an event is appended to events.jsonl.
Put(a, w) == IF w[1] = "events" THEN [a EXCEPT !.events = @ \cup {w[2]}]
             ELSE [a EXCEPT ![w[1]] = w[2]]

\* A reader: whether the manifest it loaded says completed and has a commit; whether
\* an invalidation was there when it started, and whether the engine was still at
\* work; the finality of the verdicts and certificates in the child of a regrade.
NoChild == [keptCertificate |-> "none", keptVerdict |-> "none",
            verdict |-> "none", certificate |-> "none"]
Idle == [pc |-> "idle", ready |-> FALSE, known |-> FALSE, live |-> FALSE, child |-> NoChild]

\* A command that is over keeps no memory.
Over(r, pc) == [r EXCEPT !.pc = pc, !.man = None, !.todo = <<>>, !.snap = None]

Finished(pc) == pc \in {"ended", "done", "refused", "failed", "crashed"}
EngineLive == ~Finished(eng.pc)

Init ==
  /\ mode \in Modes
  /\ art = [verdict |-> None, certificate |-> None, taint |-> None,
            genealogy |-> None, outcome |-> None, events |-> {},
            worktrees |-> FALSE]
  /\ manifest = [status |-> "running", finality |-> "none", commit |-> FALSE,
                 seal |-> None]
  /\ lock = None
  /\ eng = [pc |-> "seal", phase |-> "start", man |-> manifest, todo |-> <<>>,
            seeds |-> {}, task |-> "other", snap |-> None, result |-> None]
  /\ out = [o \in Outcome |-> [pc |-> "idle", man |-> None, invalid |-> {},
                               lineage |-> FALSE, todo |-> <<>>, store |-> 1,
                               snap |-> None]]
  /\ reader = [p \in Reader |-> Idle]
  /\ learned = [s \in {Stores[k] : k \in 1..Len(Stores)} |-> <<>>]
  /\ crashes = 0
  /\ early = FALSE

-----------------------------------------------------------------------------
(* The engine.                                                             *)

\* The candidates' worktrees lie in the run directory (git_worker.py:1428-1431).
AddWorktrees ==
  /\ eng.pc = "running" /\ mode = "implement" /\ ~art.worktrees
  /\ art' = [art EXCEPT !.worktrees = TRUE]
  /\ UNCHANGED <<mode, manifest, lock, eng, out, reader, learned, crashes, early>>

\* git_worker.py:1530,1692: the judge's verdict is on disk, not yet committed.
DraftVerdict ==
  /\ eng.pc = "running" /\ art.worktrees /\ art.verdict = None
  /\ art' = Put(art, <<"verdict", [finality |-> "abort", blockers |-> {},
                                   unresolved |-> {}]>>)
  /\ UNCHANGED <<mode, manifest, lock, eng, out, reader, learned, crashes, early>>

\* The end of the work: the finality of the verdict and the status of the run.
Endings ==
  IF mode = "council"
  THEN {<<"verdict_commit", "completed">>, <<"abort", "completed">>, <<"abort", "blocked">>}
  ELSE {<<"semantic_commit", "completed">>, <<"abort", "blocked">>}

\* The verdict is written and the memory of the manifest set; which nodes are
\* tainted, whether claims stay unresolved, and whether the work counts as a
\* resolved implementation (a council's task contract may say so too,
\* protocols.py:1123-1164) is decided here.
Conclude ==
  /\ eng.pc = "running" /\ (mode = "implement" => art.worktrees)
  /\ \E e \in Endings, found \in Findings,
        task \in IF mode = "implement" THEN {"implementation"}
                 ELSE {"implementation", "other"} :
       eng' = [eng EXCEPT
         !.pc = "conclude",
         !.seeds = found[1],
         !.task = task,
         !.man.status = e[2], !.man.finality = e[1],
         !.man.commit = (e[1] = "semantic_commit"),
         !.todo = <<<<"verdict", [finality |-> e[1], unresolved |-> found[2],
                       blockers |-> IF e[2] = "blocked" THEN {"verdict"} ELSE {}]>>>>
                  \o (IF mode = "council" \/ e[2] = "completed"
                      THEN <<<<"events", <<Engine, "completed">>>>>> ELSE <<>>)]
  /\ UNCHANGED <<mode, art, manifest, lock, out, reader, learned, crashes, early>>

\* The body of `except BaseException`: a failed run still saves its manifest.
Failed(e) == [e EXCEPT !.pc = "conclude", !.phase = "except",
                       !.man.status = "failed", !.todo = <<<<"events", <<Engine, "failed">>>>>>]

EngineFails ==
  /\ eng.pc = "running"
  /\ eng' = Failed(eng)
  /\ UNCHANGED <<mode, art, manifest, lock, out, reader, learned, crashes, early>>

\* finality_certificate (v4.py:483-505).
CertifiedFinality(v) ==
  IF v.finality = "abort" \/ v.unresolved # {} THEN "abort"
  ELSE IF eng.task = "implementation" THEN "semantic_commit"
  ELSE "verdict_commit"

\* What persist_manifest writes, in order, having read verdict v: the
\* certificate BEFORE the taint is known, then the verdict again if the taint
\* reaches it (protocols.py:443-561).
PersistWrites(v) ==
  LET certified  == CertifiedFinality(v)
      downgraded == v.finality = "semantic_commit" /\ certified # "semantic_commit"
      tainted    == Tainted(Edge, eng.seeds)
      v1 == IF downgraded THEN [v EXCEPT !.finality = "abort"] ELSE v
      v2 == [v1 EXCEPT !.finality = "abort", !.blockers = @ \cup {"taint"}]
  IN  (IF downgraded THEN <<<<"verdict", v1>>>> ELSE <<>>)
      \o <<<<"certificate", [finality |-> certified, unresolved |-> v.unresolved]>>>>
      \o (IF Final \in tainted THEN <<<<"verdict", v2>>>> ELSE <<>>)
      \o <<<<"taint", tainted>>, <<"genealogy", tainted \cap Node>>>>

\* Bug: persist_manifest saves the verdict it read, changed or not.
PersistRewritesVerdict ==
  /\ eng.pc = "conclude" /\ eng.todo = <<>>
  /\ eng' = IF eng.man.status \in {"completed", "blocked"} /\ art.verdict # None
            THEN [eng EXCEPT !.pc = "persist",
                   !.todo = PersistWrites(art.verdict) \o <<<<"verdict", art.verdict>>>>,
                   !.man.finality = CertifiedFinality(art.verdict)]
            ELSE [eng EXCEPT !.pc = "persist"]
  /\ UNCHANGED <<mode, art, manifest, lock, out, reader, learned, crashes, early>>

\* persist_manifest up to its first write.
PersistReads ==
  /\ eng.pc = "conclude" /\ eng.todo = <<>>
  /\ eng' = IF eng.man.status \in {"completed", "blocked"} /\ art.verdict # None
            THEN [eng EXCEPT !.pc = "persist", !.todo = PersistWrites(art.verdict),
                             !.man.finality = CertifiedFinality(art.verdict)]
            ELSE [eng EXCEPT !.pc = "persist"]
  /\ UNCHANGED <<mode, art, manifest, lock, out, reader, learned, crashes, early>>

\* The next file the engine writes.
EngineWrites ==
  /\ eng.pc \in {"conclude", "persist"} /\ eng.todo # <<>>
  /\ art' = Put(art, Head(eng.todo))
  /\ eng' = [eng EXCEPT !.todo = Tail(@)]
  /\ UNCHANGED <<mode, manifest, lock, out, reader, learned, crashes, early>>

\* write_json("manifest.json"): no lock, and the seal of the last re-read.
EngineWritesManifest ==
  /\ eng.pc = "persist" /\ eng.todo = <<>>
  /\ manifest' = eng.man
  /\ eng' = [eng EXCEPT !.pc = "seal"]
  /\ UNCHANGED <<mode, art, lock, out, reader, learned, crashes, early>>

\* seal_manifest (artifacts.py:279-291): lock, read the manifest, hash the files ...
Snapshot == [manifest EXCEPT !.seal = art]

EngineHashes ==
  /\ eng.pc = "seal" /\ lock = None
  /\ lock' = Engine
  /\ eng' = [eng EXCEPT !.pc = "sealing", !.snap = Snapshot]
  /\ UNCHANGED <<mode, art, manifest, out, reader, learned, crashes, early>>

\* ... write it back and unlock.
EngineSeals ==
  /\ eng.pc = "sealing"
  /\ manifest' = eng.snap
  /\ lock' = None
  /\ eng' = [eng EXCEPT !.pc = "reload", !.snap = None]
  /\ UNCHANGED <<mode, art, out, reader, learned, crashes, early>>

\* Where a persist_manifest that returned or raised leaves the engine.  The first
\* one comes before `try` (protocols.py:2232, git_worker.py:1380).  After the work
\* git_worker cleans up in `finally` and saves once more, the council has nothing
\* left.  A run that did not raise goes back to its caller: `replay`, or the end.
AfterPersist(e, failed, replay) ==
  IF e.phase = "start"
  THEN [e EXCEPT !.pc = IF failed THEN "failed" ELSE "running", !.phase = "try"]
  ELSE IF failed /\ e.phase = "try" THEN Failed(e)
  ELSE IF mode = "implement" /\ e.phase # "finally" THEN [e EXCEPT !.pc = "cleanup"]
  ELSE IF failed THEN [e EXCEPT !.pc = "failed", !.result = None]
  ELSE IF replay /\ e.result # None THEN [e EXCEPT !.pc = "returned"]
  ELSE [e EXCEPT !.pc = "ended", !.result = None]

\* The engine's memory becomes what is on disk (protocols.py:610).  At the end of
\* the work that is also the manifest of the ProtocolResult: git_worker builds it before
\* its `finally` (1533-1540, 1730-1736, 1802-1808).
EngineReloads ==
  /\ eng.pc = "reload"
  /\ \E replay \in Replays :
       eng' = AfterPersist([eng EXCEPT !.man = manifest,
                                       !.result = IF eng.phase = "try" THEN manifest ELSE @],
                           FALSE, replay)
  /\ UNCHANGED <<mode, art, manifest, lock, out, reader, learned, crashes, early>>

\* flock_exclusive gives up after 10 s of contention (state_compat.py:48-75).
EngineTimesOut ==
  /\ eng.pc = "seal" /\ lock # None
  /\ eng' = AfterPersist(eng, TRUE, FALSE)
  /\ UNCHANGED <<mode, art, manifest, lock, out, reader, learned, crashes, early>>

\* What was sealed before had the files of the worktrees.
CleanUp ==
  /\ eng.pc = "cleanup"
  /\ art' = [art EXCEPT !.worktrees = FALSE]
  /\ eng' = [eng EXCEPT !.pc = "conclude", !.phase = "finally"]
  /\ UNCHANGED <<mode, manifest, lock, out, reader, learned, crashes, early>>

\* record_substitutions: the replay command writes the manifest it was handed back
\* once more, with its route substitutions, and does not seal it again.
RecordSubstitutions ==
  /\ eng.pc = "returned"
  /\ manifest' = eng.result
  /\ eng' = [eng EXCEPT !.pc = "ended", !.phase = "replayed", !.result = None]
  /\ UNCHANGED <<mode, art, lock, out, reader, learned, crashes, early>>

-----------------------------------------------------------------------------
(* The outcome commands.                                                   *)

\* load_v4_run and the early refusal: no lock, no look at the run's status.
Load(o) ==
  /\ out[o].pc = "idle"
  /\ \E invalid \in Invalidation :
       out' = [out EXCEPT ![o] =
                 IF art.outcome = None
                 THEN [@ EXCEPT !.pc = "lineage", !.man = manifest, !.invalid = invalid]
                 ELSE Over(@, "refused")]
  /\ early' = (early \/ EngineLive)
  /\ UNCHANGED <<mode, art, manifest, lock, eng, reader, learned, crashes>>

InvalidatesLineage(o) == out[o].invalid # {} /\ art.genealogy # None

\* Bug: the invalidation is noted in the lineage, verdict and certificate stand.
OutcomeWritesLineageOnly(o) ==
  LET tainted == Tainted(Edge, out[o].invalid)
  IN  <<<<"outcome", o>>>>
      \o (IF ~InvalidatesLineage(o) THEN <<>>
          ELSE <<<<"genealogy", tainted \cap Node>>, <<"taint", tainted>>>>)

\* What the command will write, from the files as it reads them: the taint of
\* the invalidated ids ALONE, and an abort for a verdict and a certificate that
\* exist (reason_assembly.py:833-886).
OutcomeWrites(o) ==
  LET invalid == out[o].invalid
      tainted == Tainted(Edge, invalid)
      aborted(name, extra) ==
        IF art[name] = None THEN <<>>
        ELSE <<<<name, [extra EXCEPT !.finality = "abort"]>>>>
  IN  <<<<"outcome", o>>>>
      \o (IF ~InvalidatesLineage(o) THEN <<>>
          ELSE <<<<"genealogy", tainted \cap Node>>, <<"taint", tainted>>>>
               \o aborted("verdict", [art.verdict EXCEPT !.blockers = @ \cup {"outcome"}])
               \o aborted("certificate", [art.certificate EXCEPT !.unresolved = @ \cup invalid]))

ReadLineage(o) ==
  /\ out[o].pc = "lineage"
  /\ out' = [out EXCEPT ![o].pc = "lock", ![o].todo = OutcomeWrites(o),
                        ![o].lineage = InvalidatesLineage(o)]
  /\ UNCHANGED <<mode, art, manifest, lock, eng, reader, learned, crashes, early>>

\* Bug: no check under the lock.
BeginUnchecked(o) ==
  /\ out[o].pc = "lock" /\ lock = None
  /\ lock' = o /\ out' = [out EXCEPT ![o].pc = "write"]
  /\ UNCHANGED <<mode, art, manifest, eng, reader, learned, crashes, early>>

\* Bug: a refused command seals the run all the same.
BeginSealsOnRefusal(o) ==
  /\ out[o].pc = "lock" /\ lock = None
  /\ IF art.outcome = None
     THEN lock' = o /\ out' = [out EXCEPT ![o].pc = "write"]
     ELSE /\ lock' = o
          /\ out' = [out EXCEPT ![o].pc = "sealing", ![o].snap = Snapshot]
  /\ UNCHANGED <<mode, art, manifest, eng, reader, learned, crashes, early>>

\* write_transaction: the check that counts is the one under the lock ...
Begin(o) ==
  /\ out[o].pc = "lock" /\ lock = None
  /\ IF art.outcome = None
     THEN lock' = o /\ out' = [out EXCEPT ![o].pc = "write"]
     ELSE lock' = lock /\ out' = [out EXCEPT ![o] = Over(@, "refused")]
  /\ UNCHANGED <<mode, art, manifest, eng, reader, learned, crashes, early>>

\* ... one file after the other ...
OutcomeWritesFile(o) ==
  /\ out[o].pc \in {"write", "events"} /\ out[o].todo # <<>>
  /\ art' = Put(art, Head(out[o].todo))
  /\ out' = [out EXCEPT ![o].todo = Tail(@)]
  /\ UNCHANGED <<mode, manifest, lock, eng, reader, learned, crashes, early>>

\* Bug: the lock outlives the transaction.
CommitKeepsLock(o) ==
  /\ out[o].pc = "write" /\ out[o].todo = <<>>
  /\ manifest' = out[o].man
  /\ out' = [out EXCEPT ![o].pc = "events", ![o].man = None]
  /\ UNCHANGED <<mode, art, lock, eng, reader, learned, crashes, early>>

\* ... and the manifest, as it was loaded, last.  The events come after.
Commit(o) ==
  /\ out[o].pc = "write" /\ out[o].todo = <<>>
  /\ manifest' = out[o].man
  /\ lock' = None
  /\ out' = [out EXCEPT ![o].pc = "events", ![o].man = None,
       ![o].todo = <<<<"events", <<o, "outcome">>>>>>
                   \o IF out[o].lineage
                      THEN <<<<"events", <<o, "invalidation">>>>>> ELSE <<>>]
  /\ UNCHANGED <<mode, art, eng, reader, learned, crashes, early>>

\* Bug: the run is not sealed again after the outcome.
LearnWithoutSeal(o) ==
  /\ out[o].pc = "events" /\ out[o].todo = <<>>
  /\ learned' = [s \in DOMAIN learned |-> Append(learned[s], o)]
  /\ out' = [out EXCEPT ![o] = Over(@, "done")]
  /\ UNCHANGED <<mode, art, manifest, lock, eng, reader, crashes, early>>

\* Each learning store in turn; between the first and the second the command
\* reads verdict.json, which a run without a verdict does not have.
Learn(o) ==
  /\ out[o].pc = "events" /\ out[o].todo = <<>> /\ out[o].store <= Len(Stores)
  /\ IF out[o].store = 2 /\ art.verdict = None
     THEN out' = [out EXCEPT ![o] = Over(@, "failed")] /\ UNCHANGED learned
     ELSE /\ learned' = [learned EXCEPT ![Stores[out[o].store]] = Append(@, o)]
          /\ out' = [out EXCEPT ![o].store = @ + 1]
  /\ UNCHANGED <<mode, art, manifest, lock, eng, reader, crashes, early>>

OutcomeHashes(o) ==
  /\ out[o].pc = "events" /\ out[o].store > Len(Stores) /\ lock = None
  /\ lock' = o
  /\ out' = [out EXCEPT ![o].pc = "sealing", ![o].snap = Snapshot]
  /\ UNCHANGED <<mode, art, manifest, eng, reader, learned, crashes, early>>

OutcomeSeals(o) ==
  /\ out[o].pc = "sealing"
  /\ manifest' = out[o].snap
  /\ lock' = None
  /\ out' = [out EXCEPT ![o] = Over(@, "done")]
  /\ UNCHANGED <<mode, art, eng, reader, learned, crashes, early>>

\* A lock the command waits for stays contended for 10 s: .run.lock, held by
\* another process, or the lock of a learning store.
OutcomeTimesOut(o) ==
  /\ \/ out[o].pc = "lock" /\ lock # None
     \/ out[o].pc = "events" /\ out[o].store > Len(Stores) /\ lock # None
     \/ out[o].pc = "events" /\ out[o].todo = <<>> /\ out[o].store <= Len(Stores)
  /\ out' = [out EXCEPT ![o] = Over(@, "failed")]
  /\ UNCHANGED <<mode, art, manifest, lock, eng, reader, learned, crashes, early>>

-----------------------------------------------------------------------------
(* The apply commands: unlocked reads, one file after the other.           *)

InvalidatedOnDisk == art.outcome # None /\ out[art.outcome].invalid # {}

Others == <<mode, art, manifest, lock, eng, out, learned, crashes, early>>

ApplyLoads(p) ==
  /\ reader[p].pc = "idle"
  /\ reader' = [reader EXCEPT ![p] = [@ EXCEPT !.pc = "verify",
                                      !.ready = manifest.commit /\ manifest.status = "completed",
                                      !.known = InvalidatedOnDisk, !.live = EngineLive]]
  /\ UNCHANGED Others

\* One check of a reader: on to the next, or refuse.
Check(p, at, passes, next) ==
  /\ reader[p].pc = at
  /\ reader' = [reader EXCEPT ![p] = IF passes THEN [@ EXCEPT !.pc = next]
                                     ELSE [Idle EXCEPT !.pc = "refused"]]
  /\ UNCHANGED Others

\* Bug: files that do not match the seal are taken as they are.
ApplyVerifiesNothing(p) == Check(p, "verify", TRUE, "verdict")

\* verify_integrity re-reads the manifest and hashes every file (one step here).
\* A manifest that nobody has sealed passes (git_worker.py:1853).
ApplyVerifies(p) == Check(p, "verify", manifest.seal \in {None, art}, "verdict")

ApplyReadsVerdict(p) ==
  Check(p, "verdict", art.verdict # None /\ art.verdict.finality = "semantic_commit",
        "certificate")

ApplyReadsCertificate(p) ==
  Check(p, "certificate", /\ art.certificate # None
                          /\ art.certificate.finality = "semantic_commit"
                          /\ art.certificate.unresolved = {}, "taint")

ApplyReadsTaint(p) == Check(p, "taint", art.taint \in {None, {}}, "pick")

\* Status and commit are those of the manifest read at the start.
CherryPick(p) ==
  Check(p, "pick", reader[p].ready, "applied")

-----------------------------------------------------------------------------
(* The regrade commands: a child run built from a parent read without lock, *)
(* seal or status.  First the files are copied as they are ...              *)

RegradeLoads(p) ==
  /\ reader[p].pc = "idle"
  /\ reader' = [reader EXCEPT ![p] =
                  [@ EXCEPT !.pc = "preserve certificate", !.live = EngineLive,
                            !.known = /\ InvalidatedOnDisk /\ art.genealogy # None
                                      /\ manifest.seal = art]]
  /\ UNCHANGED Others

FinalityOf(file) == IF file = None THEN "none" ELSE file.finality

PreserveCertificate(p) ==
  /\ reader[p].pc = "preserve certificate"
  /\ reader' = [reader EXCEPT ![p] =
                  [@ EXCEPT !.pc = "preserve verdict",
                            !.child.keptCertificate = FinalityOf(art.certificate)]]
  /\ UNCHANGED Others

PreserveVerdict(p) ==
  /\ reader[p].pc = "preserve verdict"
  /\ reader' = [reader EXCEPT ![p] =
                  [@ EXCEPT !.pc = "view verdict",
                            !.child.keptVerdict = FinalityOf(art.verdict)]]
  /\ UNCHANGED Others

\* ... then verdict and certificate are read again, for the child's own; a parent
\* without them raises, and the child is left unsealed.
ViewVerdict(p) ==
  /\ reader[p].pc = "view verdict"
  /\ reader' = [reader EXCEPT ![p] =
                  IF art.verdict = None THEN [Idle EXCEPT !.pc = "refused"]
                  ELSE [@ EXCEPT !.pc = "view certificate",
                                 !.child.verdict = FinalityOf(art.verdict)]]
  /\ UNCHANGED Others

ViewCertificate(p) ==
  /\ reader[p].pc = "view certificate"
  /\ reader' = [reader EXCEPT ![p] =
                  IF art.certificate = None THEN [Idle EXCEPT !.pc = "refused"]
                  ELSE [@ EXCEPT !.pc = "regraded",
                                 !.child.certificate = FinalityOf(art.certificate)]]
  /\ UNCHANGED Others

-----------------------------------------------------------------------------
\* A process is killed; the kernel drops its flock.
Crash ==
  /\ crashes < MaxCrashes
  /\ crashes' = crashes + 1
  /\ \/ /\ EngineLive
        /\ eng' = [Over(eng, "crashed") EXCEPT !.result = None]
        /\ lock' = IF lock = Engine THEN None ELSE lock
        /\ UNCHANGED out
     \/ \E o \in Outcome :
          /\ ~Finished(out[o].pc) /\ out[o].pc # "idle"
          /\ out' = [out EXCEPT ![o] = Over(@, "crashed")]
          /\ lock' = IF lock = o THEN None ELSE lock
          /\ UNCHANGED eng
  /\ UNCHANGED <<mode, art, manifest, reader, learned, early>>

EngineSteps == \/ AddWorktrees \/ DraftVerdict \/ Conclude \/ EngineFails \/ PersistReads \/ EngineWrites
               \/ EngineWritesManifest \/ EngineHashes \/ EngineSeals \/ EngineReloads
               \/ EngineTimesOut \/ CleanUp \/ RecordSubstitutions

OutcomeSteps(o) == \/ Load(o) \/ ReadLineage(o) \/ Begin(o) \/ OutcomeWritesFile(o)
                   \/ Commit(o) \/ Learn(o) \/ OutcomeHashes(o) \/ OutcomeSeals(o)
                   \/ OutcomeTimesOut(o)

ApplySteps(p) == \/ ApplyLoads(p) \/ ApplyVerifies(p) \/ ApplyReadsVerdict(p)
                 \/ ApplyReadsCertificate(p) \/ ApplyReadsTaint(p) \/ CherryPick(p)

RegradeSteps(p) == \/ RegradeLoads(p) \/ PreserveCertificate(p) \/ PreserveVerdict(p)
                   \/ ViewVerdict(p) \/ ViewCertificate(p)

Next == \/ EngineSteps
        \/ \E o \in Outcome : OutcomeSteps(o)
        \/ \E p \in Reader : ApplySteps(p) \/ RegradeSteps(p)
        \/ Crash

\* Safety only: what the properties say, no process has to do anything.
Spec == Init /\ [][Next]_vars

-----------------------------------------------------------------------------
Verdict == [finality : Finality, blockers : SUBSET {"verdict", "taint", "outcome"},
            unresolved : SUBSET Node]
Certificate == [finality : Finality, unresolved : SUBSET Subject]
Label == ({Engine} \X {"completed", "failed"})
         \cup (Outcome \X {"outcome", "invalidation"})
FileContent == [verdict : Verdict \cup {None}, certificate : Certificate \cup {None},
                taint : (SUBSET Subject) \cup {None},
                genealogy : (SUBSET Node) \cup {None},
                outcome : Outcome \cup {None}, events : SUBSET Label,
                worktrees : BOOLEAN]
Manifest == [status : {"running", "completed", "blocked", "failed"},
             finality : Finality, commit : BOOLEAN, seal : FileContent \cup {None}]

\* A file that is absent has no content.
ASSUME NoneAssumption == /\ None \notin Verdict /\ None \notin Certificate
                         /\ None \notin Manifest /\ None \notin FileContent
                         /\ \A ids \in SUBSET Subject : ids # None

\* Writes of the engine, and of an outcome command besides its outcome.json.
Write == ({"verdict"} \X Verdict) \cup ({"certificate"} \X Certificate)
         \cup ({"taint"} \X (SUBSET Subject)) \cup ({"genealogy"} \X (SUBSET Node))
         \cup ({"events"} \X Label)

EnginePC == {"running", "conclude", "persist", "seal", "sealing", "reload", "cleanup",
             "returned", "ended", "failed", "crashed"}
OutcomePC == {"idle", "lineage", "lock", "write", "events", "sealing", "done",
              "refused", "failed", "crashed"}

EngineType ==
  /\ eng \in [pc : EnginePC, phase : {"start", "try", "except", "finally", "replayed"},
              man : Manifest \cup {None}, todo : Seq(Write), seeds : SUBSET Node,
              task : {"implementation", "other"}, snap : Manifest \cup {None},
              result : Manifest \cup {None}]
  /\ eng.pc # "crashed" => eng.man \in Manifest
  /\ eng.pc = "sealing" => eng.snap \in Manifest
  /\ eng.pc = "returned" => eng.result \in Manifest

ReaderPC == {"idle", "verify", "verdict", "certificate", "taint", "pick", "applied",
             "preserve certificate", "preserve verdict", "view verdict",
             "view certificate", "regraded", "refused"}
Child == [keptCertificate : Finality, keptVerdict : Finality,
          verdict : Finality, certificate : Finality]
ReaderRecord == [pc : ReaderPC, ready : BOOLEAN, known : BOOLEAN,
                 live : BOOLEAN, child : Child]

OutcomeType ==
  /\ out \in [Outcome -> [pc : OutcomePC, man : Manifest \cup {None},
                          invalid : SUBSET Subject, lineage : BOOLEAN,
                          todo : Seq(Write \cup ({"outcome"} \X Outcome)),
                          store : 1..(Len(Stores) + 1), snap : Manifest \cup {None}]]
  /\ \A o \in Outcome :
       /\ out[o].pc \in {"lineage", "lock", "write"} => out[o].man \in Manifest
       /\ out[o].pc = "sealing" => out[o].snap \in Manifest

\* Types of the files, of the memories of the processes (contracts.py,
\* artifacts.py), and who holds .run.lock: exactly the process inside
\* write_transaction or seal_manifest.
TypeOK ==
  /\ mode \in Modes
  /\ art \in FileContent
  /\ manifest \in Manifest
  /\ EngineType
  /\ OutcomeType
  /\ reader \in [Reader -> ReaderRecord]
  /\ learned \in [{"reliability", "calibration"} -> Seq(Outcome)]
  /\ crashes \in Nat
  /\ early \in BOOLEAN
  /\ lock \in Outcome \cup {None, Engine}
  /\ lock = Engine <=> eng.pc = "sealing"
  /\ \A o \in Outcome : lock = o <=> out[o].pc \in {"write", "sealing"}

\* What an invalidating outcome leaves behind when it is complete.
InvalidationComplete ==
  LET invalid == out[art.outcome].invalid
  IN  /\ art.verdict.finality = "abort" /\ "outcome" \in art.verdict.blockers
      /\ art.certificate.finality = "abort" /\ invalid \subseteq art.certificate.unresolved
      /\ art.taint = Tainted(Edge, invalid)
      /\ art.genealogy = art.taint \cap Node

\* A record whose seal verifies is never half an outcome: if the seal matches the
\* files and an outcome that invalidates something is among them, then verdict,
\* certificate, taint and genealogy all say so, wherever the command that wrote
\* them crashed.  (Files of a run that never got a verdict have nothing to
\* invalidate; `early` runs, whose engine was still writing, are the exception.)
SealedMeansCoherent ==
  (manifest.seal = art /\ InvalidatedOnDisk /\ art.genealogy # None /\ ~early)
    => InvalidationComplete

\* When every process ended by itself, the seal verifies: nobody leaves a file
\* changed after its own last seal (reason_assembly.py:1124, protocols.py:609),
\* even though events and the engine's files are written without the lock.  A
\* replay is sealed if it is a council's and no outcome came before its end.
QuietIntegrity ==
  (/\ eng.pc = "ended" /\ (eng.phase = "replayed" => mode = "council" /\ ~early)
   /\ \A o \in Outcome : out[o].pc \in {"idle", "refused", "done"})
    => manifest.seal = art

\* The learning stores hear of one run at most once each, only from the command
\* whose outcome is the recorded one, and calibration never before reliability
\* (outcome.json is the fence, reason_assembly.py:884-888).
LearnedOnce ==
  /\ \A k \in 1..Len(Stores) : learned[Stores[k]] \in {<<>>, <<art.outcome>>}
  /\ learned["calibration"] # <<>> => learned["reliability"] # <<>>

\* outcome.json is never replaced, not by a second command that passed the
\* unlocked check of reason_assembly.py:766 in time.
OutcomeFinal == [][art.outcome # None => art'.outcome = art.outcome]_vars

\* "A run is never upgraded": once persist_manifest has judged the lineage, an
\* aborted verdict stays aborted whatever the engine and the commands still
\* write from older reads; so does the certificate, unless the engine is live.
NeverUpgraded ==
  [][art.genealogy # None =>
       /\ art.verdict.finality = "abort" => art'.verdict.finality = "abort"
       /\ (~EngineLive /\ art.certificate.finality = "abort")
            => art'.certificate.finality = "abort"]_vars

\* What apply cherry-picks is the commit of a completed implementation whose
\* lineage the engine found clean and resolved, and that no outcome on disk when
\* apply started had invalidated: the unlocked reads can miss an outcome that
\* arrives meanwhile, not one that was there.
ApplySound ==
  \A p \in Reader :
    reader[p].pc = "applied" =>
      /\ mode = "implement" /\ eng.seeds = {} /\ art.verdict.unresolved = {}
      /\ reader[p].known => early

\* A regraded child is no way around an invalidation: if the parent was sealed with
\* one in its lineage when regrade started, every verdict and certificate in the
\* child says abort; and the child contradicts what it preserved only if the engine
\* was at work or an outcome came between two reads (reason_assembly.py:517-544).
RegradeHonest ==
  \A p \in Reader :
    LET child == reader[p].child
    IN  reader[p].pc = "regraded" =>
          /\ reader[p].known =>
               early \/ \A f \in DOMAIN child : child[f] = "abort"
          /\ child.keptVerdict # child.verdict \/ child.keptCertificate # child.certificate
               => reader[p].live \/ (art.outcome # None /\ ~reader[p].known)
=============================================================================
