------------------------- MODULE ImplementationPass -------------------------
(***************************************************************************)
(* One implementation run (git_worker.py: ImplementationEngine.run and     *)
(* execute_candidate).  The engine is a coroutine; every candidate, and    *)
(* the integrator, works in a thread of its own, in a git worktree under   *)
(* the run directory.  A thread cannot be cancelled: when the engine fails *)
(* while candidates work, it cleans up and seals the run under their feet. *)
(*                                                                         *)
(* The content of a worktree is the set of its changes against the base:   *)
(* the label of a candidate stands for its patch, "edit" for what the      *)
(* integrator writes itself and "litter" for what test commands leave.     *)
(* What workers, judges and reviewers answer is arbitrary, and any call    *)
(* may raise.  How RunRecord's processes share the files written here is   *)
(* that module's subject; a persist_manifest is one step here.             *)
(***************************************************************************)
EXTENDS Naturals, FiniteSets

CONSTANTS
  Request,      \* the requests a run may be started with
  Cand,         \* the candidates' labels, one per worker route
  Family,       \* model families of the healthy validators
  FamilyOf,     \* candidate -> the family of its route
  JudgeFamily,  \* the family of the judge
  None          \* no candidate

Mode == {"docs", "regression", "invariant"}

\* Test commands given or detected; verification_mode() of the task; that mode
\* asked for as "docs"; a contract of high risk.
ASSUME RequestAssumption ==
  Request \subseteq [commands : BOOLEAN, mode : Mode, docs : BOOLEAN, high : BOOLEAN]
ASSUME CandAssumption == /\ IsFiniteSet(Cand)
                         /\ Cand \cap {"final", "edit", "litter", "test", "code", None} = {}
ASSUME FamilyAssumption == FamilyOf \in [Cand -> Family] /\ JudgeFamily \in Family

VARIABLES
  conf,      \* the request
  eng,       \* the engine: where it is and what it holds
  cand,      \* candidate -> its execute_candidate
  integ,     \* the integrator's thread: "idle", "running", "done", "failed"
  wt,        \* worktrees on disk: candidates, "final"
  branch,    \* the final branch exists
  tree,      \* content of the final worktree
  head,      \* the final branch: commits above the base, whether they sit on
             \* the base, and the content they carry
  files,     \* artifacts the candidates have written
  manifest   \* manifest.json: [status, commit, seal]

vars == <<conf, eng, cand, integ, wt, branch, tree, head, files, manifest>>
gitVars == <<wt, branch, tree, head>>

Status == {"running", "blocked", "completed", "failed"}
Worktree == Cand \cup {"final"}
Written == {"log", "patch", "receipt"}

\* The places where the body of `try` can raise or be cancelled.
Trying == {"prepare", "gather", "judge", "final", "apply", "integrate", "capture",
           "tests", "review", "commit", "check", "complete"}
Over == {"ended", "aborted"}
Working == {"baseline", "tests", "implement", "capture", "green", "log", "patch", "receipt"}

\* What seal_manifest hashes: worktrees lie inside the run directory.
Artifacts == files \cup {<<"worktree", w>> : w \in wt}

Valid == {c \in Cand : cand[c].valid}
Live(w) == IF w = "final" THEN integ = "running" ELSE cand[w].pc \in Working

Init ==
  /\ conf \in Request
  /\ eng = [pc |-> "prepare", status |-> "running", commit |-> FALSE, kept |-> FALSE,
            action |-> "none", base |-> None, parts |-> {}, patch |-> {},
            tested |-> FALSE, reviewers |-> {}, worktrees |-> {}]
  /\ cand = [c \in Cand |-> [pc |-> "idle", failure |-> FALSE, tree |-> {},
                             valid |-> FALSE]]
  /\ integ = "idle"
  /\ wt = {} /\ branch = FALSE /\ tree = {}
  /\ head = [ahead |-> 0, onBase |-> TRUE, has |-> {}]
  /\ files = {}
  /\ manifest = [status |-> "running", commit |-> FALSE, seal |-> {}]

-----------------------------------------------------------------------------
(* execute_candidate, in a thread.  Whatever uses the worktree as its      *)
(* working directory needs it to exist.                                    *)

Candidate(c, from, r) ==
  /\ cand[c].pc = from
  /\ cand' = [cand EXCEPT ![c] = r]
  /\ UNCHANGED <<conf, eng, integ, gitVars, manifest>>

\* Running the test commands may leave files behind.
Leftovers == {{}, {"code"}}

\* Where a candidate goes after its baseline.
AfterBaseline(failure) ==
  IF failure THEN "capture" ELSE IF conf.mode = "regression" THEN "tests" ELSE "implement"

Baseline(c) ==
  /\ conf.commands => c \in wt
  /\ \E red \in BOOLEAN, extra \in Leftovers :
       LET failure == IF conf.commands THEN red ELSE conf.mode = "regression"
       IN  Candidate(c, "baseline",
             [cand[c] EXCEPT !.failure = failure,
                             !.tree = IF conf.commands THEN extra ELSE {},
                             !.pc = AfterBaseline(failure)])
  /\ UNCHANGED files

\* The worker writes a regression test only, and it must fail.
WriteTest(c) ==
  /\ c \in wt
  /\ \E t \in SUBSET {"test", "code"}, bad \in BOOLEAN, extra \in Leftovers :
       LET failure == bad \/ t # {"test"}
       IN  Candidate(c, "tests",
             [cand[c] EXCEPT !.failure = failure,
                             !.tree = IF failure THEN t ELSE t \cup extra,
                             !.pc = IF failure THEN "capture" ELSE "implement"])
  /\ UNCHANGED files

\* The worker may leave anything, and may fail or run out of time.
Implement(c) ==
  /\ c \in wt
  /\ \E t \in SUBSET {"test", "code"}, failure \in BOOLEAN :
       Candidate(c, "implement", [cand[c] EXCEPT !.failure = failure, !.tree = t,
                                                 !.pc = "capture"])
  /\ UNCHANGED files

\* git diff --check, capture_patch and the credential check; what is in the
\* worktree does not matter from here on.
CapturePatch(c) ==
  /\ c \in wt
  /\ \E bad \in BOOLEAN :
       Candidate(c, "capture",
         [cand[c] EXCEPT !.failure = @ \/ bad \/ cand[c].tree = {}, !.tree = {},
                         !.pc = "green"])
  /\ UNCHANGED files

\* The final tests of the candidate: one that runs while its worktree is
\* removed may still come to an end.
GreenTests(c) ==
  /\ \E red \in BOOLEAN :
       LET unproven == IF conf.commands THEN red ELSE conf.mode # "docs"
       IN  Candidate(c, "green", [cand[c] EXCEPT !.failure = @ \/ unproven, !.pc = "log"])
  /\ UNCHANGED files

WriteArtifact(c, kind, next) ==
  /\ Candidate(c, kind, [cand[c] EXCEPT !.pc = next,
                                        !.valid = (next = "done") /\ ~cand[c].failure])
  /\ files' = files \cup {<<kind, c>>}

WriteLog(c) == WriteArtifact(c, "log", "patch")
WritePatch(c) == WriteArtifact(c, "patch", "receipt")
WriteReceipt(c) == WriteArtifact(c, "receipt", "done")

\* A worktree that is gone, output that is no text, a test that times out
\* after it has printed something (git_worker.py:303): the thread raises.
CandidateRaises(c) ==
  /\ cand[c].pc \in Working
  /\ Candidate(c, cand[c].pc, [cand[c] EXCEPT !.pc = "raised"])
  /\ UNCHANGED files

CandidateNext(c) ==
  \/ Baseline(c) \/ WriteTest(c) \/ Implement(c) \/ CapturePatch(c) \/ GreenTests(c)
  \/ WriteLog(c) \/ WritePatch(c) \/ WriteReceipt(c) \/ CandidateRaises(c)

-----------------------------------------------------------------------------
(* The integrator, in a thread: it was told not to commit.                 *)

Integrate ==
  /\ integ = "running" /\ "final" \in wt
  /\ \E t \in SUBSET ({"edit", eng.base} \cup eng.parts), onBase \in BOOLEAN, n \in 0..1 :
       /\ tree' = t
       /\ head' = [ahead |-> n, onBase |-> onBase, has |-> IF n = 1 THEN t ELSE {}]
  /\ integ' = "done"
  /\ UNCHANGED <<conf, eng, cand, wt, branch, files, manifest>>

\* Bug: the integrator has no time-out, and its directory may be gone.
IntegratorHangs ==
  /\ integ = "running" /\ "final" \in wt
  /\ integ' = "failed"
  /\ UNCHANGED <<conf, eng, cand, gitVars, files, manifest>>

IntegratorFails ==
  /\ integ = "running"
  /\ integ' = "failed"
  /\ UNCHANGED <<conf, eng, cand, gitVars, files, manifest>>

-----------------------------------------------------------------------------
(* The engine.                                                             *)

Engine(from, r) ==
  /\ eng.pc = from
  /\ eng' = r
  /\ UNCHANGED <<conf, files>>

\* What git has made is noted in eng.worktrees (`self.worktrees`, and for
\* "final" also `self.final_branch`) when git worktree add has returned.
AddWorktree(c) ==
  /\ c \notin wt
  /\ Engine("prepare", [eng EXCEPT !.worktrees = @ \cup {c}])
  /\ wt' = wt \cup {c}
  /\ UNCHANGED <<cand, integ, branch, tree, head, manifest>>

\* git may fail late, be killed, or print what is no text: nothing is noted.
\* (A failure that leaves nothing behind is EngineRaises.)
AddWorktreeFails(c) ==
  /\ c \notin wt
  /\ Engine("prepare", [eng EXCEPT !.pc = "except", !.status = "failed"])
  /\ wt' = wt \cup {c}
  /\ UNCHANGED <<cand, integ, branch, tree, head, manifest>>

StartCandidates ==
  /\ wt = Cand
  /\ Engine("prepare", [eng EXCEPT !.pc = "gather"])
  /\ cand' = [c \in Cand |-> [cand[c] EXCEPT !.pc = "baseline"]]
  /\ UNCHANGED <<integ, gitVars, manifest>>

\* Bug: the candidates still at work are not waited for.
GatherFirst ==
  /\ Valid # {}
  /\ Engine("gather", [eng EXCEPT !.pc = "judge"])
  /\ UNCHANGED <<cand, integ, gitVars, manifest>>

\* asyncio.gather: all receipts are in, and some are valid.  (An exception
\* of one candidate, or no valid receipt, raises: EngineRaises.)
Gather ==
  /\ \A c \in Cand : cand[c].pc = "done"
  /\ Valid # {}
  /\ Engine("gather", [eng EXCEPT !.pc = "judge"])
  /\ UNCHANGED <<cand, integ, gitVars, manifest>>

\* Bug: components are not looked up among the valid candidates.
SelectUnchecked ==
  /\ \E base \in Valid : Engine("judge", [eng EXCEPT !.pc = "final", !.action = "integrate",
                                                     !.base = base, !.parts = {None}])
  /\ UNCHANGED <<cand, integ, gitVars, manifest>>

\* The verdict: a valid candidate as base, and for "integrate" components of
\* other valid ones.  The gate on contributions cannot stop it: a valid
\* receipt carries no risk, hence no conflict and no dependency, and the
\* base's contributions, one per criterion, cover the contract.
Select ==
  /\ \E base \in Valid, action \in {"select", "integrate"} :
     \E parts \in SUBSET (Valid \ {base}) :
       /\ action = "select" => parts = {}
       /\ Engine("judge", [eng EXCEPT !.pc = "final", !.action = action,
                                      !.base = base, !.parts = parts])
  /\ UNCHANGED <<cand, integ, gitVars, manifest>>

Reject ==
  /\ Engine("judge", [eng EXCEPT !.pc = "persist", !.status = "blocked"])
  /\ UNCHANGED <<cand, integ, gitVars, manifest>>

AddFinalWorktree ==
  /\ Engine("final", [eng EXCEPT !.pc = "apply", !.worktrees = @ \cup {"final"}])
  /\ wt' = wt \cup {"final"} /\ branch' = TRUE
  /\ UNCHANGED <<cand, integ, tree, head, manifest>>

\* git worktree add -b makes the branch first; when the checkout fails it takes
\* the worktree away again, if it still can, and never the branch.
AddFinalWorktreeFails ==
  /\ Engine("final", [eng EXCEPT !.pc = "except", !.status = "failed"])
  /\ wt' \in {wt, wt \cup {"final"}} /\ branch' = TRUE
  /\ UNCHANGED <<cand, integ, tree, head, manifest>>

ApplyBase ==
  /\ Engine("apply", [eng EXCEPT !.pc = IF eng.action = "integrate" THEN "integrate"
                                        ELSE "capture"])
  /\ tree' = {eng.base}
  /\ integ' = IF eng.action = "integrate" THEN "running" ELSE integ
  /\ UNCHANGED <<cand, wt, branch, head, manifest>>

Integrated ==
  /\ integ = "done"
  /\ Engine("integrate", [eng EXCEPT !.pc = "capture"])
  /\ UNCHANGED <<cand, integ, gitVars, manifest>>

\* git diff --check, the final patch against HEAD, the credential check.
CaptureFinal ==
  /\ Engine("capture", [eng EXCEPT !.pc = "tests", !.patch = tree \ head.has])
  /\ UNCHANGED <<cand, integ, gitVars, manifest>>

\* The final tests pass, and may leave files behind.
FinalTests ==
  /\ conf.commands \/ conf.docs
  /\ Engine("tests", [eng EXCEPT !.pc = "review", !.tested = TRUE])
  /\ \E litter \in SUBSET {"litter"} :
       tree' = IF conf.commands THEN tree \cup litter ELSE tree
  /\ UNCHANGED <<cand, integ, wt, branch, head, manifest>>

\* Without a test command only an explicit docs run goes on.
NoTests ==
  /\ ~conf.commands /\ ~conf.docs
  /\ Engine("tests", [eng EXCEPT !.pc = "persist", !.status = "blocked"])
  /\ UNCHANGED <<cand, integ, gitVars, manifest>>

Required == IF conf.high THEN 2 ELSE 1
Author == {FamilyOf[c] : c \in Cand \cap {eng.base}}
Excluded == {JudgeFamily} \cup Author \cup eng.reviewers

\* Bug: an earlier reviewer's family may review again.
ReviewAgain ==
  /\ \E f \in Family \ {JudgeFamily} :
       LET all == eng.reviewers \cup {f}
       IN  Engine("review", [eng EXCEPT !.reviewers = all,
             !.pc = IF Cardinality(all) = Required THEN "commit" ELSE "review"])
  /\ UNCHANGED <<cand, integ, gitVars, manifest>>

\* A reviewer of a family not excluded yet finds no blocker.
ReviewPasses ==
  /\ \E f \in Family \ Excluded :
       LET all == eng.reviewers \cup {f}
       IN  Engine("review", [eng EXCEPT !.reviewers = all,
             !.pc = IF Cardinality(all) = Required THEN "commit" ELSE "review"])
  /\ UNCHANGED <<cand, integ, gitVars, manifest>>

\* A reviewer finds a blocker, or no family is left.
ReviewBlocks ==
  /\ Engine("review", [eng EXCEPT !.pc = "persist", !.status = "blocked"])
  /\ UNCHANGED <<cand, integ, gitVars, manifest>>

\* git add -A and git commit, which fails when there is nothing to commit.
Commit ==
  /\ tree # head.has
  /\ Engine("commit", [eng EXCEPT !.pc = "check"])
  /\ head' = [head EXCEPT !.ahead = @ + 1, !.has = tree]
  /\ UNCHANGED <<cand, integ, wt, branch, tree, manifest>>

\* Bug: the commits above the base are counted, their parent is not looked at.
CheckCountOnly ==
  /\ head.ahead = 1
  /\ Engine("check", [eng EXCEPT !.pc = "complete", !.commit = TRUE])
  /\ UNCHANGED <<cand, integ, gitVars, manifest>>

\* Exactly one commit, on the base; the manifest in memory names it.
CheckCommit ==
  /\ head.ahead = 1 /\ head.onBase
  /\ Engine("check", [eng EXCEPT !.pc = "complete", !.commit = TRUE])
  /\ UNCHANGED <<cand, integ, gitVars, manifest>>

Complete ==
  /\ Engine("complete", [eng EXCEPT !.pc = "persist", !.status = "completed",
                                    !.kept = TRUE])
  /\ UNCHANGED <<cand, integ, gitVars, manifest>>

\* An exception or a cancellation in the body of `try`.
EngineRaises ==
  /\ eng.pc \in Trying
  /\ Engine(eng.pc, [eng EXCEPT !.pc = "except", !.status = "failed"])
  /\ UNCHANGED <<cand, integ, gitVars, manifest>>

\* persist_manifest: all of it, or only the manifest with the old seal, or
\* nothing, when something raises in it.
Saved(seal) == [status |-> eng.status, commit |-> eng.commit, seal |-> seal]

PersistWhole(from, next) ==
  /\ Engine(from, [eng EXCEPT !.pc = next])
  /\ manifest' = Saved(Artifacts)
  /\ UNCHANGED <<cand, integ, gitVars>>

PersistBreaks(from, r) ==
  /\ Engine(from, r)
  /\ manifest' \in {manifest, Saved(manifest.seal)}
  /\ UNCHANGED <<cand, integ, gitVars>>

Persist ==
  \/ PersistWhole("persist", "cleanup")
  \/ PersistBreaks("persist", [eng EXCEPT !.pc = "except", !.status = "failed"])

PersistFailure ==
  \/ PersistWhole("except", "cleanup")
  \/ PersistBreaks("except", [eng EXCEPT !.pc = "cleanup"])

\* Worktrees after cleanup, which knows those it has noted: git worktree remove
\* --force may fail where a thread is still at work.
Remaining == {left \cup (wt \ eng.worktrees) :
                left \in SUBSET {w \in wt \cap eng.worktrees : Live(w)}}

\* Bug: cleanup forgets the branch.
CleanupWorktreesOnly ==
  /\ Engine("cleanup", [eng EXCEPT !.pc = "close"])
  /\ wt' \in Remaining
  /\ UNCHANGED <<branch, cand, integ, tree, head, manifest>>

\* The branch goes too, unless it is to be kept, is checked out, which git
\* refuses, or was never noted.
Cleanup ==
  /\ Engine("cleanup", [eng EXCEPT !.pc = "close"])
  /\ wt' \in Remaining
  /\ branch' = (branch /\ (eng.kept \/ "final" \in wt' \/ "final" \notin eng.worktrees))
  /\ UNCHANGED <<cand, integ, tree, head, manifest>>

\* The last persist_manifest; without it the run is not sealed again.
PersistAgain ==
  \/ PersistWhole("close", "ended")
  \/ PersistBreaks("close", [eng EXCEPT !.pc = "aborted"])

EngineNext ==
  \/ \E c \in Cand : AddWorktree(c) \/ AddWorktreeFails(c)
  \/ StartCandidates \/ Gather \/ Select \/ Reject
  \/ AddFinalWorktree \/ AddFinalWorktreeFails \/ ApplyBase
  \/ Integrated \/ CaptureFinal \/ FinalTests \/ NoTests \/ ReviewPasses \/ ReviewBlocks
  \/ Commit \/ CheckCommit \/ Complete \/ EngineRaises
  \/ Persist \/ PersistFailure \/ Cleanup \/ PersistAgain

\* asyncio.run waits for the threads before the process ends.
Done == eng.pc \in Over /\ UNCHANGED vars

Next ==
  \/ EngineNext
  \/ \E c \in Cand : CandidateNext(c)
  \/ Integrate \/ IntegratorFails
  \/ Done

\* The event loop runs what is ready; every command a thread runs has a
\* time-out (worker_timeout).
Spec == Init /\ [][Next]_vars
FairSpec ==
  /\ Spec
  /\ WF_vars(EngineNext)
  /\ \A c \in Cand : WF_vars(CandidateNext(c))
  /\ WF_vars(Integrate \/ IntegratorFails)

-----------------------------------------------------------------------------
(* Properties.                                                             *)

TypeOK ==
  /\ conf \in Request
  /\ eng \in [pc : Trying \cup Over \cup {"persist", "except", "cleanup", "close"},
              status : Status, commit : BOOLEAN, kept : BOOLEAN,
              action : {"none", "select", "integrate"}, base : Cand \cup {None},
              parts : SUBSET Cand, patch : SUBSET (Cand \cup {"edit"}),
              tested : BOOLEAN, reviewers : SUBSET Family, worktrees : SUBSET Worktree]
  /\ cand \in [Cand -> [pc : Working \cup {"idle", "done", "raised"}, failure : BOOLEAN,
                        tree : SUBSET {"test", "code"}, valid : BOOLEAN]]
  /\ integ \in {"idle", "running", "done", "failed"}
  /\ wt \subseteq Worktree
  /\ branch \in BOOLEAN
  /\ tree \subseteq Cand \cup {"edit", "litter"}
  /\ head \in [ahead : 0..2, onBase : BOOLEAN, has : SUBSET (Cand \cup {"edit", "litter"})]
  /\ files \subseteq Written \X Cand
  /\ manifest.status \in Status /\ manifest.commit \in BOOLEAN
  /\ manifest.seal \subseteq (Written \X Cand) \cup {<<"worktree", w>> : w \in Worktree}

OneCommit == head.ahead = 1 /\ head.onBase /\ head.has # {}
Reviewed == /\ Cardinality(eng.reviewers) = Required
            /\ eng.reviewers \cap ({JudgeFamily} \cup Author) = {}

\* A manifest names a commit only if it is exactly one, on the base, built on
\* a candidate with a valid receipt, tested, and found free of blockers by as
\* many families as the risk asks for, none of them the judge's or the
\* author's; a completed run names one and has its branch
\* (git_worker.py:1690-1814).
CompletedIsSound ==
  /\ manifest.commit => OneCommit /\ Reviewed /\ eng.base \in Valid /\ eng.tested
  /\ manifest.status = "completed" => manifest.commit /\ branch

\* A branch that was noted outlives its run only if it carries the one commit,
\* or if an integrator that was still at work kept its worktree from being
\* removed.  One that git left behind when worktree add failed is never
\* deleted, but carries no commit (git_worker.py:886-924).
BranchAccounted ==
  eng.pc \in Over /\ branch =>
    IF "final" \in eng.worktrees
    THEN (eng.kept /\ OneCommit) \/ ("final" \in wt /\ integ # "idle")
    ELSE head.ahead = 0

\* A run that ends completed or blocked leaves no worktree, and nothing is
\* written after its last seal: the candidates are all over.  (A failed run
\* may be written to by candidates that survive it.)
QuietEnd ==
  eng.pc = "ended" /\ manifest.status \in {"completed", "blocked"} =>
    wt = {} /\ manifest.seal = Artifacts

\* Every run ends, whatever its workers do, and so do their threads.
RunEnds == <>[](eng.pc \in Over /\ \A w \in Worktree : ~Live(w))

\* src/README.md:422-428: the result that is tested and reviewed is what gets
\* committed.  `git add -A` also commits what the final tests left behind.
CommitIsReviewed == manifest.status = "completed" => head.has = eng.patch

=============================================================================
