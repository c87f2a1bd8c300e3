# Verification of Reason Assembly

Reason Assembly runs a council of language models over a question (`decide`, `review`,
`red-team`, `revisit`) or an implementation task (`implement`), keeps everything it did in
a run directory, and later learns from the outcome. This directory holds TLA+ modules
that model its state machines, TLC configurations that check them on small instances and
proofs that TLAPS checks for every instance. Line numbers refer to
`src/src/reason_assembly/` unless another path is given.

## 1. Inventory

| Component | State it keeps | Operations | Talks to | Hard behaviour |
|---|---|---|---|---|
| Run record (`artifacts.py`, `protocols.py` persist_manifest, `reason_assembly.py` outcome, `git_worker.py` apply_run) | the files of a run directory, `.run.lock` | write_json, append_event, write_transaction, seal_manifest, verify_integrity; persist_manifest; outcome; apply; regrade; replay | everything | several processes share the files; only two sections take the lock; crash between files |
| Taint (`v4.py` propagate_taint) | node flags, `taint-state.json` | one fixpoint | run record | cycles, order of the edge list, overwritten flags |
| Call budget (`transport.py`) | `CallBudget.used` | ensure_available, consume, ask with retries | proxy | concurrent coroutines, retries, cancellation |
| State stores (`state_compat.py`, `v4_state.py`, also inside `v4.py`, `reliability.py`) | one JSON file, one lock file each | initialize, write, locked_write | outcome, anchors, epochs | processes, crash, lock time-out |
| Anchors and epochs (`v4_state.py`) | `anchors.json`, `route-epochs.json` | import, retire, validate; current, record_anchor | state stores, selective judgment | overlapping imports from several processes, re-import after retirement |
| Reliability, co-failure (`reliability.py`, `v4.py`) | decayed counts | load, update, score; record, select_profile | routing, judging | decay lost at update |
| Council (`protocols.py` CouncilEngine) | manifest in memory, ledger, ballots | preflight, contract, proposals, verification, adaptive operations, judging | transport, routing, deliberation | budget reserve, quorum, late answers |
| Routing and quorum (`routing.py`) | tasks, deadline, results of one round | select_role_routes, gather_with_quorum, build_claim_ledger | council | the grace deadline races the answers |
| Deliberation and judging (`deliberation.py`, `v4.py`) | none | choose_operation, ranked_pairs, judgment_assessment, selective_judgment, finality_certificate | council | order effects, ties, thresholds |
| Verification (`verification.py`) | receipts | calculation, citation, test command | council | subprocess time-outs |
| Implementation (`git_worker.py`) | worktrees, branch, patches, receipts | workers, contributions, integration, final tests, reviews, commit, cleanup | git, workers | threads that cannot be cancelled; patch reviewed is not the tree committed; failure while saving; crash leaves worktrees |
| Catalogue (`catalogue_sync.py`, `transport.py` merge_catalogues) | proxy configuration, its lock, sync receipts | inspect, fetch pair (retried once), merge, prune aliases, report | proxy, every run that reads the catalogue | the authority was fetched before the lock; two payloads of two attempts; a lock that editors do not take; a crash while it is held |
| Command line (`reason_assembly.py`) | none | ask, status, outcome, regrade, replay, anchors, ... | all | regrade reads a parent unlocked; replay writes the manifest after the last seal |
| Contracts, signing, identity, observability, demo | none | types, sign/verify, wrappers | | |

What makes each of them correct:

- *Run record*: a verified seal never covers half an outcome; an aborted finality stays
  aborted; apply takes only what was clean; a regraded child is no way around an invalidation; learning happens once.
- *Taint*: exactly the reachable ids, explained, and the loop ends.
- *Budget*: bounded overshoot, bounded requests, every ask ends.
- *Stores*: atomic updates whatever is killed, and locks that are released. *Anchors*: never lost, never reworded,
  and a retired one stays retired.
- *Council*: what is certified has been verified, or has evidence and no opponent; a blocker
  is never lost; a risky verdict was validated by others, as it stands. *Implementation*: what is committed is what was reviewed and tested.
  *Judging*: independence of presentation order. *Reliability*: counts only decay or grow by
  what was observed. *Catalogue*: a candidate is pruned only if the gateway did not list it at some time since the
  synchronisation began, and never brought back; "ok" is true when it is said and stays true.

`PROJECT.json` lists every hazard at its line.

## 2. Modules

| Module | Models | How |
|---|---|---|
| `Genealogy` | the promise of propagate_taint | `Tainted(E, I)`: intersection of all closed supersets, no recursion |
| `TaintPropagation` | `v4.py` propagate_taint | one step per visited edge, per pass, and the return that overwrites the flags |
| `CallBudget` | CallBudget, ProxyTransport.ask | one step from await to await, since coroutines switch only there |
| `StoreCommands`, `AtomicStore` | what a state store promises, of any content and any mutators (`Effect`) | a command takes effect at one moment or fails |
| `StateStore` | flock_exclusive, PrivateJsonStore | one step per system call; refines `AtomicStore` |
| `AnchorStore` | AnchorStore.import_file and retire | what their mutators do, as the `Effect` of a `StateStore` |
| `CatalogueSync` | synchronize_catalogue, prune_smart_aliases, merge_catalogues | one step per attempt at the gateway, per lock, read and replace of the configuration |
| `RunRecord` | a run directory with its engine, replay, outcome, apply and regrade commands | one step per file written or read; extends `Genealogy` |
| `ImplementationPass` | ImplementationEngine.run, execute_candidate | one step per phase of a candidate, per await or git command of the engine |
| `QuorumRound` | gather_with_quorum, the end of CouncilEngine.hypotheses | one step from await to await, tasks beside it |
| `Council` | CouncilEngine.run with its ledger, policy, ballots, validation and certificate | one step per stage; what a model answers is a choice |
| `MCRunRecord` | TLC instance of `RunRecord` | a claim that feeds the verdict, a source that does not, an id outside the graph |
| `MCImplementation`, `MCQuorum`, `MCCouncil`, `MCAnchorStore` | TLC instances | two candidates and four requests; four calls of three families; five requests over one claim; three files of anchors |
| `...Proofs` | theorems | section 5 |

### RunRecord in detail

State and code: `art` is the set of artifacts that matter (verdict, certificate, taint,
genealogy, outcome, events, and whether the worktrees are still there), each a record or `None`; `manifest` is `manifest.json`, whose
`seal` stands for `artifact_hashes` by being the files themselves as they were hashed, so "the seal
verifies" is `manifest.seal = art`, and is `None` in a manifest that nobody has sealed; `lock` is `.run.lock`; `eng`, `out[o]`, `reader[p]` hold the
locals of each process that outlive a step (the manifest it loaded, the writes it still
has to make); `learned` records which outcomes fed which store. `early` is a
history variable: some outcome loaded the run while its engine was still working.

- *Engine.* It starts inside its first persist_manifest, where manifest.json is written and not sealed yet; when that is through,
  git_worker makes its worktrees (`AddWorktrees`) and the work begins, and when it fails there is only a failed, empty run
  (both calls stand before the `try`: `protocols.py` 2232, `git_worker.py` 1380). `Conclude` is the end of the work in either engine (verdict, event, status in
  memory), `DraftVerdict` the verdict that git_worker writes before it commits, `EngineFails` the
  `except` branch. `PersistReads`, `EngineWrites`, `EngineWritesManifest`, `EngineHashes`, `EngineSeals`,
  `EngineReloads` are persist_manifest; `AfterPersist` says who calls it again: git_worker does in
  `finally`, and any engine does after a failure. `PersistWrites` keeps the order of the
  code, which matters: certificate first, taint after.
- *Outcome.* `Load` (unlocked check), `ReadLineage` (unlocked reads), `Begin` ... `Commit`
  (write_transaction: locked check, one file after the other, manifest last), the events, `Learn` (one
  store at a time; the second needs verdict.json), `OutcomeHashes`, `OutcomeSeals`. The stores `calibration`,
  `cofailure` and `operation-effects` follow each other in the same way and are one.
- *Replay.* `RecordSubstitutions` is what the replay command does with the manifest that the engine handed back
  (`eng.result`): it is written once more, without a lock and without a new seal. git_worker builds its result before its
  `finally` removes the worktrees (`CleanUp`), which lie in the run directory and are hashed like any other file.
- *Apply.* Every check is a read of its own. `ApplyVerifies` refuses a seal that does not match the files, and lets a manifest pass that
  has none (`git_worker.py` 1853). The engine never leaves a judged run unsealed, but an outcome that had loaded the run before its
  first seal can put that manifest back. What apply then takes unverified is still sound (`ApplySound`): what decides is in
  verdict, certificate and taint, which it reads anyway; and it happens to `early` runs only (`UnsealedIsEarly`).
- *Regrade.* `RegradeLoads`, then the copies of certificate and verdict (`PreserveCertificate`, `PreserveVerdict`, in the
  order of their names), then both read again for the child's own (`ViewVerdict`, `ViewCertificate`). Nothing
  of it looks at the lock, the seal or the status. The child is new, so that what it says is all that matters of it.
- *Crash* and *time-outs* can hit wherever a process stands. A crash frees the lock because
  flock belongs to the process.

`QuietIntegrity` excepts two replays whose last write leaves a seal that does not verify: any implementation's, since the
manifest that is written back was sealed with the worktrees, and any whose outcome came before the replay's end. Of an early
regrade, `RegradeHonest` says only that it contradicts itself if the engine was at work or an outcome came between.

Abstractions: rollout-card.json and the other artifacts never decide anything here and are left out
of `art`; they change only together with files that are in it. verify_integrity and the hashing inside seal_manifest are one step. Events carry
only their kind and author. A write of one file is atomic (temporary file and rename, `artifacts.py`
187-201). `KeyboardInterrupt` inside persist_manifest and I/O errors other than lock
time-outs are not modelled. What the engine finds (tainted nodes, unresolved claims) and
what an outcome invalidates are chosen from small sets; of a certificate's ingredients only the
verdict's finality, the unresolved claims and the kind of task are kept, because
a selective judgment that abstains has already aborted the verdict (`protocols.py` 2714-2717).

### StateStore and AnchorStore in detail

`CreateTemp`, `WriteTemp` and `Publish` are the three steps of a write, and each may raise, as chmod may after the
publication: `WriteFails` is the handler at `v4_state.py` 38-40 or the `finally` at 57 and 68, which unlinks the temporary
file, and the release of the lock. A kill inside the handler is a `Crash` before it. `Tidy` says whether the store has such a
handler for its updates: PrivateJsonStore and ReliabilityStore have, CoFailureStore.record has not (`v4.py` 211-220). That the
unlink itself succeeds is assumed.


A row has a text (task, expected answer and the other fields an import gives), whether it is active, and its digest, which
is the pair of the two: `digest` covers the whole body and is injective for what matters. `Merge` is the mutator of import_file,
all or nothing, `Retire` that of retire. parse_jsonl refuses a file whose digests are wrong or that names an id twice, so an import
is a function from ids to signed rows (`AnchorAssumption`). `write` is a locked_write whose mutator
ignores what it reads. list and validate only read.

### CatalogueSync in detail

`listed` and `described` are what the two endpoints of the gateway would answer now, `config` the candidates of each alias
in the proxy's configuration, `sync[p]` the locals of one synchronize_catalogue. `since[p]` is history: which ids were
not listed, were listed, were described at some time since `p` began, and whether the file was edited since `p` read it.

- *Fetching.* `Inspect` reads the aliases for the report; `Fetch` is an attempt with both GETs, each of which
  may fail. The second attempt's answers replace the first's one by one, so the two payloads may come from
  different times. Both GETs of an attempt are one step: a change of the gateway between them looks to the process like
  a change before each. A `200` without a list of models reads as an empty catalogue in the code; here it is a
  gateway that lists nothing.
- *Choosing.* `Build` is merge_catalogues with its second try without metadata; `Eligible` keeps of its rules that an id has to be
  listed and described (the others only exclude more).
- *Pruning.* `Lock` (flock, without a limit), `Parse`, `NothingMissing` or `Replace` (os.replace) and `Verify`. `Refuse` is
  every exception in between, from text that is not YAML and candidates on one line to a file that is not found to be what was
  written; it leaves a warning, not a failure. `CannotLock` is one before the lock.
- *Report.* The status, and the receipts, whose failure degrades an "ok".
- *Surroundings.* `GatewayChanges`, and `Edit` by somebody who does not know the lock. `Crash` at any place.

Not modelled: how text edits are computed, owner and mode of the file, the roles of a capability, an exception of the
builder's second try (it ends the command before anything is written). A temporary file that a killed process leaves has a name of its own.

### ImplementationPass in detail

`eng` holds the locals of ImplementationEngine.run that outlive a step (status and commit of the
manifest in memory, `keep_final`, the verdict's base and components, the final patch, the families
that have reviewed); `cand[c]` is the thread of execute_candidate and its receipt; `integ` the
integrator's thread; `wt`, `branch`, `tree`, `head` what git holds; `files` what candidates wrote into the run
directory; `manifest` the file. The content of a worktree is the set of changes in it.

- *Candidates.* `Baseline`, `WriteTest` (regression mode only), `Implement`, `CapturePatch`, `GreenTests`, then
  the three writes. A failure is noted and the thread goes on to capture its patch, as in the code; a raise
  (`CandidateRaises`) ends it without a receipt. Threads survive the engine: `EngineRaises` can hit while they
  work, and what they write afterwards lands in a run that is already sealed.
- *Engine.* `Select` chooses any valid base and any other valid candidates as components: the judge's ballots are
  arbitrary. The gate on contributions (`git_worker.py` 1500-1524) is part of it; it has no case of its own
  because a valid receipt has no risks, so its contributions conflict with nothing and depend on nothing.
  `FinalTests` may leave litter in the worktree, `Commit` is `git add -A` and `git commit`.
- *Endings.* `Persist`, `PersistFailure` and `PersistAgain` are the three calls of persist_manifest; each may
  stop before manifest.json, or between manifest.json and the seal. `Cleanup` removes the worktrees, save
  those with a live thread, which it may or may not; git refuses to delete a branch that is checked out.

- *Worktrees.* Cleanup knows those that were noted (`eng.worktrees`), and of the branch only with the final one. `git worktree add`
  may fail without an effect (`EngineRaises`), or late: `AddWorktreeFails` leaves a worktree, `AddFinalWorktreeFails` the branch, which
  `-b` makes before the checkout, with or without its worktree, and neither is noted (`git_worker.py` 876-884, 888-898).

Abstractions: git commands on an idle worktree do not fail in cleanup. `tree = {}` after `CapturePatch` only forgets what no later step
looks at. What `FinalTests` raises on (red tests) is `EngineRaises`. A kill of the process is not
modelled here: nothing in the code would pick the run up again.

### Council in detail

The run of one engine is sequential: its calls are concurrent only inside one round (`QuorumRound`), so
a step is a stage. `left` is remaining_calls(); `stance` counts, for each claim, the labels that
support, oppose or doubt it; `ledger` is the ClaimLedger with its blockers named by what raised them;
`receipts` the verification receipts; `votes` the ballots cast; `validation` what validate_high_risk has so
far; `verdict` how the run ended.

- *Hypotheses.* `AddHypotheses` lets new labels say anything of any claim and builds the ledger again, as
  build_claim_ledger does: from hypotheses alone, receipts left out.
- *Operations.* `ColdStart` is choose_operation's list of rules, `Operations` adds that a learned operation
  replaces it. Every operation is an action: `Escalate`, `Suffice`, `Verify`, `Defend`, `Sample`, `SampleNobody`,
  `AnalyseRisk`, `Criticise`.
- *Judging.* `Mirror`, `Tiebreak`, `Adapt`, `ClosePair` cast ballots, `Skip` goes on without; the final ballot is
  not always one of those that agree. `Diagnose` merges the blockers and adds its own.
- *Validation and verdict.* `Validate`, `Revise`, `Object`; `Finish` is ballot_verdict, selective_judgment and
  finality_certificate; `Fail` can hit at any stage.

Abstractions: labels of one claim are counted to one (two for supporters, since one is a minority). Which claims
a ballot accepts, its scores, confidence, collapse of approaches, health of a verifier and the judge's reliability
are free choices. `calibrated` says that a threshold exists; the score itself never keeps a verdict from being
final in the code. The operations `stop` and `pairwise_compare` are `direct_judgment` here: they end the
deliberation alike. Calls that a repaired answer costs are in the model (`Repairs`), and switched off
in the runs.

## 3. Runs

| Run | Instance | States | Shows |
|---|---|---|---|
| `run_record` | council and its replay, 2 outcomes, 1 crash, ids in and outside the graph | 3.57 M | `TypeOK`, `SealedMeansCoherent`, `QuietIntegrity`, `LearnedOnce`, `OutcomeFinal` |
| `apply_record` | implementation and its replay, 1 outcome that invalidates the claim, 1 apply or regrade, 1 crash | 4.81 M | `ApplySound`, `RegradeHonest`, `NeverUpgraded` |
| `call_budget` | 3 callers, ceiling 2, 2 attempts, 2 asks each | 106 k | overshoot, requests, `AsksEnd` |
| `state_store` | 3 imports of overlapping files, 1 retirement, 1 initialise, any failing write, any crash | 242 k | `IsAtomic`, `RetiredStaysRetired`, `CommandsEnd` |
| `catalogue` | 2 synchronisations, 2 models, 1 alias, 1 change of the gateway, 1 edit, any crash | 626 k | `PrunesOnlyMissing`, `OkMeansPruned`, `SelectsOnlyListed`, `SyncsEnd` |
| `implementation` | 2 candidates of 2 families, a judge's and a free family; 4 requests | 291 k | `CompletedIsSound`, `BranchAccounted`, `QuietEnd`, `RunEnds` |
| `commit_reviewed` | the same | violation | `CommitIsReviewed` fails |
| `quorum` | 4 calls of 3 families | 1.6 k | `Accounted`, `CancelledAfterQuorum`, `GraceEnds` |
| `council` | 2 seats and an alternate, 12 calls, 2 operations, 1 claim, 5 requests | 3.36 M | `CertifiedIsSupported`, `VetoHolds`, `ValidatedByOthers`, `FalsifiedEntryHolds`, `BlockersStand` |
| `falsified_certified` | the same, 1 operation (the budget `quick`) | violation | `FalsifiedNeverCertified` fails |
| `cold_start` | budget `quick`, a risky request with one command, a claim that cannot be tested | violation | `ColdStartNeedsEvidence` fails |
| `taint` | every list of up to 3 edges over 3 ids, 2 of them nodes; any initial ids and old flags | 150 k | closure, explanation, termination |

Why the bounds are enough. *Outcomes*: two, since a third could only meet a fence that is
already there; `run_record` uses symmetry between them, sound because the model treats them alike and
checks no liveness. *Crashes*: one, at every place, so that each half-written state meets every
later reader; two crashes leave nobody to read. *Genealogy*: one edge to the verdict and one
node that does not reach it are the two cases the run record tells apart; the fixpoint over
larger graphs is `taint`'s matter. *Calls*: three callers and a ceiling of two give
overshoot with and without a caller that is refused. *Anchors*: two files agree on an anchor, two disagree on another, and one anchor is retired between, before
or after its imports. *Catalogue*: two synchronisations can hold different lists, the older one prune last, and either wait for
the other; two models let one list add what the other drops; one change falls anywhere, so also between the attempts and
before the lock, and a second would only be seen by a third fetch; one edit can come before, between or after the two.
*Edges*: three edges hold a two-cycle with an
entry, a chain listed backwards (three passes) and duplicates. *Candidates*: two, so that one can fail or
be slow while the other is done, and an integration has a base and a component. *Families*: the judge's, one
per candidate and one more: a risky request that selects `a` has two families left for two
reviews, exactly enough. *Requests*: with and without test commands, the three modes, docs asked for or
inferred, high and ordinary risk. *Calls of a round*: two routes of one family and two others, so that two answers need
not be a quorum. *Council*: one claim that can be contested, tested and cited meets all operations (a claim without evidence or
tests would only let other rules of the policy lead to the same operations); two
operations, as in `standard`, let a verification be followed by one that builds the ledger again; two seats and twelve
calls, as in `quick`, are tight enough for the reserve and for running out (the two are mixed to keep the state space
small, the counterexamples use `quick` throughout); one alternate route is used up by the second `sample`. The proofs do not depend on any of this.
`CHECK_DEADLOCK FALSE`: every program here ends, and its end is a state without steps.

(`ImplementationPass` has an explicit step at its end instead, and TLC checks deadlock there.)
Deadlock freedom of the others is covered by `AsksEnd`, `CommandsEnd`, `SyncsEnd` and `GraceEnds`.

### Findings

- `commit_reviewed`: the final patch is captured and checked before the final tests run, and reviewed
  after them; `git add -A` then commits what the tests left in the worktree too (`git_worker.py` 1631, 1633, 1739,
  against the order of `src/README.md` 422-428).
- `falsified_certified`: every operation that adds hypotheses builds the ledger again from the hypotheses alone
  (`protocols.py` 2482, 2502, 2527) and so forgets what receipts had falsified; a claim that nobody opposes and that
  cites evidence then passes as structurally supported, against `references/protocol.md` 143-144.
- `cold_start`: a risky run without calibration is certified when its only receipt is about no load-bearing claim, a
  failed command for instance (`protocols.py` 2664-2684), against `src/README.md` 112 and `v4.py` 474.

More was seen while modelling and is not kept as a run of its own:

- An outcome recorded while the engine is still saving (nothing looks at the run's status) invalidates lineage that the
  verdict never learns of, and a second outcome is refused (`reason_assembly.py` 843, against `src/README.md`
  558-560). It is the exception `early` of `ApplySound`, `RegradeHonest`, `SealedMeansCoherent` and `QuietIntegrity`.
- The replay of an implementation ends with a seal that does not verify, because record_substitutions (`reason_assembly.py` 664-669)
  writes back a manifest sealed while the worktrees existed; apply refuses such a run. `QuietIntegrity` excepts it.
- apply refuses a seal that does not match but accepts a manifest without one (`git_worker.py` 1853), so an outcome recorded while the
  first seal is outstanding can switch the verification off by writing the unsealed manifest back; see `ApplyVerifies` above.
- A `git worktree add -b` that fails after it has made the branch raises before the branch is noted, and no cleanup deletes it
  (`git_worker.py` 888-898, 915): a failed run leaves a branch at its base commit. `BranchAccounted` says that it is no more than that.
- A CoFailureStore.record whose write fails leaves its temporary file (`v4.py` 211-220); the other stores unlink theirs. `NoOrphans` has both.
- An edit of the proxy's configuration between the read and the os.replace of a synchronisation is lost, since editors do not take
  its lock (`catalogue_sync.py` 435, 394); one right after os.replace makes the prune that has happened report a failure.
- A run whose taint reaches the verdict keeps a certificate that grants its finality (`protocols.py` 447-448 come before
  548); `ApplySound` shows that apply is not misled, because it reads three files.
- The ceiling of calls bounds what is charged, not what is answered; `OvershootBounded` says by how much.

## 4. Fairness

`RunRecord` states no fairness: its properties say what must never happen, and no process has to do
anything. `CallBudget` has weak fairness on the steps of each caller but not on
starting an ask, nor on cancelling: the HTTP client has a time-out and delays are finite, so a
suspended coroutine is resumed. `StateStore` has it on each process' own steps, not on
`Crash`: a process that is alive goes on, and flock_exclusive polls for ten seconds and then
fails. `CatalogueSync` has it on each process' own steps, not on the gateway, the editor or `Crash`: a GET ends by the client's
time-out, flock waits, and no exception has to end that wait (`CannotLock` is not fair), but whoever holds the lock goes on and releases it or is killed. `TaintPropagation` is one sequential loop. `ImplementationPass` has it on the
engine, on each candidate's thread and on the integrator, because every command they run has a time-out
(`worker_timeout`); that a thread ends at all is what `RunEnds` adds to the engine's end, since asyncio.run
waits for its executor. `QuorumRound` has it on the coroutine, on the deadline and on tasks that were
cancelled, but not on answers: `GraceEnds` holds though a call never returns.

## 5. Proofs

TLAPS checks, for all values of the constants under their assumptions:

| Module | Theorems | Argument |
|---|---|---|
| `TaintPropagationProofs` | `TypeCorrect`, `Correct`, `Explained` | only reachable ids are ever added (each is in every closed superset), and as long as `changed` is false the edges already visited are closed; so at the return the set is closed and contained in the closure |
| `CallBudgetProofs` | `TypeCorrect`, `ChargedWithinCap`, `Overshoot`, `Posts` | when the last charge is made its caller leaves; from then on no ask begins, so dropped answers and callers in flight together only shrink; requests of an ask are its attempts plus at most one repack |
| `StateStoreProofs` | `TypeCorrect`, `NoOrphans`, `Refinement`, `RetirementIsFinal` | mutual exclusion makes the data read the data on disk until it is published; `Publish` maps to `TakeEffect`, a raise, a failing write, a time-out or a crash before it to `Fail`, everything else stutters. `NoOrphans`: a temporary file is only there between its creation and the handler or `finally` that unlinks it. All that for any content and mutators; for anchors the step that publishes is then the effect of an import or a retirement on what is on disk, and the digest of a row tells whether it was retired |
| `CatalogueSyncProofs` | `TypeCorrect`, `OkIsPruned`, `SelectionIsListed`, `PruningIsExact` | `Told`: an answer that a process keeps was the gateway's at some time since it began; `Knows`: what it has read under the lock is what the file says until somebody edits it; `EditedInv`: an edit after the read was also after the end of all who had pruned before |
| `RunRecordProofs` | `TypeCorrect`, `LearnsOnce`, `OutcomeIsFinal`, `RunNeverUpgraded`, `QuietRunIsSealed`, `SealedIsCoherent`, `CommitIsJudged`, `UnsealedIsEarly`, `ApplyIsSound`, `RegradeIsHonest` | one lemma per step; `.run.lock` is held exactly inside the two critical sections. `Fence`: a command in its transaction is either still armed (outcome.json absent, its first write outstanding) or the author of outcome.json; `LearnedOnce` alone is not inductive, since it does not say who may learn next. The other invariants are described below |
| `QuorumProofs` | `TypeCorrect`, `AllAccounted`, `QuorumBeforeCancel` | what the coroutine holds is what the tasks it no longer waits for have become; a deadline exists only after the quorum |
| `CouncilProofs` | `TypeCorrect`, `OnlySupportedCertified`, `FalsifiedEntryNotCertified`, `VetoNeverLost`, `OthersValidated`, `BlockersNeverDropped` | `Sound`: an unresolved load-bearing claim is flagged, and one that is shown as falsified blocks or is still unresolved. Over it, one small invariant per theorem: `SupportInv` (the diagnosis names what is missing and nothing after it changes the ledger), `VetoInv`, `ValidationInv` (who passed, passed the present verdict), `DeliberationInv` (before judging only hypotheses and falsifications block, so a ledger built again has all blockers but the latter). `Stages` keeps the cases few: until the diagnosis no step touches verdict or validation |
| `ImplementationProofs` | `TypeCorrect`, `CompletedSound`, `NoStrayBranch`, `SealedQuietly` | `IInv`: `Threads` (from the verdict on only the engine and, at its turn, the integrator are at work, unless the engine failed), `Stages` (what each place in the code has achieved), `Recorded` (memory runs ahead of the file, never behind), `Closing`; beside it `Noted` (a worktree or branch that was not noted is the trace of a failure, and carries nothing). The properties alone are not inductive: they speak of the file and of the end, not of how the engine got there |

### The run record's invariants

Each is inductive together with the ones before it, for any number of outcome, apply and regrade commands, any
genealogy, any findings and invalidations, and any number of crashes:

- `Lineage` (for `NeverUpgraded`). The properties fail to be inductive because writes are computed from reads that
  may be old when they reach the disk. `Files` says how the files agree at every moment, complete or not: a
  certificate leaves open at least what the verdict does, an empty taint means that the engine found none, the genealogy comes
  last. `EnginePending` and `OutcomePending` say of every write that is still outstanding that it will keep this so.
  A pending verdict is either the first judgement or an abort, which is why no late write can upgrade.
- `QuietInv` (for `QuietIntegrity`). `WillSeal`: some process still has to seal the run, or ended badly and never will.
  `LastSeal`: if none will, then the seal on disk, or the one being written under the lock, is of the files as they are.
  `Alone`: an outcome is `early` or waits for the end of the engine. `CouncilResult`: what a council hands back to replay is
  what it sealed.
- `Sealed` (for `SealedMeansCoherent`). `Progress`: each file that must tell of an invalidation tells of it or is still
  to be written by the command that holds the fence. `SealOK`: any copy of the manifest, on disk or in the
  memory of any process, whose seal covers outcome.json was taken after that command's transaction; the engine and the
  commands write back old copies, so this must be said of all of them.
- `Commits` (for `CommitIsJudged`). A copy of the manifest with a commit exists on disk or in memory only once the genealogy is
  written, or in the engine that still has to write it.
- `Fresh` (for `UnsealedIsEarly`). An unsealed copy of the manifest, on disk or in any memory, is an early outcome's, or the engine
  has not gone to work or never will.
- `ApplyInv`, `RegradeInv` (for `ApplySound`, `RegradeHonest`). What each unlocked read told the command stays true while the
  others act (`Steady`): files move only onward, an invalidation on disk is not taken back, and once the transaction
  of an outcome is over nobody changes the four files any more (`FilesSettled`).

TLC checked all of them on the instances of `run_record` and `apply_record` before they were proved.
`NeverUpgraded`, unlike the others, makes no exception for `early` runs.

### Assumptions, and what is only model-checked

Assumptions are the named `ASSUME`s of the modules: names that do not clash (a file that is absent has no content), edges between nodes,
a positive ceiling. The number of processes and crashes is arbitrary (the callers of a
budget are finitely many).

Every safety invariant and every action property that a passing run checks is thus a theorem. Only model-checked is liveness
(`AsksEnd`, `CommandsEnd`, `SyncsEnd`, `Terminates`, `RunEnds`, `GraceEnds`): fairness and ENABLED are out of the prover's
reach. The three runs that expect a violation are counterexamples, which only TLC gives.

## 6. Plan

Done: the run record with its taint, its replay and its readers, the budget and the stores, which carry the guarantees the
rest relies on; the anchors; the catalogue; the implementation pass; the quorum; the council; the proofs of all their safety properties. Next, in order of what could hurt most:

1. `Judging`: implementation ballots (`git_worker.py` judge_candidates), and ranked_pairs and
   judgment_assessment as operators against reference definitions; no recursion.
2. The council over the promises of `CallBudget` and `QuorumRound`, with the reserve of mandatory calls: what
   keeps an adaptive operation from spending them, and where a verification or a learned operation may.
3. `Reliability`: load, update and score as mutators of `StateStore` with counts instead of floats, and the age that
   an update forgets (`reliability.py` 424).

### Not modelled

Route epochs (`v4_state.py` 175-225): current and record_anchor are one locked_write each that adds a row or sets a field, with
no rule beyond what `StateStore` shows. Signing (`signing.py`): no command calls it. How claims are verified, secret redaction and
evidence packing: text and subprocesses without shared state. Reliability, co-failure and calibration: arithmetic on floats;
the stores they are kept in are modelled, what they weigh is a free choice in `Council`. Contracts: types. Observability, demo,
identity, worker backends and wrappers: no state of their own.
