------------------------ MODULE ImplementationProofs ------------------------
(***************************************************************************)
(* The safety properties of ImplementationPass, for every set of requests, *)
(* candidates and families.  The inductive invariant has five parts: who   *)
(* may still be at work (Threads), what each place in the engine's code    *)
(* has achieved (Stages), what the record says (Recorded), what the end    *)
(* leaves behind (Closing), and which of it cleanup knows of (Noted).      *)
(***************************************************************************)
EXTENDS ImplementationPass, TLAPS

BeforeFinal == {"prepare", "gather", "judge", "final", "apply"}
Judged == {"final", "apply", "integrate", "capture", "tests", "review", "commit",
           "check", "complete"}
Branched == Judged \ {"final"}
Unwinding == {"except", "cleanup", "close", "ended", "aborted"}
Good == {"completed", "blocked"}
AllDone == \A c \in Cand : cand[c].pc = "done"
Undisputed == eng.reviewers \cap ({JudgeFamily} \cup Author) = {}

\* A valid receipt is a candidate's last word.  Nobody but the engine works
\* from the verdict on, save the integrator when it is its turn, and those
\* that a failed engine has left behind.
Threads ==
  /\ \A c \in Cand : cand[c].valid => cand[c].pc = "done"
  /\ eng.pc = "prepare" => \A c \in Cand : cand[c].pc = "idle"
  /\ eng.pc \in Judged \cup {"judge", "persist"} \/ eng.status \in Good => AllDone
  /\ eng.pc \in BeforeFinal => integ = "idle"
  /\ integ = "running" => /\ eng.pc \in {"integrate"} \cup Unwinding
                          /\ ~eng.commit /\ eng.status \notin Good /\ eng.base \in Cand
  /\ head.has \subseteq tree
  /\ eng.pc \in BeforeFinal => head.has = {}

Stages ==
  /\ eng.pc \in Judged => eng.base \in Valid
  /\ eng.pc \in Branched => branch
  /\ eng.pc \in {"review", "commit", "check", "complete"} => eng.tested
  /\ eng.pc \in Trying \ {"review", "commit", "check", "complete"} => eng.reviewers = {}
  /\ eng.pc = "review" => Undisputed
  /\ eng.pc \in {"commit", "check", "complete"} => Reviewed
  /\ eng.pc = "check" => head.has # {}
  /\ eng.pc = "complete" => eng.commit
  /\ eng.pc \in Trying => eng.status = "running" /\ ~eng.kept
  /\ eng.pc = "persist" => eng.status \in Good
  /\ eng.pc \in Trying \ {"complete"} => ~eng.commit
  /\ eng.pc \in Trying \ {"check", "complete"} => head.ahead <= 1
  /\ eng.pc \in {"integrate", "capture"} => "litter" \notin tree

Recorded ==
  /\ eng.commit => OneCommit /\ Reviewed /\ eng.base \in Valid /\ eng.tested
  /\ eng.kept => eng.commit /\ branch
  /\ eng.status = "completed" => eng.kept
  /\ manifest.commit => eng.commit
  /\ manifest.status = "completed" => eng.kept /\ manifest.commit

Closing ==
  /\ eng.pc \in {"close"} \cup Over /\ branch =>
       eng.kept \/ ("final" \in wt /\ integ # "idle") \/ "final" \notin eng.worktrees
  /\ eng.pc \in {"close", "ended"} /\ eng.status \in Good => wt = {}
  /\ eng.pc = "ended" => manifest.status = eng.status
  /\ eng.pc = "ended" /\ eng.status \in Good => manifest.seal = Artifacts

\* A worktree that was not noted is the trace of a failure, and nobody works in
\* a final worktree that was not.
Noted ==
  /\ eng.status # "failed" => wt \subseteq eng.worktrees
  /\ eng.pc \in Branched => "final" \in eng.worktrees
  /\ "final" \notin eng.worktrees => integ = "idle" /\ head.ahead = 0

IInv == TypeOK /\ Threads /\ Stages /\ Recorded /\ Closing

-----------------------------------------------------------------------------

LEMMA InitInv == Init => IInv
<1> SUFFICES ASSUME Init PROVE IInv
  OBVIOUS
<1>1. TypeOK
  <2>1. eng \in [pc : Trying, status : Status, commit : BOOLEAN, kept : BOOLEAN,
                 action : {"none"}, base : {None}, parts : {{}}, patch : {{}},
                 tested : BOOLEAN, reviewers : {{}}, worktrees : {{}}]
    BY DEF Init, Trying, Status
  <2>2. cand \in [Cand -> [pc : {"idle"}, failure : BOOLEAN, tree : {{}}, valid : BOOLEAN]]
    BY DEF Init
  <2>3. head \in [ahead : 0..2, onBase : BOOLEAN, has : {{}}]
    BY DEF Init
  <2>4. /\ conf \in Request /\ integ = "idle" /\ wt = {} /\ branch = FALSE /\ tree = {}
        /\ files = {} /\ manifest.status \in Status /\ manifest.commit \in BOOLEAN
        /\ manifest.seal = {}
    BY DEF Init, Status
  <2> QED BY <2>1, <2>2, <2>3, <2>4 DEF TypeOK
<1>2. Threads
  BY DEF Init, Threads, Judged, BeforeFinal, Good
<1>3. Stages
  BY DEF Init, Stages, Judged, Branched, Trying
<1>4. Recorded
  BY DEF Init, Recorded
<1>5. Closing
  BY DEF Init, Closing, Over
<1> QED BY <1>1, <1>2, <1>3, <1>4, <1>5 DEF IInv

-----------------------------------------------------------------------------
(* The threads.                                                            *)

\* A candidate's step changes its own state and adds artifacts: the rest of
\* the invariant is not disturbed, because a candidate that can step is not
\* done, and so the engine relies on nothing.
LEMMA CandidateStep ==
  ASSUME IInv, NEW c \in Cand, NEW r,
         r \in [pc : Working \cup {"idle", "done", "raised"}, failure : BOOLEAN,
                tree : SUBSET {"test", "code"}, valid : BOOLEAN],
         cand[c].pc \in Working, cand' = [cand EXCEPT ![c] = r],
         r.valid => r.pc = "done",
         files' \subseteq Written \X Cand,
         UNCHANGED <<conf, eng, integ, gitVars, manifest>>
  PROVE  IInv'
<1>1. UNCHANGED <<conf, eng, integ, wt, branch, tree, head, manifest>>
  BY DEF gitVars
<1>2. TypeOK'
  BY <1>1 DEF IInv, TypeOK
<1>3. /\ cand'[c] = r /\ \A d \in Cand : d # c => cand'[d] = cand[d]
  BY DEF IInv, TypeOK
<1>4. ~AllDone /\ eng.pc # "prepare" /\ ~cand[c].valid
  BY DEF IInv, Threads, AllDone, Working
<1>5. Valid \subseteq Valid'
  BY <1>3, <1>4 DEF Valid
<1>6. Threads'
  BY <1>1, <1>3, <1>4 DEF IInv, Threads
<1>7. Required' = Required /\ Author' = Author
  BY <1>1 DEF Required, Author
<1>8. Stages'
  BY <1>1, <1>5, <1>7 DEF IInv, Stages, Undisputed, Reviewed
<1>9. Recorded'
  BY <1>1, <1>5, <1>7 DEF IInv, Recorded, OneCommit, Reviewed
<1>10. Closing'
  <2>1. eng.status \notin Good
    BY <1>4 DEF IInv, Threads
  <2> QED BY <1>1, <2>1 DEF IInv, Closing
<1> QED BY <1>2, <1>6, <1>8, <1>9, <1>10 DEF IInv

LEMMA CandidateInv ==
  ASSUME IInv, NEW c \in Cand, CandidateNext(c)
  PROVE  IInv'
<1> DEFINE S == [pc : Working \cup {"idle", "done", "raised"}, failure : BOOLEAN,
                 tree : SUBSET {"test", "code"}, valid : BOOLEAN]
<1>1. /\ cand[c] \in S /\ (cand[c].valid => cand[c].pc = "done")
      /\ files \subseteq Written \X Cand
  BY DEF IInv, TypeOK, Threads
<1>2. ASSUME NEW r \in S, NEW from \in Working, Candidate(c, from, r),
             r.valid => r.pc = "done", files' \subseteq Written \X Cand
      PROVE  IInv'
  BY <1>2, CandidateStep DEF Candidate
<1>3. ASSUME NEW p \in Working \cup {"raised"}, NEW from \in Working,
             NEW f \in BOOLEAN, NEW t \in SUBSET {"test", "code"},
             Candidate(c, from, [cand[c] EXCEPT !.failure = f, !.tree = t, !.pc = p]),
             UNCHANGED files
      PROVE  IInv'
  <2> DEFINE r == [cand[c] EXCEPT !.failure = f, !.tree = t, !.pc = p]
  <2>1. cand[c].pc \in Working
    BY <1>3 DEF Candidate
  <2>2. r \in S /\ ~r.valid
    BY <1>1, <2>1 DEF Working
  <2>3. Candidate(c, from, r)
    BY <1>3
  <2> HIDE DEF r, S
  <2> QED BY <1>1, <1>2, <1>3, <2>2, <2>3
<1> HIDE DEF S
<1>4. CASE Baseline(c)
  <2>1. PICK red \in BOOLEAN, extra \in Leftovers :
          LET failure == IF conf.commands THEN red ELSE conf.mode = "regression"
          IN  Candidate(c, "baseline",
                [cand[c] EXCEPT !.failure = failure,
                                !.tree = IF conf.commands THEN extra ELSE {},
                                !.pc = AfterBaseline(failure)])
    BY <1>4 DEF Baseline
  <2> DEFINE f == IF conf.commands THEN red ELSE conf.mode = "regression"
             t == IF conf.commands THEN extra ELSE {}
  <2>2. /\ f \in BOOLEAN /\ t \in SUBSET {"test", "code"}
        /\ AfterBaseline(f) \in Working \cup {"raised"} /\ "baseline" \in Working
    BY DEF AfterBaseline, Working, Leftovers
  <2>3. Candidate(c, "baseline", [cand[c] EXCEPT !.failure = f, !.tree = t,
                                                 !.pc = AfterBaseline(f)])
    BY <2>1
  <2> HIDE DEF f, t
  <2> QED BY <1>3, <1>4, <2>2, <2>3 DEF Baseline
<1>5. CASE WriteTest(c)
  <2>1. PICK u \in SUBSET {"test", "code"}, bad \in BOOLEAN, extra \in Leftovers :
          LET failure == bad \/ u # {"test"}
          IN  Candidate(c, "tests",
                [cand[c] EXCEPT !.failure = failure,
                                !.tree = IF failure THEN u ELSE u \cup extra,
                                !.pc = IF failure THEN "capture" ELSE "implement"])
    BY <1>5 DEF WriteTest
  <2> DEFINE f == bad \/ u # {"test"}
             t == IF f THEN u ELSE u \cup extra
             p == IF f THEN "capture" ELSE "implement"
  <2>2. /\ f \in BOOLEAN /\ t \in SUBSET {"test", "code"}
        /\ p \in Working \cup {"raised"} /\ "tests" \in Working
    BY DEF Working, Leftovers
  <2>3. Candidate(c, "tests", [cand[c] EXCEPT !.failure = f, !.tree = t, !.pc = p])
    BY <2>1, SMTT(30)
  <2> HIDE DEF f, t, p
  <2> QED BY <1>3, <1>5, <2>2, <2>3 DEF WriteTest
<1>6. CASE Implement(c)
  BY <1>3, <1>6 DEF Implement, Working
<1>7. CASE CapturePatch(c)
  <2>1. PICK bad \in BOOLEAN :
          Candidate(c, "capture",
            [cand[c] EXCEPT !.failure = cand[c].failure \/ bad \/ cand[c].tree = {},
                            !.tree = {}, !.pc = "green"])
    BY <1>7 DEF CapturePatch
  <2> DEFINE f == cand[c].failure \/ bad \/ cand[c].tree = {}
  <2>2. /\ f \in BOOLEAN /\ "green" \in Working \cup {"raised"} /\ "capture" \in Working
        /\ {} \in SUBSET {"test", "code"} /\ UNCHANGED files
    BY <1>7 DEF Working, CapturePatch
  <2>3. Candidate(c, "capture", [cand[c] EXCEPT !.failure = f, !.tree = {}, !.pc = "green"])
    BY <2>1
  <2> HIDE DEF f
  <2> QED BY <1>3, <2>2, <2>3
<1>8. CASE GreenTests(c) \/ CandidateRaises(c)
  <2>1. PICK f \in BOOLEAN, p \in {"log", "raised"} :
          /\ cand[c].pc \in Working /\ UNCHANGED files
          /\ \/ Candidate(c, "green", [cand[c] EXCEPT !.failure = f, !.pc = p])
             \/ Candidate(c, cand[c].pc, [cand[c] EXCEPT !.pc = p])
    <3>1. CASE GreenTests(c)
      <4>1. PICK red \in BOOLEAN :
              Candidate(c, "green",
                [cand[c] EXCEPT !.failure = cand[c].failure \/
                                   (IF conf.commands THEN red ELSE conf.mode # "docs"),
                                !.pc = "log"])
        BY <3>1 DEF GreenTests
      <4> DEFINE f == cand[c].failure \/ (IF conf.commands THEN red ELSE conf.mode # "docs")
      <4>2. f \in BOOLEAN /\ cand[c].pc \in Working /\ UNCHANGED files
        BY <3>1, <4>1 DEF Candidate, Working, GreenTests
      <4>3. Candidate(c, "green", [cand[c] EXCEPT !.failure = f, !.pc = "log"])
        BY <4>1
      <4> HIDE DEF f
      <4> QED BY <4>2, <4>3
    <3>2. CASE CandidateRaises(c)
      BY <3>2 DEF CandidateRaises
    <3> QED BY <1>8, <3>1, <3>2
  <2>2. \A r \in {[cand[c] EXCEPT !.failure = f, !.pc = p], [cand[c] EXCEPT !.pc = p]} :
           r \in S /\ ~r.valid
    BY <1>1, <2>1 DEF S, Working
  <2>3. "green" \in Working
    BY DEF Working
  <2> QED BY <1>1, <1>2, <2>1, <2>2, <2>3
<1>9. CASE WriteLog(c) \/ WritePatch(c) \/ WriteReceipt(c)
  <2>1. PICK kind \in Written, next \in {"patch", "receipt", "done"} :
          WriteArtifact(c, kind, next)
    BY <1>9 DEF WriteLog, WritePatch, WriteReceipt, Written
  <2> DEFINE v == (next = "done") /\ ~cand[c].failure
             r == [cand[c] EXCEPT !.pc = next, !.valid = v]
  <2>2. v \in BOOLEAN /\ (v => next = "done")
    OBVIOUS
  <2> HIDE DEF v
  <2>3. r \in S /\ (r.valid => r.pc = "done")
    BY <1>1, <2>1, <2>2 DEF S, Working
  <2>4. Candidate(c, kind, r) /\ files' \subseteq Written \X Cand /\ kind \in Working
    BY <1>1, <2>1 DEF WriteArtifact, Working, Written, v
  <2> HIDE DEF r
  <2> QED BY <1>2, <2>3, <2>4
<1> QED BY <1>4, <1>5, <1>6, <1>7, <1>8, <1>9 DEF CandidateNext

-----------------------------------------------------------------------------
(* The integrator.                                                         *)

LEMMA IntegratorInv ==
  ASSUME IInv, Integrate \/ IntegratorFails
  PROVE  IInv'
<1>1. /\ integ = "running" /\ integ' \in {"done", "failed"}
      /\ UNCHANGED <<conf, eng, cand, wt, branch, files, manifest>>
  BY DEF Integrate, IntegratorFails, gitVars
<1>2. /\ eng.pc \in {"integrate"} \cup Unwinding /\ ~eng.commit /\ eng.status \notin Good
      /\ eng.base \in Cand
  BY <1>1 DEF IInv, Threads
<1>3. /\ tree' \subseteq Cand \cup {"edit", "litter"} /\ head'.has \subseteq tree'
      /\ head' \in [ahead : 0..2, onBase : BOOLEAN, has : SUBSET (Cand \cup {"edit", "litter"})]
      /\ eng.pc = "integrate" => head'.ahead <= 1 /\ "litter" \notin tree'
  <2>1. CASE Integrate
    <3>1. PICK t \in SUBSET ({"edit", eng.base} \cup eng.parts), onBase \in BOOLEAN,
               n \in 0..1 :
            /\ tree' = t
            /\ head' = [ahead |-> n, onBase |-> onBase, has |-> IF n = 1 THEN t ELSE {}]
      BY <2>1 DEF Integrate
    <3>2. eng.parts \subseteq Cand
      BY DEF IInv, TypeOK
    <3> QED BY <1>2, <3>1, <3>2, CandAssumption
  <2>2. CASE IntegratorFails
    BY <1>2, <2>2 DEF IntegratorFails, gitVars, IInv, TypeOK, Threads, Stages, Trying
  <2> QED BY <2>1, <2>2
<1>4. TypeOK'
  BY <1>1, <1>3 DEF IInv, TypeOK
<1>5. Threads'
  BY <1>1, <1>2, <1>3 DEF IInv, Threads, BeforeFinal, Judged, AllDone, Unwinding
<1>6. Valid' = Valid /\ Required' = Required /\ Author' = Author
  BY <1>1 DEF Valid, Required, Author
<1>7. Stages'
  BY <1>1, <1>2, <1>3, <1>6
  DEF IInv, Stages, Undisputed, Reviewed, Unwinding, Trying, Judged, Branched
<1>8. Recorded'
  BY <1>1, <1>2, <1>6 DEF IInv, Recorded
<1>9. Closing'
  BY <1>1 DEF IInv, Closing, Artifacts
<1> QED BY <1>4, <1>5, <1>7, <1>8, <1>9 DEF IInv

-----------------------------------------------------------------------------
(* The engine.                                                             *)

EngineState ==
  [pc : Trying \cup Over \cup {"persist", "except", "cleanup", "close"},
   status : Status, commit : BOOLEAN, kept : BOOLEAN,
   action : {"none", "select", "integrate"}, base : Cand \cup {None},
   parts : SUBSET Cand, patch : SUBSET (Cand \cup {"edit"}),
   tested : BOOLEAN, reviewers : SUBSET Family, worktrees : SUBSET Worktree]

\* A step of the body of `try` that moves only the engine's own state.
LEMMA TryStep ==
  ASSUME IInv, eng' \in EngineState, eng.pc \in Trying,
         eng'.pc \in (Trying \ {"prepare"}) \cup {"persist", "except"},
         UNCHANGED <<conf, files, cand, integ, gitVars, manifest>>,
         eng'.pc \in Judged \cup {"judge", "persist"} \/ eng'.status \in Good => AllDone,
         integ = "running" => /\ eng'.pc = "except" /\ eng'.status = "failed"
                              /\ ~eng'.commit /\ eng'.base = eng.base,
         eng'.pc \in BeforeFinal => eng.pc \in BeforeFinal,
         Stages',
         eng.commit => eng'.commit,
         eng'.commit => OneCommit /\ Reviewed' /\ eng'.base \in Valid /\ eng'.tested,
         eng'.kept => eng'.commit /\ branch,
         eng'.status = "completed" => eng'.kept
  PROVE  IInv'
<1>1. UNCHANGED <<conf, files, cand, integ, wt, branch, tree, head, manifest>>
  BY DEF gitVars
<1>2. TypeOK'
  BY <1>1 DEF IInv, TypeOK, EngineState
<1>3. Threads'
  BY <1>1 DEF IInv, Threads, AllDone, Good, Unwinding
<1>4. OneCommit' = OneCommit /\ Valid' = Valid
  BY <1>1 DEF OneCommit, Valid
<1>5. ~eng.kept
  BY DEF IInv, Stages
<1>6. Recorded'
  BY <1>1, <1>4, <1>5 DEF IInv, Recorded
<1>7. Closing'
  BY DEF Closing, Trying, Over
<1> QED BY <1>2, <1>3, <1>6, <1>7 DEF IInv

LEMMA TryStepsInv ==
  ASSUME IInv,
         Gather \/ Select \/ Reject \/ Integrated \/ CaptureFinal \/ NoTests
           \/ ReviewPasses \/ ReviewBlocks \/ CheckCommit \/ Complete \/ EngineRaises
  PROVE  IInv'
<1>1. /\ eng \in EngineState /\ tree \subseteq Cand \cup {"edit", "litter"}
      /\ head.has \in SUBSET (Cand \cup {"edit", "litter"})
  BY DEF IInv, TypeOK, EngineState
<1>2. UNCHANGED <<conf, files, cand, integ, wt, branch, tree, head, manifest>>
  BY DEF gitVars, Engine, Gather, Select, Reject, Integrated, CaptureFinal, NoTests,
         ReviewPasses, ReviewBlocks, CheckCommit, Complete, EngineRaises
<1>3. Valid' = Valid /\ Required' = Required
  BY <1>2 DEF Valid, Required
<1>4. eng'.base = eng.base => Author' = Author
  BY DEF Author
<1>5. CASE Gather
  <2>1. eng.pc = "gather" /\ eng' = [eng EXCEPT !.pc = "judge"] /\ AllDone
    BY <1>5 DEF Gather, Engine, AllDone
  <2>2. eng' \in EngineState /\ eng'.pc = "judge"
    BY <1>1, <2>1 DEF EngineState, Trying
  <2>3. Stages'
    BY <1>1, <1>2, <2>1, <2>2 DEF IInv, Stages, EngineState, Judged, Branched, Trying
  <2> QED BY <1>1, <1>2, <2>1, <2>2, <2>3, TryStep
          DEF IInv, Threads, Stages, Recorded, EngineState, Trying, BeforeFinal, Good, gitVars
<1>6. CASE Select
  <2>1. PICK base \in Valid, action \in {"select", "integrate"},
             parts \in SUBSET Valid :
          /\ eng.pc = "judge"
          /\ eng' = [eng EXCEPT !.pc = "final", !.action = action, !.base = base, !.parts = parts]
    BY <1>6 DEF Select, Engine
  <2>2. /\ eng' \in EngineState /\ eng'.pc = "final" /\ eng'.base \in Valid
        /\ eng'.status = eng.status /\ eng'.commit = eng.commit /\ eng'.kept = eng.kept
        /\ eng'.reviewers = eng.reviewers
    BY <1>1, <2>1 DEF EngineState, Trying, Valid
  <2>3. Stages'
    BY <1>2, <1>3, <2>1, <2>2 DEF IInv, Stages, Judged, Branched, Trying
  <2> QED BY <1>2, <2>1, <2>2, <2>3, TryStep
          DEF IInv, Threads, Stages, Recorded, Trying, BeforeFinal, Good, gitVars, Judged
<1>7. CASE Reject \/ NoTests \/ ReviewBlocks
  <2>1. /\ eng.pc \in {"judge", "tests", "review"}
        /\ eng' = [eng EXCEPT !.pc = "persist", !.status = "blocked"]
    BY <1>7 DEF Reject, NoTests, ReviewBlocks, Engine
  <2>2. /\ eng' \in EngineState /\ eng'.pc = "persist" /\ eng'.status = "blocked"
        /\ eng'.commit = eng.commit /\ eng'.kept = eng.kept
    BY <1>1, <2>1 DEF EngineState, Status
  <2>3. Stages'
    BY <2>2 DEF Stages, Judged, Branched, Trying, Good
  <2> QED BY <1>2, <2>1, <2>2, <2>3, TryStep
          DEF IInv, Threads, Stages, Recorded, Trying, BeforeFinal, Good, gitVars, Judged, Unwinding
<1>8. CASE Integrated
  <2>1. eng.pc = "integrate" /\ eng' = [eng EXCEPT !.pc = "capture"] /\ integ = "done"
    BY <1>8 DEF Integrated, Engine
  <2>2. /\ eng' \in EngineState /\ eng'.pc = "capture"
        /\ \A f \in DOMAIN eng \ {"pc"} : eng'[f] = eng[f]
    BY <1>1, <2>1 DEF EngineState, Trying
  <2>3. Stages'
    BY <1>1, <1>2, <1>3, <2>1, <2>2 DEF IInv, Stages, EngineState, Judged, Branched, Trying
  <2> QED BY <1>1, <1>2, <2>1, <2>2, <2>3, TryStep
          DEF IInv, Threads, Stages, Recorded, EngineState, Trying, BeforeFinal, Good, gitVars, Judged
<1>9. CASE CaptureFinal
  <2>1. eng.pc = "capture" /\ eng' = [eng EXCEPT !.pc = "tests", !.patch = tree \ head.has]
    BY <1>9 DEF CaptureFinal, Engine
  <2>2. /\ eng' \in EngineState /\ eng'.pc = "tests"
        /\ \A f \in DOMAIN eng \ {"pc", "patch"} : eng'[f] = eng[f]
    <3>1. tree \ head.has \in SUBSET (Cand \cup {"edit"})
      BY <1>1, <2>1 DEF IInv, Stages
    <3> QED BY <1>1, <2>1, <3>1 DEF EngineState, Trying
  <2>3. Stages'
    BY <1>1, <1>2, <1>3, <2>1, <2>2 DEF IInv, Stages, EngineState, Judged, Branched, Trying
  <2> QED BY <1>1, <1>2, <2>1, <2>2, <2>3, TryStep
          DEF IInv, Threads, Stages, Recorded, EngineState, Trying, BeforeFinal, Good, gitVars, Judged, Unwinding
<1>10. CASE ReviewPasses
  <2>1. PICK f \in Family \ Excluded :
          /\ eng.pc = "review"
          /\ eng' = [eng EXCEPT !.reviewers = eng.reviewers \cup {f},
                       !.pc = IF Cardinality(eng.reviewers \cup {f}) = Required
                              THEN "commit" ELSE "review"]
    BY <1>10 DEF ReviewPasses, Engine
  <2>2. /\ eng' \in EngineState /\ eng'.pc \in {"commit", "review"}
        /\ eng'.pc = "commit" => Cardinality(eng'.reviewers) = Required
        /\ eng'.reviewers = eng.reviewers \cup {f}
        /\ \A g \in DOMAIN eng \ {"pc", "reviewers"} : eng'[g] = eng[g]
    <3>1. eng.reviewers \cup {f} \in SUBSET Family
      BY <1>1 DEF EngineState
    <3> QED BY <1>1, <2>1, <3>1 DEF EngineState, Trying
  <2>3. Author' = Author /\ Undisputed
    BY <1>1, <1>4, <2>1, <2>2 DEF IInv, Stages, EngineState
  <2>4. Undisputed' /\ (eng'.pc = "commit" => Reviewed')
    BY <1>3, <2>2, <2>3 DEF Undisputed, Excluded, Reviewed
  <2>5. Stages'
    BY <1>1, <1>2, <1>3, <2>1, <2>2, <2>4 DEF IInv, Stages, EngineState, Judged, Branched, Trying
  <2> QED BY <1>1, <1>2, <2>1, <2>2, <2>5, TryStep
          DEF IInv, Threads, Stages, Recorded, EngineState, Trying, BeforeFinal, Good, gitVars, Judged, Unwinding
<1>11. CASE CheckCommit
  <2>1. /\ eng.pc = "check" /\ eng' = [eng EXCEPT !.pc = "complete", !.commit = TRUE]
        /\ head.ahead = 1 /\ head.onBase
    BY <1>11 DEF CheckCommit, Engine
  <2>2. /\ eng' \in EngineState /\ eng'.pc = "complete" /\ eng'.commit
        /\ \A f \in DOMAIN eng \ {"pc", "commit"} : eng'[f] = eng[f]
    BY <1>1, <2>1 DEF EngineState, Trying
  <2>3. Reviewed' /\ OneCommit
    BY <1>1, <1>3, <1>4, <2>1, <2>2
    DEF IInv, Stages, EngineState, Reviewed, OneCommit
  <2>4. Stages'
    BY <1>1, <1>2, <1>3, <2>1, <2>2, <2>3 DEF IInv, Stages, EngineState, Judged, Branched, Trying
  <2> QED BY <1>1, <1>2, <2>1, <2>2, <2>3, <2>4, TryStep
          DEF IInv, Threads, Stages, Recorded, EngineState, Trying, BeforeFinal, Good, gitVars, Judged, Branched, Unwinding
<1>12. CASE Complete
  <2>1. /\ eng.pc = "complete"
        /\ eng' = [eng EXCEPT !.pc = "persist", !.status = "completed", !.kept = TRUE]
    BY <1>12 DEF Complete, Engine
  <2>2. /\ eng' \in EngineState /\ eng'.pc = "persist" /\ eng'.status = "completed"
        /\ \A f \in DOMAIN eng \ {"pc", "status", "kept"} : eng'[f] = eng[f]
    BY <1>1, <2>1 DEF EngineState, Status
  <2>3. Reviewed' = Reviewed
    BY <1>1, <1>3, <1>4, <2>2 DEF EngineState, Reviewed
  <2>4. Stages'
    BY <2>2 DEF Stages, Judged, Branched, Trying, Good
  <2> QED BY <1>1, <1>2, <2>1, <2>2, <2>3, <2>4, TryStep
          DEF IInv, Threads, Stages, Recorded, EngineState, Trying, BeforeFinal, Good, gitVars, Judged, Branched, Unwinding
<1>13. CASE EngineRaises
  <2>1. eng.pc \in Trying /\ eng' = [eng EXCEPT !.pc = "except", !.status = "failed"]
    BY <1>13 DEF EngineRaises, Engine
  <2>2. /\ eng' \in EngineState /\ eng'.pc = "except" /\ eng'.status = "failed"
        /\ \A f \in DOMAIN eng \ {"pc", "status"} : eng'[f] = eng[f]
    BY <1>1, <2>1 DEF EngineState, Status
  <2>3. Reviewed' = Reviewed
    BY <1>1, <1>3, <1>4, <2>2 DEF EngineState, Reviewed
  <2>4. Stages'
    BY <2>2 DEF Stages, Judged, Branched, Trying, Good
  <2> QED BY <1>1, <1>2, <2>1, <2>2, <2>3, <2>4, TryStep
          DEF IInv, Threads, Stages, Recorded, EngineState, Trying, BeforeFinal, Good, gitVars, Judged, Branched, Unwinding
<1> QED BY <1>5, <1>6, <1>7, <1>8, <1>9, <1>10, <1>11, <1>12, <1>13

\* The steps before the verdict and the ones that write the final worktree.
LEMMA WorktreeStepsInv ==
  ASSUME IInv,
         (\E c \in Cand : AddWorktree(c)) \/ StartCandidates \/ AddFinalWorktree
           \/ ApplyBase \/ FinalTests \/ Commit
  PROVE  IInv'
<1>1. /\ eng \in EngineState /\ tree \subseteq Cand \cup {"edit", "litter"}
      /\ wt \subseteq Worktree
      /\ head \in [ahead : 0..2, onBase : BOOLEAN, has : SUBSET (Cand \cup {"edit", "litter"})]
      /\ cand \in [Cand -> [pc : Working \cup {"idle", "done", "raised"}, failure : BOOLEAN,
                            tree : SUBSET {"test", "code"}, valid : BOOLEAN]]
  BY DEF IInv, TypeOK, EngineState
<1>2. UNCHANGED <<conf, files, manifest>>
  BY DEF Engine, AddWorktree, StartCandidates, AddFinalWorktree, ApplyBase, FinalTests, Commit
<1>3. CASE \E c \in Cand : AddWorktree(c)
  <2>1. PICK c \in Cand :
          /\ eng' = [eng EXCEPT !.worktrees = eng.worktrees \cup {c}]
          /\ eng.pc = "prepare" /\ wt' \subseteq Worktree
          /\ UNCHANGED <<cand, integ, branch, tree, head>>
    BY <1>1, <1>3 DEF AddWorktree, Engine, Worktree
  <2> DEFINE r == [eng EXCEPT !.worktrees = eng.worktrees \cup {c}]
  <2>8. r \in EngineState /\ \A g \in DOMAIN eng \ {"worktrees"} : r[g] = eng[g]
    BY <1>1 DEF EngineState, Worktree
  <2> HIDE DEF r
  <2>9. /\ eng' \in EngineState /\ eng'.pc = eng.pc /\ eng'.status = eng.status
        /\ eng'.commit = eng.commit /\ eng'.kept = eng.kept /\ eng'.base = eng.base
        /\ eng'.tested = eng.tested /\ eng'.reviewers = eng.reviewers
    BY <1>1, <2>1, <2>8 DEF EngineState, r
  <2>2. TypeOK'
    BY <1>2, <2>1, <2>9 DEF IInv, TypeOK, EngineState
  <2>3. Threads'
    BY <2>1, <2>9 DEF IInv, Threads, AllDone
  <2>4. Valid' = Valid /\ Required' = Required /\ Author' = Author /\ OneCommit' = OneCommit
    BY <1>2, <2>1, <2>9 DEF Valid, Required, Author, OneCommit
  <2>5. Stages'
    BY <2>1, <2>4, <2>9 DEF IInv, Stages, Undisputed, Reviewed
  <2>6. Recorded'
    BY <1>2, <2>1, <2>4, <2>9 DEF IInv, Recorded, Reviewed
  <2>7. Closing'
    BY <2>1, <2>9 DEF Closing, Over
  <2> QED BY <2>2, <2>3, <2>5, <2>6, <2>7 DEF IInv
<1>4. CASE StartCandidates
  <2>1. /\ eng.pc = "prepare" /\ eng' = [eng EXCEPT !.pc = "gather"]
        /\ cand' = [c \in Cand |-> [cand[c] EXCEPT !.pc = "baseline"]]
        /\ UNCHANGED <<integ, wt, branch, tree, head>>
    BY <1>4 DEF StartCandidates, Engine, gitVars
  <2>2. /\ eng' \in EngineState /\ eng'.pc = "gather" /\ eng'.status = eng.status
        /\ eng'.commit = eng.commit /\ eng'.kept = eng.kept /\ eng'.reviewers = eng.reviewers
    BY <1>1, <2>1 DEF EngineState, Trying
  <2>3. /\ eng.status = "running" /\ ~eng.kept /\ ~eng.commit /\ eng.reviewers = {}
        /\ head.ahead <= 1 /\ ~manifest.commit /\ manifest.status # "completed"
    BY <2>1 DEF IInv, Stages, Recorded, Trying
  <2>4. TypeOK'
    <3>1. cand' \in [Cand -> [pc : Working \cup {"idle", "done", "raised"}, failure : BOOLEAN,
                              tree : SUBSET {"test", "code"}, valid : BOOLEAN]]
      BY <1>1, <2>1 DEF Working
    <3> QED BY <1>2, <2>1, <2>2, <3>1 DEF IInv, TypeOK, EngineState
  <2>5. Threads'
    <3>1. \A c \in Cand : ~cand[c].valid
      BY <2>1 DEF IInv, Threads
    <3>2. \A c \in Cand : ~cand'[c].valid
      BY <1>1, <2>1, <3>1
    <3> QED BY <2>1, <2>2, <2>3, <3>2 DEF IInv, Threads, BeforeFinal, Judged, Good
  <2>6. Stages'
    BY <2>1, <2>2, <2>3 DEF Stages, Judged, Branched, Trying
  <2>7. Recorded'
    BY <1>2, <2>2, <2>3 DEF Recorded
  <2>8. Closing'
    BY <2>2 DEF Closing, Over
  <2> QED BY <2>4, <2>5, <2>6, <2>7, <2>8 DEF IInv
<1>5. CASE AddFinalWorktree \/ ApplyBase \/ FinalTests \/ Commit
  <2>1. /\ cand' = cand /\ eng.pc \in {"final", "apply", "tests", "commit"}
        /\ eng'.pc \in {"apply", "integrate", "capture", "review", "check"}
        /\ eng' \in EngineState
        /\ eng'.status = eng.status /\ eng'.commit = eng.commit /\ eng'.kept = eng.kept
        /\ eng'.reviewers = eng.reviewers /\ eng'.base = eng.base
        /\ eng.tested => eng'.tested
    <3>1. PICK to \in {"apply", "integrate", "capture", "review", "check"} :
            eng' \in {[eng EXCEPT !.pc = to], [eng EXCEPT !.pc = to, !.tested = TRUE],
                      [eng EXCEPT !.pc = to, !.worktrees = eng.worktrees \cup {"final"}]}
      BY <1>5 DEF AddFinalWorktree, ApplyBase, FinalTests, Commit, Engine
    <3>2. cand' = cand /\ eng.pc \in {"final", "apply", "tests", "commit"}
      BY <1>5 DEF AddFinalWorktree, ApplyBase, FinalTests, Commit, Engine
    <3>3. to \in Trying
      BY DEF Trying
    <3>4. CASE eng' = [eng EXCEPT !.pc = to]
      BY <1>1, <3>2, <3>3, <3>4 DEF EngineState
    <3>5. CASE eng' = [eng EXCEPT !.pc = to, !.tested = TRUE]
      BY <1>1, <3>2, <3>3, <3>5 DEF EngineState
    <3>6. CASE eng' = [eng EXCEPT !.pc = to, !.worktrees = eng.worktrees \cup {"final"}]
      <4>1. eng.worktrees \cup {"final"} \in SUBSET Worktree
        BY <1>1 DEF EngineState, Worktree
      <4> QED BY <1>1, <3>2, <3>3, <3>6, <4>1 DEF EngineState
    <3> QED BY <3>1, <3>4, <3>5, <3>6
  <2>2. /\ eng.status = "running" /\ ~eng.kept /\ ~eng.commit /\ eng.base \in Valid
        /\ head.ahead <= 1 /\ ~manifest.commit /\ manifest.status # "completed"
        /\ AllDone /\ head.has \subseteq tree /\ integ # "running"
    BY <2>1 DEF IInv, Stages, Recorded, Trying, Threads, Judged, Unwinding
  <2>3. Valid' = Valid /\ Required' = Required /\ Author' = Author /\ AllDone' = AllDone
    BY <1>2, <2>1 DEF Valid, Required, Author, AllDone
  <2>4. eng.base \in Cand
    BY <2>2 DEF Valid
  <2>5. /\ integ' \in {"idle", "running", "done", "failed"}
        /\ integ' = "running" => eng'.pc = "integrate"
        /\ wt' \subseteq Worktree /\ branch' \in BOOLEAN /\ branch'
        /\ tree' \subseteq Cand \cup {"edit", "litter"} /\ head'.has \subseteq tree'
        /\ eng'.pc \in {"integrate", "capture"} => "litter" \notin tree'
        /\ head' \in [ahead : 0..2, onBase : BOOLEAN, has : SUBSET (Cand \cup {"edit", "litter"})]
        /\ eng'.pc # "check" => head'.ahead <= 1
        /\ eng'.pc = "apply" => integ' = "idle" /\ head'.has = {}
    <3>1. CASE AddFinalWorktree
      BY <1>1, <2>1, <2>2, <3>1
      DEF AddFinalWorktree, Engine, IInv, TypeOK, Threads, BeforeFinal, Worktree
    <3>2. CASE ApplyBase
      <4>1. /\ eng.pc = "apply" /\ tree' = {eng.base} /\ UNCHANGED <<wt, branch, head>>
            /\ integ' = IF eng.action = "integrate" THEN "running" ELSE integ
            /\ eng'.pc = IF eng.action = "integrate" THEN "integrate" ELSE "capture"
        BY <1>1, <3>2 DEF ApplyBase, Engine, EngineState
      <4>2. integ = "idle" /\ head.has = {} /\ branch
        BY <4>1 DEF IInv, Threads, Stages, BeforeFinal, Branched, Judged
      <4> QED BY <1>1, <2>2, <2>4, <4>1, <4>2, CandAssumption DEF IInv, TypeOK
    <3>3. CASE FinalTests
      <4>1. /\ eng.pc = "tests" /\ UNCHANGED <<wt, branch, head, integ>>
            /\ tree \subseteq tree' /\ tree' \subseteq tree \cup {"litter"}
            /\ eng'.pc = "review"
        BY <1>1, <3>3 DEF FinalTests, Engine, EngineState
      <4>2. branch
        BY <4>1 DEF IInv, Stages, Branched, Judged
      <4> QED BY <1>1, <2>2, <4>1, <4>2 DEF IInv, TypeOK
    <3>4. CASE Commit
      <4>1. /\ eng.pc = "commit" /\ UNCHANGED <<wt, branch, tree, integ>>
            /\ head' = [head EXCEPT !.ahead = head.ahead + 1, !.has = tree]
            /\ eng'.pc = "check"
        BY <1>1, <3>4 DEF Commit, Engine, EngineState
      <4>2. branch
        BY <4>1 DEF IInv, Stages, Branched, Judged
      <4>3. head.ahead + 1 \in 0..2
        BY <1>1, <2>2
      <4>4. head' \in [ahead : 0..2, onBase : BOOLEAN, has : SUBSET (Cand \cup {"edit", "litter"})]
        BY <1>1, <4>1, <4>3
      <4> QED BY <1>1, <2>2, <4>1, <4>2, <4>4 DEF IInv, TypeOK
    <3> QED BY <1>5, <3>1, <3>2, <3>3, <3>4
  <2>6. TypeOK'
    BY <1>2, <2>1, <2>5 DEF IInv, TypeOK, EngineState
  <2>7. Threads'
    BY <2>1, <2>2, <2>3, <2>4, <2>5 DEF IInv, Threads, BeforeFinal, Judged, Good
  <2>8. /\ eng'.pc = "review" => eng'.tested /\ Undisputed'
        /\ eng'.pc = "check" => Reviewed' /\ head'.has # {} /\ eng'.tested
    <3>1. CASE FinalTests
      <4>1. eng.reviewers = {} /\ eng'.tested /\ eng'.pc = "review"
        BY <1>1, <3>1 DEF FinalTests, Engine, EngineState, IInv, Stages, Trying
      <4> QED BY <2>1, <4>1 DEF Undisputed
    <3>2. CASE Commit
      <4>1. /\ tree # head.has /\ head'.has = tree /\ Reviewed /\ eng.tested
            /\ eng'.pc = "check"
        BY <1>1, <3>2 DEF Commit, Engine, EngineState, IInv, Stages
      <4> QED BY <2>1, <2>2, <2>3, <4>1 DEF Reviewed
    <3>3. CASE AddFinalWorktree \/ ApplyBase
      BY <1>1, <3>3 DEF AddFinalWorktree, ApplyBase, Engine, EngineState
    <3> QED BY <1>5, <3>1, <3>2, <3>3
  <2>9. eng'.pc \in {"apply", "integrate", "capture"} => eng'.reviewers = {}
    <3>1. eng.pc \in {"final", "apply"} => eng.reviewers = {}
      BY DEF IInv, Stages, Trying
    <3>2. eng'.pc \in {"apply", "integrate", "capture"} => eng.pc \in {"final", "apply"}
      <4>1. CASE AddFinalWorktree \/ ApplyBase
        BY <4>1 DEF AddFinalWorktree, ApplyBase, Engine
      <4>2. CASE FinalTests
        BY <1>1, <4>2 DEF EngineState, FinalTests, Engine
      <4>3. CASE Commit
        BY <1>1, <4>3 DEF EngineState, Commit, Engine
      <4> QED BY <1>5, <4>1, <4>2, <4>3
    <3> QED BY <2>1, <3>1, <3>2
  <2>10. Stages'
    BY <2>1, <2>2, <2>3, <2>5, <2>8, <2>9 DEF Stages, Judged, Branched, Trying
  <2>11. Recorded'
    BY <1>2, <2>1, <2>2 DEF Recorded
  <2>12. Closing'
    BY <2>1 DEF Closing, Over
  <2> QED BY <2>6, <2>7, <2>10, <2>11, <2>12 DEF IInv
<1> QED BY <1>3, <1>4, <1>5

\* A failing worktree add leaves more on disk than the engine knows of.
LEMMA WorktreeFailsInv ==
  ASSUME IInv, (\E c \in Cand : AddWorktreeFails(c)) \/ AddFinalWorktreeFails
  PROVE  IInv'
<1>1. /\ eng \in EngineState /\ eng.pc \in {"prepare", "final"}
      /\ eng' = [eng EXCEPT !.pc = "except", !.status = "failed"]
      /\ wt' \subseteq Worktree /\ branch' \in BOOLEAN /\ (branch => branch')
      /\ UNCHANGED <<conf, files, cand, integ, tree, head, manifest>>
  BY ZenonT(60) DEF AddWorktreeFails, AddFinalWorktreeFails, Engine, IInv, TypeOK, EngineState,
                    Worktree
<1>2. /\ eng' \in EngineState /\ eng'.pc = "except" /\ eng'.status = "failed"
      /\ \A f \in DOMAIN eng \ {"pc", "status"} : eng'[f] = eng[f]
  BY <1>1 DEF EngineState, Status
<1>3. TypeOK'
  BY <1>1, <1>2 DEF IInv, TypeOK, EngineState
<1>4. ~eng.commit /\ ~eng.kept /\ integ = "idle" /\ eng.pc \in Trying
  BY <1>1 DEF IInv, Stages, Threads, Trying, BeforeFinal
<1>5. Threads'
  BY <1>1, <1>2, <1>4 DEF IInv, Threads, AllDone, BeforeFinal, Judged, Good, Unwinding
<1>6. Stages'
  BY <1>2 DEF Stages, Judged, Branched, Trying, Good
<1>7. Recorded'
  BY <1>1, <1>2, <1>4 DEF IInv, Recorded, EngineState
<1>8. Closing'
  BY <1>2 DEF Closing, Over
<1> QED BY <1>3, <1>5, <1>6, <1>7, <1>8 DEF IInv

\* What the engine writes to the manifest agrees with what it has achieved.
LEMMA SavingInv ==
  ASSUME IInv, Persist \/ PersistFailure \/ PersistAgain
  PROVE  IInv'
<1>1. /\ eng \in EngineState /\ files \subseteq Written \X Cand /\ wt \subseteq Worktree
      /\ manifest.status \in Status /\ manifest.commit \in BOOLEAN
      /\ manifest.seal \subseteq (Written \X Cand) \cup {<<"worktree", w>> : w \in Worktree}
  BY DEF IInv, TypeOK, EngineState
<1>2. /\ UNCHANGED <<conf, files, cand, integ, wt, branch, tree, head>>
      /\ eng.pc \in {"persist", "except", "close"}
  BY DEF Persist, PersistFailure, PersistAgain, PersistWhole, PersistBreaks, Engine, gitVars
<1>3. PICK to \in {"except", "cleanup", "ended", "aborted"} :
        /\ eng' \in {[eng EXCEPT !.pc = to], [eng EXCEPT !.pc = to, !.status = "failed"]}
        /\ eng.pc = "persist" => to \in {"cleanup", "except"}
        /\ eng.pc = "except" => to = "cleanup"
        /\ eng.pc = "close" => eng' = [eng EXCEPT !.pc = to] /\ to \in {"ended", "aborted"}
        /\ to = "ended" => manifest' = Saved(Artifacts)
        /\ to = "except" => eng' = [eng EXCEPT !.pc = to, !.status = "failed"]
        /\ manifest' \in {manifest, Saved(manifest.seal), Saved(Artifacts)}
  BY DEF Persist, PersistFailure, PersistAgain, PersistWhole, PersistBreaks, Engine
<1>4. /\ eng' \in EngineState /\ eng'.pc = to
      /\ eng'.commit = eng.commit /\ eng'.kept = eng.kept /\ eng'.reviewers = eng.reviewers
      /\ eng'.base = eng.base /\ eng'.tested = eng.tested
      /\ eng'.worktrees = eng.worktrees
      /\ eng'.status \in {eng.status, "failed"}
      /\ eng.pc = "close" => eng'.status = eng.status
      /\ to = "except" => eng'.status = "failed"
  <2>1. to \in Trying \cup Over \cup {"persist", "except", "cleanup", "close"}
    BY <1>3 DEF Over
  <2>2. "failed" \in Status
    BY DEF Status
  <2>3. CASE eng' = [eng EXCEPT !.pc = to]
    BY <1>1, <1>3, <2>1, <2>2, <2>3 DEF EngineState
  <2>4. CASE eng' = [eng EXCEPT !.pc = to, !.status = "failed"]
    BY <1>1, <1>3, <2>1, <2>2, <2>4 DEF EngineState
  <2> QED BY <1>3, <2>3, <2>4
<1>5. Artifacts \subseteq (Written \X Cand) \cup {<<"worktree", w>> : w \in Worktree}
  BY <1>1 DEF Artifacts
<1>6. /\ manifest'.status \in {manifest.status, eng.status}
      /\ manifest'.commit \in {manifest.commit, eng.commit}
      /\ manifest'.seal \in {manifest.seal, Artifacts}
      /\ \/ manifest'.status = manifest.status /\ manifest'.commit = manifest.commit
         \/ manifest'.status = eng.status /\ manifest'.commit = eng.commit
      /\ to = "ended" => manifest'.status = eng.status /\ manifest'.seal = Artifacts
  BY <1>3 DEF Saved
<1>7. TypeOK'
  BY <1>1, <1>2, <1>4, <1>5, <1>6 DEF IInv, TypeOK, EngineState
<1>8. eng.pc \in {"persist"} \/ eng.status \in Good => AllDone
  BY DEF IInv, Threads
<1>9. Threads'
  BY <1>2, <1>3, <1>4, <1>8
  DEF IInv, Threads, AllDone, BeforeFinal, Judged, Good, Unwinding
<1>10. /\ Valid' = Valid /\ OneCommit' = OneCommit /\ Reviewed' = Reviewed
       /\ Artifacts' = Artifacts
  BY <1>2, <1>4 DEF Valid, Required, Author, OneCommit, Reviewed, Artifacts
<1>11. Stages'
  BY <1>3, <1>4 DEF Stages, Judged, Branched, Trying, Good
<1>12. Recorded'
  BY <1>2, <1>4, <1>6, <1>10 DEF IInv, Recorded
<1>13. Closing'
  BY <1>2, <1>3, <1>4, <1>6, <1>10 DEF IInv, Closing, Over, Good
<1> QED BY <1>7, <1>9, <1>11, <1>12, <1>13 DEF IInv

LEMMA CleanupInv ==
  ASSUME IInv, Noted, Cleanup
  PROVE  IInv'
<1>1. /\ eng.pc = "cleanup" /\ eng' = [eng EXCEPT !.pc = "close"]
      /\ wt' \subseteq wt /\ \A w \in wt' \cap eng.worktrees : Live(w)
      /\ branch' = (branch /\ (eng.kept \/ "final" \in wt' \/ "final" \notin eng.worktrees))
      /\ branch \in BOOLEAN
      /\ UNCHANGED <<conf, files, cand, integ, tree, head, manifest>>
  BY DEF Cleanup, Remaining, Engine, IInv, TypeOK
<1>2. /\ eng' \in EngineState /\ eng'.pc = "close" /\ eng'.status = eng.status
      /\ eng'.commit = eng.commit /\ eng'.kept = eng.kept /\ eng'.reviewers = eng.reviewers
      /\ eng'.base = eng.base /\ eng'.tested = eng.tested /\ eng'.worktrees = eng.worktrees
  BY <1>1 DEF IInv, TypeOK, EngineState
<1>3. TypeOK'
  BY <1>1, <1>2 DEF IInv, TypeOK, EngineState
<1>4. Threads'
  BY <1>1, <1>2 DEF IInv, Threads, AllDone, BeforeFinal, Judged, Unwinding
<1>5. Valid' = Valid /\ OneCommit' = OneCommit /\ Reviewed' = Reviewed
  BY <1>1, <1>2 DEF Valid, Required, Author, OneCommit, Reviewed
<1>6. Stages'
  BY <1>2 DEF Stages, Judged, Branched, Trying
<1>7. Recorded'
  <2>1. eng.kept /\ branch => branch'
    BY <1>1
  <2> QED BY <1>1, <1>2, <1>5, <2>1 DEF IInv, Recorded
<1>8. eng.status \in Good => wt' = {}
  <2>1. eng.status \in Good => AllDone /\ integ # "running" /\ wt \subseteq eng.worktrees
    BY DEF IInv, Threads, Noted, Good
  <2> QED BY <1>1, <2>1 DEF IInv, TypeOK, Worktree, Live, AllDone, Working
<1>9. Closing'
  <2>1. "final" \in wt' \cap eng.worktrees => integ # "idle"
    BY <1>1 DEF Live
  <2> QED BY <1>1, <1>2, <1>8, <2>1 DEF Closing, Over
<1> QED BY <1>3, <1>4, <1>6, <1>7, <1>9 DEF IInv

LEMMA StutterInv == IInv /\ UNCHANGED vars => IInv'
<1> SUFFICES ASSUME IInv, UNCHANGED vars PROVE IInv'
  OBVIOUS
<1>1. UNCHANGED <<conf, eng, cand, integ, wt, branch, tree, head, files, manifest>>
  BY DEF vars
<1>2. /\ Valid' = Valid /\ OneCommit' = OneCommit /\ Reviewed' = Reviewed
      /\ Artifacts' = Artifacts /\ AllDone' = AllDone /\ Undisputed' = Undisputed
  BY <1>1 DEF Valid, Required, Author, OneCommit, Reviewed, Artifacts, AllDone, Undisputed
<1> QED BY <1>1, <1>2 DEF IInv, TypeOK, Threads, Stages, Recorded, Closing

\* Only the two worktree adds, their failures and cleanup touch what is noted.
LEMMA NotedInv == IInv /\ Noted /\ [Next]_vars => Noted'
<1> SUFFICES ASSUME IInv, Noted, [Next]_vars PROVE Noted'
  OBVIOUS
<1>1. eng \in EngineState
  BY DEF IInv, TypeOK, EngineState
<1>2. ASSUME UNCHANGED <<wt, integ, head>>, eng'.worktrees = eng.worktrees,
             eng.status = "failed" => eng'.status = "failed",
             eng'.pc \in Branched => eng.pc \in Branched
      PROVE  Noted'
  BY <1>2 DEF Noted
<1>3. CASE UNCHANGED vars \/ Done \/ \E c \in Cand : CandidateNext(c)
  BY <1>2, <1>3
  DEF vars, Done, CandidateNext, Candidate, gitVars, Baseline, WriteTest, Implement,
      CapturePatch, GreenTests, WriteLog, WritePatch, WriteReceipt, WriteArtifact,
      CandidateRaises
<1>4. CASE Integrate \/ IntegratorFails
  BY <1>4 DEF Noted, Integrate, IntegratorFails, gitVars
<1>5. CASE EngineNext
  <2>1. CASE \/ StartCandidates \/ Gather \/ Select \/ Reject \/ Integrated
             \/ CaptureFinal \/ NoTests \/ ReviewPasses \/ ReviewBlocks \/ CheckCommit
             \/ Complete \/ EngineRaises \/ Persist \/ PersistFailure \/ PersistAgain
    <3>1. UNCHANGED <<wt, integ, head>> /\ eng'.worktrees = eng.worktrees
      BY <1>1, <2>1
      DEF EngineState, Engine, gitVars, StartCandidates, Gather, Select, Reject, Integrated,
          CaptureFinal, NoTests, ReviewPasses, ReviewBlocks, CheckCommit, Complete,
          EngineRaises, Persist, PersistFailure, PersistAgain, PersistWhole, PersistBreaks
    <3>2. eng.status = "failed" => eng'.status = "failed"
      <4>1. eng.pc \in Trying \cup {"persist"} => eng.status # "failed"
        BY DEF IInv, Stages, Good
      <4>2. eng.pc \notin Trying \cup {"persist"} => eng'.status = eng.status
        BY <1>1, <2>1
        DEF EngineState, Engine, Trying, StartCandidates, Gather, Select, Reject, Integrated,
            CaptureFinal, NoTests, ReviewPasses, ReviewBlocks, CheckCommit, Complete,
            EngineRaises, Persist, PersistFailure, PersistAgain, PersistWhole, PersistBreaks
      <4> QED BY <4>1, <4>2
    <3>3. eng'.pc \in Branched => eng.pc \in Branched
      <4>1. CASE StartCandidates \/ Gather \/ Select \/ Reject \/ EngineRaises
        BY <1>1, <4>1, ZenonT(60)
        DEF EngineState, Engine, Branched, Judged, StartCandidates, Gather, Select, Reject,
            EngineRaises
      <4>2. CASE Persist \/ PersistFailure \/ PersistAgain
        BY <1>1, <4>2, ZenonT(60)
        DEF EngineState, Engine, Branched, Judged, Persist, PersistFailure, PersistAgain,
            PersistWhole, PersistBreaks
      <4>3. CASE \/ Integrated \/ CaptureFinal \/ NoTests \/ ReviewPasses \/ ReviewBlocks
                 \/ CheckCommit \/ Complete
        BY <4>3
        DEF Engine, Branched, Judged, Integrated, CaptureFinal, NoTests, ReviewPasses,
            ReviewBlocks, CheckCommit, Complete
      <4> QED BY <2>1, <4>1, <4>2, <4>3
    <3> QED BY <1>2, <3>1, <3>2, <3>3
  <2>2. ASSUME NEW c \in Cand, AddWorktree(c) PROVE Noted'
    <3>1. /\ eng' = [eng EXCEPT !.worktrees = eng.worktrees \cup {c}] /\ wt' = wt \cup {c}
          /\ UNCHANGED <<integ, head>>
      BY <2>2 DEF AddWorktree, Engine
    <3>2. /\ eng'.worktrees = eng.worktrees \cup {c}
          /\ eng'.pc = eng.pc /\ eng'.status = eng.status
      BY <1>1, <3>1 DEF EngineState
    <3> QED BY <3>1, <3>2 DEF Noted
  <2>3. CASE (\E c \in Cand : AddWorktreeFails(c)) \/ AddFinalWorktreeFails
    <3>1. /\ eng' = [eng EXCEPT !.pc = "except", !.status = "failed"]
          /\ UNCHANGED <<integ, head>>
      BY <2>3 DEF AddWorktreeFails, AddFinalWorktreeFails, Engine
    <3>2. /\ eng'.worktrees = eng.worktrees /\ eng'.pc = "except" /\ eng'.status = "failed"
      BY <1>1, <3>1 DEF EngineState
    <3> QED BY <3>1, <3>2 DEF Noted, Branched, Judged
  <2>4. CASE AddFinalWorktree
    <3>1. /\ eng' = [eng EXCEPT !.pc = "apply", !.worktrees = eng.worktrees \cup {"final"}]
          /\ wt' = wt \cup {"final"}
      BY <2>4 DEF AddFinalWorktree, Engine
    <3>2. eng'.worktrees = eng.worktrees \cup {"final"} /\ eng'.status = eng.status
      BY <1>1, <3>1 DEF EngineState
    <3> QED BY <3>1, <3>2 DEF Noted
  <2>5. CASE ApplyBase \/ FinalTests \/ Commit
    <3>1. eng.pc \in Branched /\ wt' = wt
      BY <1>1, <2>5
      DEF ApplyBase, FinalTests, Commit, Engine, Branched, Judged, EngineState
    <3>2. eng'.worktrees = eng.worktrees /\ eng'.status = eng.status
      BY <1>1, <2>5 DEF ApplyBase, FinalTests, Commit, Engine, EngineState
    <3> QED BY <3>1, <3>2 DEF Noted
  <2>6. CASE Cleanup
    <3>1. eng' = [eng EXCEPT !.pc = "close"] /\ wt' \subseteq wt /\ UNCHANGED <<integ, head>>
      BY <2>6 DEF Cleanup, Remaining, Engine
    <3>2. /\ eng'.worktrees = eng.worktrees /\ eng'.pc = "close"
          /\ eng'.status = eng.status
      BY <1>1, <3>1 DEF EngineState
    <3> QED BY <3>1, <3>2 DEF Noted, Branched, Judged
  <2> QED BY <1>5, <2>1, <2>2, <2>3, <2>4, <2>5, <2>6 DEF EngineNext
<1> QED BY <1>3, <1>4, <1>5 DEF Next

LEMMA Invariance == Spec => [](IInv /\ Noted)
<1>1. Init => Noted
  BY DEF Init, Noted, Branched, Judged
<1>2. IInv /\ Noted /\ [Next]_vars => IInv'
  <2> SUFFICES ASSUME IInv, Noted, [Next]_vars PROVE IInv'
    OBVIOUS
  <2>1. CASE EngineNext
    BY <2>1, TryStepsInv, WorktreeStepsInv, WorktreeFailsInv, SavingInv, CleanupInv
    DEF EngineNext
  <2>2. CASE \E c \in Cand : CandidateNext(c)
    BY <2>2, CandidateInv
  <2>3. CASE Integrate \/ IntegratorFails
    BY <2>3, IntegratorInv
  <2>4. CASE UNCHANGED vars
    BY <2>4, StutterInv
  <2> QED BY <2>1, <2>2, <2>3, <2>4 DEF Next, Done
<1> QED BY InitInv, NotedInv, <1>1, <1>2, PTL DEF Spec

-----------------------------------------------------------------------------

\* Every variable keeps its type: a verdict names candidates, a patch holds
\* no litter, and no branch ever carries more than two commits.
THEOREM TypeCorrect == Spec => []TypeOK
<1>1. IInv => TypeOK
  BY DEF IInv
<1> QED BY <1>1, Invariance, PTL

\* A manifest that names a commit, and a completed run, have all that the
\* protocol asks for, wherever an exception, a cancellation or a failing
\* persist struck.
THEOREM CompletedSound == Spec => []CompletedIsSound
<1>1. IInv => CompletedIsSound
  BY DEF IInv, Recorded, CompletedIsSound
<1> QED BY <1>1, Invariance, PTL

\* A branch that cleanup knows of outlives its run only with the reviewed commit
\* or under an integrator that was at work; one that a failed worktree add left
\* behind carries nothing.
THEOREM NoStrayBranch == Spec => []BranchAccounted
<1>1. IInv /\ Noted => BranchAccounted
  BY DEF IInv, Noted, Recorded, Closing, BranchAccounted, Over
<1> QED BY <1>1, Invariance, PTL

\* The seal of a run that ends completed or blocked covers what there is, and
\* nothing is left that could still change it.
THEOREM SealedQuietly == Spec => []QuietEnd
<1>1. IInv => QuietEnd
  BY DEF IInv, Closing, QuietEnd, Over, Good
<1> QED BY <1>1, Invariance, PTL
=============================================================================
