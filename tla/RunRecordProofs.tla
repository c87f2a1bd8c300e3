-------------------------- MODULE RunRecordProofs --------------------------
(***************************************************************************)
(* Proofs about the run record for any number of outcome, apply and regrade*)
(* commands and any genealogy: types; that an outcome is recorded, and     *)
(* learned from, once; that no run is upgraded; that a run everybody has   *)
(* left in order is sealed; that a seal never covers half an outcome; and  *)
(* what apply and regrade may rely on.  The invariants TypeOK, Fence,      *)
(* Lineage, QuietInv, Sealed and Commits carry them, each inductive with   *)
(* the ones before it.                                                     *)
(***************************************************************************)
EXTENDS RunRecord, TLAPS

AnyWrite == Write \cup ({"outcome"} \X Outcome)

\* A write of the right type keeps the files typed, and only a write of
\* outcome.json changes outcome.json.
LEMMA PutType ==
  ASSUME NEW a \in FileContent, NEW w \in AnyWrite
  PROVE  /\ Put(a, w) \in FileContent
         /\ Put(a, w).outcome = IF w[1] = "outcome" THEN w[2] ELSE a.outcome
<1>1. CASE w \in {"verdict"} \X Verdict
  BY <1>1 DEF Put, FileContent
<1>2. CASE w \in {"certificate"} \X Certificate
  BY <1>2 DEF Put, FileContent
<1>3. CASE w \in {"taint"} \X (SUBSET Subject)
  BY <1>3 DEF Put, FileContent
<1>4. CASE w \in {"genealogy"} \X (SUBSET Node)
  BY <1>4 DEF Put, FileContent
<1>5. CASE w \in {"events"} \X Label
  BY <1>5 DEF Put, FileContent
<1>6. CASE w \in {"outcome"} \X Outcome
  BY <1>6 DEF Put, FileContent
<1> QED BY <1>1, <1>2, <1>3, <1>4, <1>5, <1>6 DEF AnyWrite, Write

\* The tainted ids of a set of ids are ids.
LEMMA TaintedType ==
  ASSUME NEW I \in SUBSET Subject
  PROVE  Tainted(Edge, I) \in SUBSET Subject
BY GenealogyAssumption DEF Tainted, Ids, Subject

\* What persist_manifest writes is typed and never outcome.json.
LEMMA PersistWritesType ==
  ASSUME NEW v \in Verdict, eng.seeds \in SUBSET Node
  PROVE  PersistWrites(v) \in Seq(Write)
<1> DEFINE certified  == CertifiedFinality(v)
           downgraded == v.finality = "semantic_commit" /\ certified # "semantic_commit"
           tainted    == Tainted(Edge, eng.seeds)
           v1 == IF downgraded THEN [v EXCEPT !.finality = "abort"] ELSE v
           v2 == [v1 EXCEPT !.finality = "abort", !.blockers = @ \cup {"taint"}]
           c  == [finality |-> certified, unresolved |-> v.unresolved]
<1>1. certified \in Finality
  BY DEF CertifiedFinality, Finality
<1>2. v1 \in Verdict /\ v2 \in Verdict
  BY DEF Verdict, Finality
<1>3. c \in Certificate
  BY <1>1 DEF Certificate, Verdict, Subject
<1>4. tainted \in SUBSET Subject /\ tainted \cap Node \in SUBSET Node
  BY TaintedType DEF Subject
<1> HIDE DEF certified, downgraded, tainted, v1, v2, c
<1>5. /\ <<"verdict", v1>> \in Write /\ <<"verdict", v2>> \in Write
      /\ <<"certificate", c>> \in Write /\ <<"taint", tainted>> \in Write
      /\ <<"genealogy", tainted \cap Node>> \in Write
  BY <1>2, <1>3, <1>4 DEF Write
<1> DEFINE s1 == IF downgraded THEN <<<<"verdict", v1>>>> ELSE <<>>
           s2 == <<<<"certificate", c>>>>
           s3 == IF Final \in tainted THEN <<<<"verdict", v2>>>> ELSE <<>>
           s4 == <<<<"taint", tainted>>, <<"genealogy", tainted \cap Node>>>>
<1>6. s1 \in Seq(Write) /\ s2 \in Seq(Write) /\ s3 \in Seq(Write) /\ s4 \in Seq(Write)
  BY <1>5
<1>7. PersistWrites(v) = ((s1 \o s2) \o s3) \o s4
  BY DEF PersistWrites, certified, downgraded, tainted, v1, v2, c
<1> HIDE DEF s1, s2, s3, s4
<1> QED BY <1>6, <1>7

\* A first element before a sequence of a smaller kind.
LEMMA ConsType ==
  ASSUME NEW T, NEW S \in SUBSET T, NEW x \in T, NEW s \in Seq(S)
  PROVE  /\ (<<x>> \o s) # <<>>
         /\ (<<x>> \o s) \in Seq(T)
         /\ Head(<<x>> \o s) = x
         /\ Tail(<<x>> \o s) = s
<1>1. s \in Seq(T) /\ <<x>> \in Seq(T)
  OBVIOUS
<1>2. (<<x>> \o s) \in Seq(T) /\ Len(<<x>> \o s) = 1 + Len(s)
  BY <1>1
<1>3. (<<x>> \o s)[1] = x
  BY <1>1
<1>4. \A i \in 1..Len(s) : (<<x>> \o s)[i + 1] = s[i]
  BY <1>1
<1>5. Head(<<x>> \o s) = x /\ (<<x>> \o s) # <<>>
  BY <1>2, <1>3
<1>6. Tail(<<x>> \o s) = s
  <2>1. Tail(<<x>> \o s) \in Seq(T) /\ Len(Tail(<<x>> \o s)) = Len(s)
    BY <1>2, <1>5
  <2>2. \A i \in 1..Len(s) : Tail(<<x>> \o s)[i] = s[i]
    BY <1>2, <1>4, <1>5, <2>1
  <2> QED BY <1>1, <2>1, <2>2
<1> QED BY <1>2, <1>5, <1>6

\* What an outcome command writes is typed: its outcome.json first, nothing
\* else to outcome.json.
LEMMA OutcomeWritesType ==
  ASSUME TypeOK, NEW o \in Outcome
  PROVE  /\ OutcomeWrites(o) # <<>>
         /\ OutcomeWrites(o) \in Seq(AnyWrite)
         /\ Head(OutcomeWrites(o)) = <<"outcome", o>>
         /\ Tail(OutcomeWrites(o)) \in Seq(Write)
<1> DEFINE invalid == out[o].invalid
           tainted == Tainted(Edge, invalid)
           v == [art.verdict EXCEPT !.blockers = @ \cup {"outcome"}, !.finality = "abort"]
           c == [art.certificate EXCEPT !.unresolved = @ \cup invalid, !.finality = "abort"]
           s1 == <<<<"genealogy", tainted \cap Node>>, <<"taint", tainted>>>>
           s2 == IF art.verdict = None THEN <<>> ELSE <<<<"verdict", v>>>>
           s3 == IF art.certificate = None THEN <<>> ELSE <<<<"certificate", c>>>>
           s == IF ~InvalidatesLineage(o) THEN <<>> ELSE (s1 \o s2) \o s3
<1>1. invalid \in SUBSET Subject
  BY DEF TypeOK, OutcomeType
<1>2. tainted \in SUBSET Subject /\ tainted \cap Node \in SUBSET Node
  BY <1>1, TaintedType
<1>3. art.verdict # None => v \in Verdict
  BY DEF TypeOK, FileContent, Verdict, Finality
<1>4. art.certificate # None => c \in Certificate
  BY <1>1 DEF TypeOK, FileContent, Certificate, Finality
<1>5. OutcomeWrites(o) = <<<<"outcome", o>>>> \o s
  BY DEF OutcomeWrites
<1> HIDE DEF invalid, tainted, v, c
<1>6. s1 \in Seq(Write)
  BY <1>2 DEF Write
<1>7. s2 \in Seq(Write)
  BY <1>3 DEF Write
<1>8. s3 \in Seq(Write)
  BY <1>4 DEF Write
<1> HIDE DEF s1, s2, s3
<1>9. s \in Seq(Write)
  BY <1>6, <1>7, <1>8
<1> HIDE DEF s
<1>10. <<"outcome", o>> \in AnyWrite /\ Write \in SUBSET AnyWrite
  BY DEF AnyWrite
<1> DEFINE first == <<"outcome", o>>
<1>11. first \in AnyWrite /\ OutcomeWrites(o) = <<first>> \o s
  BY <1>5, <1>10
<1>12. Head(<<first>> \o s) = <<"outcome", o>>
  <2>1. Head(<<first>> \o s) = first
    <3> HIDE DEF first
    <3> QED BY <1>9, <1>10, <1>11, ConsType
  <2> QED BY <2>1
<1> HIDE DEF first
<1>13. /\ (<<first>> \o s) # <<>> /\ (<<first>> \o s) \in Seq(AnyWrite)
       /\ Tail(<<first>> \o s) = s
  BY <1>9, <1>10, <1>11, ConsType
<1> QED BY <1>9, <1>11, <1>12, <1>13

\* What seal_manifest writes back.
LEMMA SnapshotType ==
  ASSUME TypeOK
  PROVE  Snapshot \in Manifest
BY DEF TypeOK, Snapshot, Manifest

-----------------------------------------------------------------------------
EngineRecord ==
  [pc : EnginePC, phase : {"start", "try", "except", "finally", "replayed"},
   man : Manifest \cup {None}, todo : Seq(Write), seeds : SUBSET Node,
   task : {"implementation", "other"}, snap : Manifest \cup {None},
   result : Manifest \cup {None}]
OutcomeRecord ==
  [pc : OutcomePC, man : Manifest \cup {None}, invalid : SUBSET Subject,
   lineage : BOOLEAN, todo : Seq(AnyWrite), store : 1..3, snap : Manifest \cup {None}]

\* A step of one outcome command that keeps its memory typed and takes or drops
\* the lock as its place says keeps the types.
LEMMA OutcomeStep ==
  ASSUME TypeOK, NEW o \in Outcome, NEW r \in OutcomeRecord,
         out' = [out EXCEPT ![o] = r],
         r.pc \in {"lineage", "lock", "write"} => r.man \in Manifest,
         r.pc = "sealing" => r.snap \in Manifest,
         UNCHANGED <<mode, eng, reader>>,
         art' \in FileContent, manifest' \in Manifest,
         learned' \in [{"reliability", "calibration"} -> Seq(Outcome)],
         crashes' \in Nat, early' \in BOOLEAN,
         \/ lock = o /\ lock' \in {o, None}
         \/ lock = None /\ lock' \in {o, None}
         \/ lock' = lock /\ lock # o,
         lock' = o <=> r.pc \in {"write", "sealing"}
  PROVE  TypeOK'
<1>1. Len(Stores) + 1 = 3
  BY DEF Stores
<1>2. OutcomeType'
  BY <1>1 DEF TypeOK, OutcomeType, OutcomeRecord, AnyWrite
<1>3. EngineType'
  BY DEF TypeOK, EngineType
<1>4. /\ lock' \in Outcome \cup {None, Engine}
      /\ lock' = Engine <=> eng'.pc = "sealing"
  BY NamesAssumption DEF TypeOK
<1>5. \A q \in Outcome : lock' = q <=> out'[q].pc \in {"write", "sealing"}
  BY NamesAssumption DEF TypeOK, OutcomeType
<1> QED BY <1>2, <1>3, <1>4, <1>5 DEF TypeOK

\* The same for a step of the engine.
LEMMA EngineStep ==
  ASSUME TypeOK, eng' \in EngineRecord,
         eng'.pc # "crashed" => eng'.man \in Manifest,
         eng'.pc = "sealing" => eng'.snap \in Manifest,
         eng'.pc = "returned" => eng'.result \in Manifest,
         UNCHANGED <<mode, out, reader, learned, early>>,
         art' \in FileContent, manifest' \in Manifest, crashes' \in Nat,
         \/ lock = Engine /\ lock' \in {Engine, None}
         \/ lock = None /\ lock' \in {Engine, None}
         \/ lock' = lock /\ lock # Engine,
         lock' = Engine <=> eng'.pc = "sealing"
  PROVE  TypeOK'
<1>1. OutcomeType'
  BY DEF TypeOK, OutcomeType
<1>2. EngineType'
  BY DEF TypeOK, EngineType, EngineRecord
<1>3. \A q \in Outcome : lock' = q <=> out'[q].pc \in {"write", "sealing"}
  BY NamesAssumption DEF TypeOK
<1>4. lock' \in Outcome \cup {None, Engine}
  BY DEF TypeOK
<1> QED BY <1>1, <1>2, <1>3, <1>4 DEF TypeOK

\* What TypeOK says of the engine.
LEMMA EngineTyped ==
  ASSUME TypeOK
  PROVE  /\ eng \in EngineRecord
         /\ eng.pc # "crashed" => eng.man \in Manifest
         /\ eng.pc = "sealing" => eng.snap \in Manifest
         /\ eng.pc = "returned" => eng.result \in Manifest
         /\ lock = Engine <=> eng.pc = "sealing"
         /\ art \in FileContent /\ manifest \in Manifest /\ crashes \in Nat
BY DEF TypeOK, EngineType, EngineRecord

LEMMA EngineUnlocked ==
  ASSUME TypeOK, eng.pc # "sealing", eng' \in EngineRecord,
         eng'.pc \notin {"crashed", "sealing"}, eng'.man \in Manifest,
         eng'.pc = "returned" => eng'.result \in Manifest,
         UNCHANGED <<mode, out, reader, learned, early, lock, crashes>>,
         art' \in FileContent, manifest' \in Manifest
  PROVE  TypeOK'
BY EngineStep, EngineTyped

\* Each step of the engine keeps the types.
LEMMA DraftVerdictType == ASSUME TypeOK, DraftVerdict PROVE TypeOK'
<1>1. [finality |-> "abort", blockers |-> {}, unresolved |-> {}] \in Verdict
  BY DEF Verdict, Finality
<1>2. art' \in FileContent
  BY <1>1, EngineTyped, PutType DEF DraftVerdict, AnyWrite, Write
<1> QED BY <1>2, EngineTyped, EngineUnlocked DEF DraftVerdict

LEMMA AddWorktreesType == ASSUME TypeOK, AddWorktrees PROVE TypeOK'
<1>1. art' \in FileContent
  BY EngineTyped DEF AddWorktrees, FileContent
<1> QED BY <1>1, EngineTyped, EngineUnlocked DEF AddWorktrees

LEMMA ConcludeType == ASSUME TypeOK, Conclude PROVE TypeOK'
<1>1. PICK e \in Endings, found \in Findings,
           task \in {"implementation", "other"} :
       eng' = [eng EXCEPT
         !.pc = "conclude",
         !.seeds = found[1],
         !.task = task,
         !.man.status = e[2], !.man.finality = e[1],
         !.man.commit = (e[1] = "semantic_commit"),
         !.todo = <<<<"verdict", [finality |-> e[1], unresolved |-> found[2],
                       blockers |-> IF e[2] = "blocked" THEN {"verdict"} ELSE {}]>>>>
                  \o (IF mode = "council" \/ e[2] = "completed"
                      THEN <<<<"events", <<Engine, "completed">>>>>> ELSE <<>>)]
  <2>1. (IF mode = "implement" THEN {"implementation"} ELSE {"implementation", "other"})
          \subseteq {"implementation", "other"}
    OBVIOUS
  <2> QED BY <2>1, ZenonT(60) DEF Conclude
<1> DEFINE v == [finality |-> e[1], unresolved |-> found[2],
                 blockers |-> IF e[2] = "blocked" THEN {"verdict"} ELSE {}]
           s1 == <<<<"verdict", v>>>>
           s2 == IF mode = "council" \/ e[2] = "completed"
                 THEN <<<<"events", <<Engine, "completed">>>>>> ELSE <<>>
           m == [eng.man EXCEPT !.status = e[2], !.finality = e[1],
                                !.commit = (e[1] = "semantic_commit")]
<1>2. e[1] \in Finality /\ e[2] \in {"completed", "blocked"}
  BY DEF Endings, Finality
<1>3. found[1] \in SUBSET Node /\ found[2] \in SUBSET Node
  BY GenealogyAssumption
<1>4. v \in Verdict
  BY <1>2, <1>3 DEF Verdict
<1>5. <<"events", <<Engine, "completed">>>> \in Write
  BY DEF Write, Label
<1>6. eng.man \in Manifest /\ eng.pc # "sealing"
  BY EngineTyped DEF Conclude
<1>7. m \in Manifest
  BY <1>2, <1>6 DEF Manifest
<1>8. eng' = [eng EXCEPT !.pc = "conclude", !.seeds = found[1], !.task = task,
                         !.man.status = e[2], !.man.finality = e[1],
                         !.man.commit = (e[1] = "semantic_commit"), !.todo = s1 \o s2]
  BY <1>1, ZenonT(60)
<1> HIDE DEF v
<1>9. s1 \in Seq(Write)
  BY <1>4 DEF Write
<1>10. s2 \in Seq(Write)
  BY <1>5
<1> HIDE DEF s1, s2
<1>11. eng' = [eng EXCEPT !.pc = "conclude", !.seeds = found[1], !.task = task,
                          !.man = m, !.todo = s1 \o s2]
  BY <1>6, <1>8, EngineTyped DEF EngineRecord
<1> HIDE DEF m
<1>12. s1 \o s2 \in Seq(Write)
  BY <1>9, <1>10
<1>13. /\ eng' \in EngineRecord /\ eng'.pc = "conclude" /\ eng'.man \in Manifest
  BY <1>3, <1>7, <1>11, <1>12, EngineTyped DEF EngineRecord, EnginePC
<1> QED BY <1>6, <1>13, EngineTyped, EngineUnlocked DEF Conclude

\* The engine after a failure, and after a persist_manifest.
LEMMA FailedType ==
  ASSUME NEW e \in EngineRecord, e.man \in Manifest
  PROVE  /\ Failed(e) \in EngineRecord /\ Failed(e).pc = "conclude"
         /\ Failed(e).man \in Manifest
<1>1. <<"events", <<Engine, "failed">>>> \in Write
  BY DEF Write, Label
<1>2. <<<<"events", <<Engine, "failed">>>>>> \in Seq(Write)
  BY <1>1
<1> DEFINE m == [e.man EXCEPT !.status = "failed"]
           s == <<<<"events", <<Engine, "failed">>>>>>
<1>3. m \in Manifest
  BY DEF Manifest
<1>4. Failed(e) = [e EXCEPT !.pc = "conclude", !.phase = "except", !.man = m, !.todo = s]
  BY DEF Failed, EngineRecord
<1> HIDE DEF m, s
<1> QED BY <1>2, <1>3, <1>4 DEF EngineRecord, EnginePC, s

LEMMA AfterPersistType ==
  ASSUME NEW e \in EngineRecord, e.man \in Manifest, NEW failed \in BOOLEAN,
         NEW replay \in BOOLEAN
  PROVE  /\ AfterPersist(e, failed, replay) \in EngineRecord
         /\ AfterPersist(e, failed, replay).pc \notin {"crashed", "sealing"}
         /\ AfterPersist(e, failed, replay).man \in Manifest
         /\ AfterPersist(e, failed, replay).pc = "returned"
              => AfterPersist(e, failed, replay).result \in Manifest
<1> DEFINE r == AfterPersist(e, failed, replay)
<1>1. CASE failed /\ e.phase = "try"
  BY <1>1, FailedType DEF AfterPersist
<1>2. CASE /\ ~(failed /\ e.phase = "try") /\ mode = "implement"
           /\ e.phase \notin {"start", "finally"}
  BY <1>2 DEF AfterPersist, EngineRecord, EnginePC
<1>3. CASE /\ ~(failed /\ e.phase = "try") /\ e.phase # "start"
           /\ ~(mode = "implement" /\ e.phase # "finally")
  <2>1. r \in {[e EXCEPT !.pc = "failed", !.result = None], [e EXCEPT !.pc = "returned"],
              [e EXCEPT !.pc = "ended", !.result = None]}
    BY <1>3 DEF AfterPersist
  <2>2. r = [e EXCEPT !.pc = "returned"] => e.result # None
    BY <1>3 DEF AfterPersist, EngineRecord
  <2> HIDE DEF r
  <2>3. r \in EngineRecord /\ r.man = e.man /\ r.pc \in {"failed", "returned", "ended"}
    BY <2>1 DEF EngineRecord, EnginePC
  <2>4. r.pc = "returned" => r.result \in Manifest
    BY <2>1, <2>2 DEF EngineRecord
  <2> QED BY <2>3, <2>4 DEF r
<1>4. CASE e.phase = "start"
  <2>1. r \in {[e EXCEPT !.pc = "failed", !.phase = "try"],
              [e EXCEPT !.pc = "running", !.phase = "try"]}
    BY <1>4 DEF AfterPersist
  <2> HIDE DEF r
  <2>2. r \in EngineRecord /\ r.man = e.man /\ r.pc \in {"failed", "running"}
    BY <2>1 DEF EngineRecord, EnginePC
  <2> QED BY <2>2 DEF r
<1> QED BY <1>1, <1>2, <1>3, <1>4

LEMMA EngineFailsType == ASSUME TypeOK, EngineFails PROVE TypeOK'
BY FailedType, EngineTyped, EngineUnlocked DEF EngineFails

LEMMA PersistReadsType == ASSUME TypeOK, PersistReads PROVE TypeOK'
<1>1. CASE eng.man.status \in {"completed", "blocked"} /\ art.verdict # None
  <2> DEFINE m == [eng.man EXCEPT !.finality = CertifiedFinality(art.verdict)]
             s == PersistWrites(art.verdict)
  <2>1. art.verdict \in Verdict /\ eng.seeds \in SUBSET Node
    BY <1>1, EngineTyped DEF FileContent, EngineRecord
  <2>2. s \in Seq(Write)
    BY <2>1, PersistWritesType
  <2>3. m \in Manifest
    BY <2>1, EngineTyped DEF PersistReads, Manifest, CertifiedFinality, Finality
  <2>4. eng' = [eng EXCEPT !.pc = "persist", !.todo = s, !.man = m]
    BY <1>1, EngineTyped DEF PersistReads, EngineRecord
  <2> HIDE DEF m, s
  <2>5. eng' \in EngineRecord /\ eng'.pc = "persist" /\ eng'.man \in Manifest
    BY <2>2, <2>3, <2>4, EngineTyped DEF EngineRecord, EnginePC
  <2> QED BY <2>5, EngineTyped, EngineUnlocked DEF PersistReads
<1>2. CASE ~(eng.man.status \in {"completed", "blocked"} /\ art.verdict # None)
  <2>1. eng' = [eng EXCEPT !.pc = "persist"]
    BY <1>2 DEF PersistReads
  <2>2. eng' \in EngineRecord /\ eng'.pc = "persist" /\ eng'.man \in Manifest
    BY <2>1, EngineTyped DEF EngineRecord, EnginePC, PersistReads
  <2> QED BY <2>2, EngineTyped, EngineUnlocked DEF PersistReads
<1> QED BY <1>1, <1>2

LEMMA EngineWritesType == ASSUME TypeOK, EngineWrites PROVE TypeOK'
<1>1. eng.todo \in Seq(Write) /\ eng.todo # <<>>
  BY EngineTyped DEF EngineRecord, EngineWrites
<1>2. Head(eng.todo) \in AnyWrite /\ Tail(eng.todo) \in Seq(Write)
  BY <1>1 DEF AnyWrite
<1>3. art' \in FileContent
  BY <1>2, EngineTyped, PutType DEF EngineWrites
<1>4. eng' \in EngineRecord /\ eng'.pc = eng.pc /\ eng'.man = eng.man
  BY <1>2, EngineTyped DEF EngineWrites, EngineRecord
<1> QED BY <1>3, <1>4, EngineTyped, EngineUnlocked DEF EngineWrites

LEMMA EngineWritesManifestType == ASSUME TypeOK, EngineWritesManifest PROVE TypeOK'
<1>1. eng' \in EngineRecord /\ eng'.pc = "seal" /\ eng'.man = eng.man
  BY EngineTyped DEF EngineWritesManifest, EngineRecord, EnginePC
<1> QED BY <1>1, EngineTyped, EngineUnlocked DEF EngineWritesManifest

LEMMA EngineHashesType == ASSUME TypeOK, EngineHashes PROVE TypeOK'
<1>1. /\ eng' \in EngineRecord /\ eng'.pc = "sealing" /\ eng'.man = eng.man
      /\ eng'.snap \in Manifest
  BY EngineTyped, SnapshotType DEF EngineHashes, EngineRecord, EnginePC
<1> QED BY <1>1, EngineTyped, EngineStep DEF EngineHashes

LEMMA EngineSealsType == ASSUME TypeOK, EngineSeals PROVE TypeOK'
<1>1. /\ eng' \in EngineRecord /\ eng'.pc = "reload" /\ eng'.man = eng.man
  BY EngineTyped DEF EngineSeals, EngineRecord, EnginePC
<1> QED BY <1>1, EngineTyped, EngineStep, NamesAssumption DEF EngineSeals

LEMMA EngineReloadsType == ASSUME TypeOK, EngineReloads PROVE TypeOK'
<1> DEFINE result == IF eng.phase = "try" THEN manifest ELSE eng.result
           e == [eng EXCEPT !.man = manifest, !.result = result]
<1>1. PICK replay \in Replays :
        eng' = AfterPersist([eng EXCEPT !.man = manifest,
                                        !.result = IF eng.phase = "try" THEN manifest ELSE @],
                            FALSE, replay)
  BY DEF EngineReloads
<1>2. eng' = AfterPersist(e, FALSE, replay)
  BY <1>1, EngineTyped DEF EngineRecord
<1>3. replay \in BOOLEAN
  BY ModesAssumption
<1>4. e \in EngineRecord /\ e.man \in Manifest
  BY EngineTyped DEF EngineRecord
<1> HIDE DEF e, result
<1> QED BY <1>2, <1>3, <1>4, AfterPersistType, EngineTyped, EngineUnlocked DEF EngineReloads

LEMMA EngineTimesOutType == ASSUME TypeOK, EngineTimesOut PROVE TypeOK'
BY AfterPersistType, EngineTyped, EngineUnlocked DEF EngineTimesOut

LEMMA CleanUpType == ASSUME TypeOK, CleanUp PROVE TypeOK'
<1>1. art' \in FileContent
  BY EngineTyped DEF CleanUp, FileContent
<1>2. eng' \in EngineRecord /\ eng'.pc = "conclude" /\ eng'.man \in Manifest
  BY EngineTyped DEF CleanUp, EngineRecord, EnginePC
<1> QED BY <1>1, <1>2, EngineTyped, EngineUnlocked DEF CleanUp

LEMMA RecordSubstitutionsType == ASSUME TypeOK, RecordSubstitutions PROVE TypeOK'
<1>1. eng' \in EngineRecord /\ eng'.pc = "ended" /\ eng'.man \in Manifest
  BY EngineTyped DEF RecordSubstitutions, EngineRecord, EnginePC
<1> QED BY <1>1, EngineTyped, EngineUnlocked DEF RecordSubstitutions

LEMMA EngineStepsType == ASSUME TypeOK, EngineSteps PROVE TypeOK'
BY AddWorktreesType, DraftVerdictType, ConcludeType, EngineFailsType, PersistReadsType,
   EngineWritesType,
   EngineWritesManifestType, EngineHashesType, EngineSealsType, EngineReloadsType,
   EngineTimesOutType, CleanUpType, RecordSubstitutionsType DEF EngineSteps

-----------------------------------------------------------------------------
\* What TypeOK says of an outcome command and of the stores.
LEMMA OutcomeTyped ==
  ASSUME TypeOK, NEW o \in Outcome
  PROVE  /\ out[o] \in OutcomeRecord /\ DOMAIN out = Outcome
         /\ out[o].pc \in {"lineage", "lock", "write"} => out[o].man \in Manifest
         /\ out[o].pc = "sealing" => out[o].snap \in Manifest
         /\ lock = o <=> out[o].pc \in {"write", "sealing"}
         /\ learned \in [{"reliability", "calibration"} -> Seq(Outcome)]
         /\ early \in BOOLEAN
BY DEF TypeOK, OutcomeType, OutcomeRecord, AnyWrite, Stores

\* A command that is over is typed.
LEMMA OverType ==
  ASSUME NEW r \in OutcomeRecord, NEW pc \in OutcomePC
  PROVE  Over(r, pc) \in OutcomeRecord /\ Over(r, pc).pc = pc
<1> DEFINE e == <<>>
<1>1. e \in Seq(AnyWrite)
  OBVIOUS
<1>2. Over(r, pc) = [r EXCEPT !.pc = pc, !.man = None, !.todo = e, !.snap = None]
  BY DEF Over
<1> HIDE DEF e
<1> QED BY <1>1, <1>2 DEF OutcomeRecord

\* A step that neither takes nor drops the lock.
LEMMA OutcomeUnlocked ==
  ASSUME TypeOK, NEW o \in Outcome, NEW r \in OutcomeRecord,
         out' = [out EXCEPT ![o] = r],
         r.pc \in {"lineage", "lock"} => r.man \in Manifest,
         lock # o, r.pc \notin {"write", "sealing"},
         UNCHANGED <<mode, eng, reader, lock, crashes, manifest>>,
         art' \in FileContent, early' \in BOOLEAN,
         learned' \in [{"reliability", "calibration"} -> Seq(Outcome)]
  PROVE  TypeOK'
BY OutcomeStep, EngineTyped

\* Each step of an outcome command keeps the types.
LEMMA LoadType ==
  ASSUME TypeOK, NEW o \in Outcome, Load(o)
  PROVE  TypeOK'
<1>1. PICK invalid \in Invalidation :
        out' = [out EXCEPT ![o] = IF art.outcome = None
                 THEN [@ EXCEPT !.pc = "lineage", !.man = manifest, !.invalid = invalid]
                 ELSE Over(@, "refused")]
  BY DEF Load
<1> DEFINE r == IF art.outcome = None
                THEN [out[o] EXCEPT !.pc = "lineage", !.man = manifest, !.invalid = invalid]
                ELSE Over(out[o], "refused")
<1>2. /\ r \in OutcomeRecord /\ r.pc \in {"lineage", "refused"}
      /\ r.pc = "lineage" => r.man \in Manifest
  <2>1. CASE art.outcome = None
    <3>1. r = [out[o] EXCEPT !.pc = "lineage", !.man = manifest, !.invalid = invalid]
      BY <2>1
    <3>2. invalid \in SUBSET Subject
      BY DEF Subject
    <3> HIDE DEF r
    <3> QED BY <3>1, <3>2, EngineTyped, OutcomeTyped DEF OutcomeRecord, OutcomePC
  <2>2. CASE art.outcome # None
    BY <2>2, OutcomeTyped, OverType DEF OutcomePC
  <2> QED BY <2>1, <2>2
<1>3. out' = [out EXCEPT ![o] = r]
  BY <1>1
<1>4. lock # o /\ early' \in BOOLEAN
  BY OutcomeTyped DEF Load, EngineLive, Finished
<1> HIDE DEF r
<1> QED BY <1>2, <1>3, <1>4, EngineTyped, OutcomeTyped, OutcomeUnlocked DEF Load

LEMMA ReadLineageType ==
  ASSUME TypeOK, NEW o \in Outcome, ReadLineage(o)
  PROVE  TypeOK'
<1> DEFINE r == [out[o] EXCEPT !.pc = "lock", !.todo = OutcomeWrites(o),
                               !.lineage = InvalidatesLineage(o)]
<1>1. OutcomeWrites(o) \in Seq(AnyWrite) /\ InvalidatesLineage(o) \in BOOLEAN
  BY OutcomeWritesType DEF InvalidatesLineage
<1>2. r \in OutcomeRecord /\ r.pc = "lock" /\ r.man = out[o].man
  BY <1>1, OutcomeTyped DEF OutcomeRecord, OutcomePC
<1>3. out' = [out EXCEPT ![o] = r]
  BY OutcomeTyped DEF ReadLineage, OutcomeRecord
<1>4. lock # o /\ r.man \in Manifest
  BY <1>2, OutcomeTyped DEF ReadLineage
<1> HIDE DEF r
<1>5. /\ r.pc \notin {"write", "sealing"} /\ early' \in BOOLEAN
      /\ UNCHANGED <<mode, eng, reader, lock, crashes, manifest>>
      /\ art' \in FileContent
      /\ learned' \in [{"reliability", "calibration"} -> Seq(Outcome)]
  BY <1>2, EngineTyped, OutcomeTyped DEF ReadLineage
<1> QED BY <1>2, <1>3, <1>4, <1>5, OutcomeUnlocked

LEMMA BeginType ==
  ASSUME TypeOK, NEW o \in Outcome, Begin(o)
  PROVE  TypeOK'
<1>1. CASE art.outcome = None
  <2> DEFINE r == [out[o] EXCEPT !.pc = "write"]
  <2>1. r \in OutcomeRecord /\ r.pc = "write" /\ r.man = out[o].man
    BY OutcomeTyped DEF OutcomeRecord, OutcomePC
  <2>3. r.man \in Manifest
    BY <2>1, OutcomeTyped DEF Begin
  <2>2. out' = [out EXCEPT ![o] = r] /\ lock = None /\ lock' = o
    BY <1>1 DEF Begin
  <2> HIDE DEF r
  <2> QED BY <2>1, <2>2, <2>3, EngineTyped, OutcomeTyped, OutcomeStep DEF Begin
<1>2. CASE art.outcome # None
  <2> DEFINE r == Over(out[o], "refused")
  <2>1. r \in OutcomeRecord /\ r.pc = "refused"
    BY OutcomeTyped, OverType DEF OutcomePC
  <2>2. out' = [out EXCEPT ![o] = r] /\ lock # o /\ lock' = lock
    BY <1>2, OutcomeTyped DEF Begin
  <2> HIDE DEF r
  <2> QED BY <2>1, <2>2, EngineTyped, OutcomeTyped, OutcomeUnlocked DEF Begin
<1> QED BY <1>1, <1>2

LEMMA OutcomeWritesFileType ==
  ASSUME TypeOK, NEW o \in Outcome, OutcomeWritesFile(o)
  PROVE  TypeOK'
<1> DEFINE r == [out[o] EXCEPT !.todo = Tail(@)]
<1>1. Head(out[o].todo) \in AnyWrite /\ Tail(out[o].todo) \in Seq(AnyWrite)
  BY OutcomeTyped DEF OutcomeRecord, OutcomeWritesFile
<1>2. r \in OutcomeRecord /\ r.pc = out[o].pc /\ r.man = out[o].man
  BY <1>1, OutcomeTyped DEF OutcomeRecord
<1>3. out' = [out EXCEPT ![o] = r] /\ lock' = lock
  BY DEF OutcomeWritesFile
<1>4. art' \in FileContent
  BY <1>1, EngineTyped, PutType DEF OutcomeWritesFile
<1>5. r.pc \in {"write", "events"} /\ (lock = o <=> r.pc = "write")
  BY <1>2, OutcomeTyped DEF OutcomeWritesFile
<1>6. r.pc = "write" => r.man \in Manifest
  BY <1>2, OutcomeTyped
<1> HIDE DEF r
<1>7. UNCHANGED <<mode, eng, reader, manifest, learned, crashes, early>>
  BY DEF OutcomeWritesFile
<1> QED BY <1>2, <1>3, <1>4, <1>5, <1>6, <1>7, EngineTyped, OutcomeTyped, OutcomeStep

LEMMA CommitType ==
  ASSUME TypeOK, NEW o \in Outcome, Commit(o)
  PROVE  TypeOK'
<1> DEFINE s == <<<<"events", <<o, "outcome">>>>>>
                \o IF out[o].lineage
                   THEN <<<<"events", <<o, "invalidation">>>>>> ELSE <<>>
           r == [out[o] EXCEPT !.pc = "events", !.man = None, !.todo = s]
<1>1. /\ <<"events", <<o, "outcome">>>> \in AnyWrite
      /\ <<"events", <<o, "invalidation">>>> \in AnyWrite
  BY DEF AnyWrite, Write, Label
<1>2. s \in Seq(AnyWrite)
  BY <1>1
<1> HIDE DEF s
<1>3. r \in OutcomeRecord /\ r.pc = "events"
  BY <1>2, OutcomeTyped DEF OutcomeRecord, OutcomePC
<1>4. out' = [out EXCEPT ![o] = r]
  BY DEF Commit, s
<1>5. lock = o /\ lock' = None /\ manifest' \in Manifest
  BY OutcomeTyped DEF Commit
<1> HIDE DEF r
<1>6. UNCHANGED <<mode, art, eng, reader, learned, crashes, early>>
  BY DEF Commit
<1> QED BY <1>3, <1>4, <1>5, <1>6, NamesAssumption, EngineTyped, OutcomeTyped, OutcomeStep

LEMMA LearnType ==
  ASSUME TypeOK, NEW o \in Outcome, Learn(o)
  PROVE  TypeOK'
<1>1. lock # o /\ Len(Stores) = 2
  BY OutcomeTyped DEF Learn, Stores
<1>2. CASE out[o].store = 2 /\ art.verdict = None
  <2> DEFINE r == Over(out[o], "failed")
  <2>1. r \in OutcomeRecord /\ r.pc = "failed"
    BY OutcomeTyped, OverType DEF OutcomePC
  <2>2. out' = [out EXCEPT ![o] = r] /\ learned' = learned
    BY <1>2 DEF Learn
  <2> HIDE DEF r
  <2> QED BY <1>1, <2>1, <2>2, EngineTyped, OutcomeTyped, OutcomeUnlocked DEF Learn
<1>3. CASE ~(out[o].store = 2 /\ art.verdict = None)
  <2> DEFINE r == [out[o] EXCEPT !.store = @ + 1]
  <2>1. out[o].store \in {1, 2} /\ out[o].pc = "events"
    BY <1>1, OutcomeTyped DEF Learn, OutcomeRecord
  <2>2. r \in OutcomeRecord /\ r.pc = "events"
    <3> DEFINE k == out[o].store + 1
    <3>1. k \in 1..3 /\ r = [out[o] EXCEPT !.store = k]
      BY <2>1
    <3>2. out[o] \in OutcomeRecord
      BY OutcomeTyped
    <3> HIDE DEF k, r
    <3> QED BY <2>1, <3>1, <3>2 DEF OutcomeRecord
  <2>3. /\ out' = [out EXCEPT ![o] = r]
        /\ learned' = [learned EXCEPT ![Stores[out[o].store]] = Append(@, o)]
    BY <1>3 DEF Learn
  <2>4. Stores[out[o].store] \in {"reliability", "calibration"}
    BY <2>1 DEF Stores
  <2>5. learned' \in [{"reliability", "calibration"} -> Seq(Outcome)]
    BY <2>3, <2>4, OutcomeTyped
  <2> HIDE DEF r
  <2> QED BY <1>1, <2>2, <2>3, <2>5, EngineTyped, OutcomeTyped, OutcomeUnlocked DEF Learn
<1> QED BY <1>2, <1>3

LEMMA OutcomeHashesType ==
  ASSUME TypeOK, NEW o \in Outcome, OutcomeHashes(o)
  PROVE  TypeOK'
<1> DEFINE r == [out[o] EXCEPT !.pc = "sealing", !.snap = Snapshot]
<1>1. r \in OutcomeRecord /\ r.pc = "sealing" /\ r.snap \in Manifest
  BY SnapshotType, OutcomeTyped DEF OutcomeRecord, OutcomePC
<1>2. out' = [out EXCEPT ![o] = r] /\ lock = None /\ lock' = o
  BY DEF OutcomeHashes
<1> HIDE DEF r
<1> QED BY <1>1, <1>2, EngineTyped, OutcomeTyped, OutcomeStep DEF OutcomeHashes

LEMMA OutcomeSealsType ==
  ASSUME TypeOK, NEW o \in Outcome, OutcomeSeals(o)
  PROVE  TypeOK'
<1> DEFINE r == Over(out[o], "done")
<1>1. r \in OutcomeRecord /\ r.pc = "done"
  BY OutcomeTyped, OverType DEF OutcomePC
<1>2. out' = [out EXCEPT ![o] = r] /\ lock = o /\ lock' = None /\ manifest' \in Manifest
  BY OutcomeTyped DEF OutcomeSeals
<1> HIDE DEF r
<1> QED BY <1>1, <1>2, NamesAssumption, EngineTyped, OutcomeTyped, OutcomeStep DEF OutcomeSeals

LEMMA OutcomeTimesOutType ==
  ASSUME TypeOK, NEW o \in Outcome, OutcomeTimesOut(o)
  PROVE  TypeOK'
<1> DEFINE r == Over(out[o], "failed")
<1>1. r \in OutcomeRecord /\ r.pc = "failed"
  BY OutcomeTyped, OverType DEF OutcomePC
<1>2. out' = [out EXCEPT ![o] = r] /\ lock # o
  BY OutcomeTyped DEF OutcomeTimesOut
<1> HIDE DEF r
<1> QED BY <1>1, <1>2, EngineTyped, OutcomeTyped, OutcomeUnlocked DEF OutcomeTimesOut

LEMMA OutcomeStepsType ==
  ASSUME TypeOK, NEW o \in Outcome, OutcomeSteps(o)
  PROVE  TypeOK'
BY LoadType, ReadLineageType, BeginType, OutcomeWritesFileType, CommitType, LearnType,
   OutcomeHashesType, OutcomeSealsType, OutcomeTimesOutType DEF OutcomeSteps

\* Each step of a reader keeps the types: it changes its own memory only.
ReaderMemory(p) ==
  /\ UNCHANGED Others
  /\ \E r \in ReaderRecord : reader' = [reader EXCEPT ![p] = r]

LEMMA ReaderTyped ==
  ASSUME TypeOK, NEW p \in Reader, ReaderMemory(p)
  PROVE  TypeOK'
<1>1. reader' \in [Reader -> ReaderRecord]
  BY DEF TypeOK, ReaderMemory
<1>2. EngineType' /\ OutcomeType'
  BY DEF TypeOK, EngineType, OutcomeType, ReaderMemory, Others
<1> QED BY <1>1, <1>2 DEF TypeOK, ReaderMemory, Others

LEMMA RefusedType == [Idle EXCEPT !.pc = "refused"] \in ReaderRecord
BY DEF Idle, NoChild, ReaderRecord, ReaderPC, Child, Finality

LEMMA ApplyStepsType ==
  ASSUME TypeOK, NEW p \in Reader, ApplySteps(p)
  PROVE  ReaderMemory(p)
<1>1. reader[p] \in ReaderRecord
  BY DEF TypeOK
<1>2. CASE ApplyLoads(p)
  <2> DEFINE known == InvalidatedOnDisk
             ready == manifest.commit /\ manifest.status = "completed"
             r == [reader[p] EXCEPT !.pc = "verify", !.ready = ready,
                                    !.known = known, !.live = EngineLive]
  <2>1. known \in BOOLEAN /\ ready \in BOOLEAN /\ EngineLive \in BOOLEAN
    BY EngineTyped DEF InvalidatedOnDisk, EngineLive, Finished, Manifest
  <2>2. r \in ReaderRecord
    BY <1>1, <2>1 DEF ReaderRecord, ReaderPC
  <2>3. reader' = [reader EXCEPT ![p] = r]
    BY <1>2 DEF ApplyLoads
  <2> HIDE DEF r
  <2> QED BY <1>2, <2>2, <2>3 DEF ReaderMemory, ApplyLoads
<1>3. ASSUME NEW at, NEW passes, NEW next \in ReaderPC, Check(p, at, passes, next)
      PROVE  ReaderMemory(p)
  <2>1. [reader[p] EXCEPT !.pc = next] \in ReaderRecord
    BY <1>1 DEF ReaderRecord
  <2>2. CASE passes
    <3>1. reader' = [reader EXCEPT ![p] = [@ EXCEPT !.pc = next]] /\ UNCHANGED Others
      BY <1>3, <2>2 DEF Check
    <3> QED BY <2>1, <3>1 DEF ReaderMemory
  <2>3. CASE ~passes
    <3>1. reader' = [reader EXCEPT ![p] = [Idle EXCEPT !.pc = "refused"]] /\ UNCHANGED Others
      BY <1>3, <2>3 DEF Check
    <3> QED BY <3>1, RefusedType DEF ReaderMemory
  <2> QED BY <2>2, <2>3
<1>4. {"verdict", "certificate", "taint", "pick", "applied"} \subseteq ReaderPC
  BY DEF ReaderPC
<1> QED BY <1>2, <1>3, <1>4 DEF ApplySteps, ApplyVerifies, ApplyReadsVerdict,
           ApplyReadsCertificate, ApplyReadsTaint, CherryPick

LEMMA FinalityOfType ==
  ASSUME TypeOK
  PROVE  FinalityOf(art.verdict) \in Finality /\ FinalityOf(art.certificate) \in Finality
BY DEF TypeOK, FileContent, FinalityOf, Verdict, Certificate, Finality

LEMMA RegradeStepsType ==
  ASSUME TypeOK, NEW p \in Reader, RegradeSteps(p)
  PROVE  ReaderMemory(p)
<1>1. reader[p] \in ReaderRecord /\ DOMAIN reader = Reader
  BY DEF TypeOK
<1>2. CASE RegradeLoads(p)
  <2> DEFINE known == /\ InvalidatedOnDisk /\ art.genealogy # None
                      /\ manifest.seal = art
             r == [reader[p] EXCEPT !.pc = "preserve certificate", !.live = EngineLive,
                                    !.known = known]
  <2>1. known \in BOOLEAN /\ EngineLive \in BOOLEAN
    BY DEF EngineLive, Finished
  <2>2. r \in ReaderRecord
    BY <1>1, <2>1 DEF ReaderRecord, ReaderPC
  <2>3. reader' = [reader EXCEPT ![p] = r]
    BY <1>2 DEF RegradeLoads
  <2> HIDE DEF r
  <2> QED BY <1>2, <2>2, <2>3 DEF ReaderMemory, RegradeLoads
<1>3. ASSUME NEW next \in ReaderPC, NEW f \in DOMAIN NoChild, NEW v \in Finality,
             UNCHANGED Others,
             reader' = [reader EXCEPT ![p] = [@ EXCEPT !.pc = next, !.child[f] = v]]
      PROVE  ReaderMemory(p)
  <2> DEFINE child == [reader[p].child EXCEPT ![f] = v]
             r == [reader[p] EXCEPT !.pc = next, !.child = child]
  <2>1. child \in Child
    BY <1>1 DEF ReaderRecord, Child, NoChild
  <2>2. reader' = [reader EXCEPT ![p] = r]
    BY <1>1, <1>3 DEF ReaderRecord
  <2> HIDE DEF child
  <2>3. r \in ReaderRecord
    BY <1>1, <2>1 DEF ReaderRecord
  <2> HIDE DEF r
  <2> QED BY <1>3, <2>2, <2>3 DEF ReaderMemory
<1>4. CASE PreserveCertificate(p) \/ PreserveVerdict(p)
  BY <1>1, <1>3, <1>4, FinalityOfType DEF PreserveCertificate, PreserveVerdict, ReaderPC,
     NoChild, ReaderRecord, Child
<1>5. CASE ViewVerdict(p) \/ ViewCertificate(p)
  BY <1>1, <1>3, <1>5, FinalityOfType, RefusedType DEF ViewVerdict, ViewCertificate,
     ReaderPC, NoChild, ReaderMemory, ReaderRecord, Child
<1> QED BY <1>2, <1>4, <1>5 DEF RegradeSteps

LEMMA ReaderStepsType ==
  ASSUME TypeOK, NEW p \in Reader, ApplySteps(p) \/ RegradeSteps(p)
  PROVE  TypeOK'
BY ApplyStepsType, RegradeStepsType, ReaderTyped

LEMMA CrashType == ASSUME TypeOK, Crash PROVE TypeOK'
<1>1. CASE EngineLive /\ eng' = [Over(eng, "crashed") EXCEPT !.result = None]
           /\ lock' = (IF lock = Engine THEN None ELSE lock) /\ out' = out
  <2> DEFINE e == <<>>
  <2>1. e \in Seq(Write)
    OBVIOUS
  <2>2. eng' = [eng EXCEPT !.pc = "crashed", !.man = None, !.todo = e, !.snap = None,
                           !.result = None]
    BY <1>1, EngineTyped DEF Over, EngineRecord
  <2> HIDE DEF e
  <2>3. eng' \in EngineRecord /\ eng'.pc = "crashed"
    BY <2>1, <2>2, EngineTyped DEF EngineRecord, EnginePC
  <2>4. lock' # Engine /\ crashes' \in Nat
    BY <1>1, NamesAssumption, EngineTyped DEF Crash
  <2>5. UNCHANGED <<mode, art, manifest, reader, learned, early>>
    BY DEF Crash
  <2> QED BY <1>1, <2>3, <2>4, <2>5, EngineTyped, EngineStep
<1>2. ASSUME NEW o \in Outcome, out' = [out EXCEPT ![o] = Over(@, "crashed")],
             lock' = (IF lock = o THEN None ELSE lock), eng' = eng
      PROVE  TypeOK'
  <2> DEFINE r == Over(out[o], "crashed")
  <2>1. r \in OutcomeRecord /\ r.pc = "crashed"
    BY OutcomeTyped, OverType DEF OutcomePC
  <2>2. out' = [out EXCEPT ![o] = r] /\ lock' # o /\ crashes' \in Nat
    BY <1>2, NamesAssumption, EngineTyped DEF Crash
  <2>3. UNCHANGED <<mode, art, manifest, reader, learned, early>>
    BY DEF Crash
  <2> HIDE DEF r
  <2> QED BY <1>2, <2>1, <2>2, <2>3, EngineTyped, OutcomeTyped, OutcomeStep
<1> QED BY <1>1, <1>2 DEF Crash

LEMMA InitType == ASSUME Init PROVE TypeOK
<1>1. art \in FileContent
  BY DEF Init, FileContent
<1>2. manifest \in Manifest
  BY <1>1 DEF Init, Manifest, Finality
<1>3. EngineType
  BY <1>2 DEF Init, EngineType, EnginePC
<1>4. OutcomeType
  BY DEF Init, OutcomeType, OutcomePC, Stores
<1>6. reader \in [Reader -> ReaderRecord]
  BY DEF Init, Idle, NoChild, ReaderRecord, ReaderPC, Child, Finality
<1>5. learned \in [{"reliability", "calibration"} -> Seq(Outcome)]
  <2>1. {Stores[k] : k \in 1..Len(Stores)} = {"reliability", "calibration"}
    BY DEF Stores
  <2>2. <<>> \in Seq(Outcome)
    OBVIOUS
  <2> QED BY <2>1, <2>2 DEF Init
<1> QED BY <1>1, <1>2, <1>3, <1>4, <1>5, <1>6, NamesAssumption DEF Init, TypeOK

\* The files, the memories of all processes and the holder of .run.lock are what
\* they should be in every reachable state.
THEOREM TypeCorrect == Spec => []TypeOK
<1>1. ASSUME TypeOK, [Next]_vars PROVE TypeOK'
  <2>1. CASE UNCHANGED vars
    BY <1>1, <2>1 DEF vars, TypeOK, EngineType, OutcomeType
  <2> QED BY <1>1, <2>1, EngineStepsType, OutcomeStepsType, ReaderStepsType, CrashType
          DEF Next
<1> QED BY <1>1, InitType, PTL DEF Spec

-----------------------------------------------------------------------------
(* outcome.json is a fence: it is written once, and the learning stores     *)
(* hear of the run only from the command that wrote it, once each,          *)
(* reliability first.  The commands may pass the unlocked check together,   *)
(* time out and crash; what makes it work is that the fence is checked      *)
(* again under .run.lock and is the first file of the transaction.          *)

NothingLearned == learned["reliability"] = <<>> /\ learned["calibration"] = <<>>

\* How far the command that holds the fence has come with the stores.
LearnedUpTo(o) ==
  /\ learned["reliability"] = IF out[o].store = 1 THEN <<>> ELSE <<o>>
  /\ learned["calibration"] = IF out[o].store = 3 THEN <<o>> ELSE <<>>

\* The transaction is still whole: its first file is the fence.
Armed(o) == /\ out[o].todo # <<>> /\ Head(out[o].todo) = <<"outcome", o>>
            /\ Tail(out[o].todo) \in Seq(Write)
            /\ out[o].store = 1

\* Where a command stands with respect to the fence.
FenceOf(o) ==
  /\ out[o].pc \in {"idle", "lineage"} => out[o].store = 1
  /\ out[o].pc = "lock" => Armed(o)
  /\ out[o].pc = "write" =>
       /\ NothingLearned /\ out[o].store = 1
       /\ \/ art.outcome = None /\ Armed(o)
          \/ art.outcome = o /\ out[o].todo \in Seq(Write)
  /\ out[o].pc = "events" => /\ art.outcome = o /\ out[o].todo \in Seq(Write)
                             /\ LearnedUpTo(o)

Fence ==
  /\ art.outcome = None => NothingLearned
  /\ LearnedOnce
  /\ \A o \in Outcome : FenceOf(o)

\* LearnedOnce, store by store.
LEMMA LearnedOnceIs ==
  LearnedOnce <=> /\ learned["reliability"] \in {<<>>, <<art.outcome>>}
                  /\ learned["calibration"] \in {<<>>, <<art.outcome>>}
                  /\ learned["calibration"] # <<>> => learned["reliability"] # <<>>
<1>1. Len(Stores) = 2 /\ Stores[1] = "reliability" /\ Stores[2] = "calibration"
  BY DEF Stores
<1> QED BY <1>1 DEF LearnedOnce

LEMMA LearnedOnceNext ==
  ASSUME learned'["reliability"] \in {<<>>, <<art'.outcome>>},
         learned'["calibration"] \in {<<>>, <<art'.outcome>>},
         learned'["calibration"] # <<>> => learned'["reliability"] # <<>>
  PROVE  LearnedOnce'
<1>1. Len(Stores) = 2 /\ Stores[1] = "reliability" /\ Stores[2] = "calibration"
  BY DEF Stores
<1>2. \A k \in 1..Len(Stores) : k = 1 \/ k = 2
  BY <1>1
<1>3. \A k \in 1..Len(Stores) : learned'[Stores[k]] \in {<<>>, <<art'.outcome>>}
  BY <1>1, <1>2
<1> QED BY <1>3 DEF LearnedOnce

\* A step that changes neither the fence nor the stores nor a command keeps
\* where that command stands.
LEMMA FenceFrame ==
  ASSUME NEW q \in Outcome, FenceOf(q), out'[q] = out[q],
         \/ art'.outcome = art.outcome /\ learned' = learned
         \/ out[q].pc \notin {"write", "events"}
  PROVE  FenceOf(q)'
BY DEF FenceOf, Armed, NothingLearned, LearnedUpTo

\* Steps of the engine and of the readers never touch outcome.json.
LEMMA OthersKeepFence ==
  ASSUME TypeOK, Fence, out' = out, learned' = learned, art'.outcome = art.outcome
  PROVE  Fence'
<1>1. \A q \in Outcome : FenceOf(q)'
  BY FenceFrame DEF Fence
<1>2. LearnedOnce' /\ (art'.outcome = None => NothingLearned')
  BY DEF Fence, LearnedOnce, NothingLearned
<1> QED BY <1>1, <1>2 DEF Fence

\* A step of a command that leaves the fence and the stores alone.
LEMMA CommandKeepsFence ==
  ASSUME TypeOK, Fence, NEW o \in Outcome, NEW r, out' = [out EXCEPT ![o] = r],
         learned' = learned, art'.outcome = art.outcome, FenceOf(o)'
  PROVE  Fence'
<1>1. \A q \in Outcome : FenceOf(q)'
  <2> SUFFICES ASSUME NEW q \in Outcome, q # o PROVE FenceOf(q)'
    OBVIOUS
  <2>1. out'[q] = out[q]
    BY DEF TypeOK, OutcomeType
  <2> QED BY <2>1, FenceFrame DEF Fence
<1>2. LearnedOnce' /\ (art'.outcome = None => NothingLearned')
  BY DEF Fence, LearnedOnce, NothingLearned
<1> QED BY <1>1, <1>2 DEF Fence

\* A command that is over is past the fence.
LEMMA OverFence ==
  ASSUME TypeOK, Fence, NEW o \in Outcome,
         NEW pc \in {"refused", "failed", "done", "crashed"},
         out' = [out EXCEPT ![o] = Over(@, pc)],
         learned' = learned, art'.outcome = art.outcome
  PROVE  Fence'
<1> DEFINE r == Over(out[o], pc)
<1>1. r.pc = pc
  BY OutcomeTyped, OverType DEF OutcomePC
<1>2. out'[o].pc = pc /\ out' = [out EXCEPT ![o] = r]
  BY <1>1, OutcomeTyped
<1>3. FenceOf(o)'
  BY <1>2 DEF FenceOf
<1> HIDE DEF r
<1> QED BY <1>2, <1>3, CommandKeepsFence

\* The engine writes anything but outcome.json.
LEMMA EngineKeepsOutcome ==
  ASSUME TypeOK, EngineSteps
  PROVE  art'.outcome = art.outcome /\ out' = out /\ learned' = learned
<1>1. CASE DraftVerdict
  <2>1. [finality |-> "abort", blockers |-> {}, unresolved |-> {}] \in Verdict
    BY DEF Verdict, Finality
  <2> DEFINE w == <<"verdict", [finality |-> "abort", blockers |-> {}, unresolved |-> {}]>>
  <2>2. w \in AnyWrite /\ w[1] # "outcome" /\ art' = Put(art, w)
    BY <1>1, <2>1 DEF AnyWrite, Write, DraftVerdict
  <2> HIDE DEF w
  <2> QED BY <1>1, <2>2, EngineTyped, PutType DEF DraftVerdict
<1>2. CASE EngineWrites
  <2>1. Head(eng.todo) \in Write
    BY <1>2, EngineTyped DEF EngineWrites, EngineRecord
  <2>2. Head(eng.todo) \in AnyWrite /\ Head(eng.todo)[1] # "outcome"
    BY <2>1 DEF AnyWrite, Write
  <2> QED BY <1>2, <2>2, EngineTyped, PutType DEF EngineWrites
<1>4. CASE AddWorktrees \/ CleanUp
  BY <1>4, EngineTyped DEF AddWorktrees, CleanUp, FileContent
<1>3. CASE EngineSteps /\ ~AddWorktrees /\ ~DraftVerdict /\ ~EngineWrites /\ ~CleanUp
  BY <1>3 DEF EngineSteps, Conclude, EngineFails, PersistReads, EngineWritesManifest,
     EngineHashes, EngineSeals, EngineReloads, EngineTimesOut, RecordSubstitutions
<1> QED BY <1>1, <1>2, <1>3, <1>4

\* Each step of an outcome command keeps the fence and never replaces an outcome.
OutcomeKept == art.outcome # None => art'.outcome = art.outcome

LEMMA LoadFence ==
  ASSUME TypeOK, Fence, NEW o \in Outcome, Load(o)
  PROVE  Fence' /\ OutcomeKept
<1>1. CASE art.outcome # None
  BY <1>1, OverFence DEF Load, OutcomeKept
<1>2. CASE art.outcome = None
  <2>1. PICK invalid \in Invalidation :
          out' = [out EXCEPT ![o] = [@ EXCEPT !.pc = "lineage", !.man = manifest,
                                             !.invalid = invalid]]
    BY <1>2 DEF Load
  <2> DEFINE r == [out[o] EXCEPT !.pc = "lineage", !.man = manifest, !.invalid = invalid]
  <2>2. r.pc = "lineage" /\ r.store = out[o].store
    BY OutcomeTyped DEF OutcomeRecord
  <2>3. out' = [out EXCEPT ![o] = r] /\ out'[o] = r
    BY <2>1, OutcomeTyped
  <2> HIDE DEF r
  <2>4. FenceOf(o)'
    BY <2>2, <2>3 DEF Fence, FenceOf, Load
  <2> QED BY <2>3, <2>4, CommandKeepsFence DEF Load, OutcomeKept
<1> QED BY <1>1, <1>2

LEMMA ReadLineageFence ==
  ASSUME TypeOK, Fence, NEW o \in Outcome, ReadLineage(o)
  PROVE  Fence' /\ OutcomeKept
<1> DEFINE r == [out[o] EXCEPT !.pc = "lock", !.todo = OutcomeWrites(o),
                               !.lineage = InvalidatesLineage(o)]
<1>1. r.pc = "lock" /\ r.todo = OutcomeWrites(o) /\ r.store = out[o].store
  BY OutcomeTyped DEF OutcomeRecord
<1>2. out' = [out EXCEPT ![o] = r] /\ out'[o] = r
  BY OutcomeTyped DEF ReadLineage, OutcomeRecord
<1>3. out[o].store = 1
  BY DEF Fence, FenceOf, ReadLineage
<1> HIDE DEF r
<1>4. FenceOf(o)'
  BY <1>1, <1>2, <1>3, OutcomeWritesType DEF FenceOf, Armed
<1> QED BY <1>2, <1>4, CommandKeepsFence DEF ReadLineage, OutcomeKept

LEMMA BeginFence ==
  ASSUME TypeOK, Fence, NEW o \in Outcome, Begin(o)
  PROVE  Fence' /\ OutcomeKept
<1>1. CASE art.outcome # None
  BY <1>1, OverFence DEF Begin, OutcomeKept
<1>2. CASE art.outcome = None
  <2> DEFINE r == [out[o] EXCEPT !.pc = "write"]
  <2>1. r.pc = "write" /\ r.todo = out[o].todo /\ r.store = out[o].store
    BY OutcomeTyped DEF OutcomeRecord
  <2>2. out' = [out EXCEPT ![o] = r] /\ out'[o] = r
    BY <1>2, OutcomeTyped DEF Begin
  <2>3. Armed(o) /\ NothingLearned
    BY <1>2 DEF Begin, Fence, FenceOf
  <2> HIDE DEF r
  <2>4. FenceOf(o)'
    BY <1>2, <2>1, <2>2, <2>3 DEF FenceOf, Armed, NothingLearned, Begin
  <2> QED BY <2>2, <2>4, CommandKeepsFence DEF Begin, OutcomeKept
<1> QED BY <1>1, <1>2

LEMMA OutcomeWritesFileFence ==
  ASSUME TypeOK, Fence, NEW o \in Outcome, OutcomeWritesFile(o)
  PROVE  Fence' /\ OutcomeKept
<1> DEFINE r == [out[o] EXCEPT !.todo = Tail(@)]
<1>1. r.pc = out[o].pc /\ r.todo = Tail(out[o].todo) /\ r.store = out[o].store
  BY OutcomeTyped DEF OutcomeRecord
<1>2. out' = [out EXCEPT ![o] = r] /\ out'[o] = r /\ learned' = learned
  BY OutcomeTyped DEF OutcomeWritesFile
<1> HIDE DEF r
<1>3. FenceOf(o) /\ out[o].todo # <<>>
  BY DEF Fence, OutcomeWritesFile
<1>4. CASE out[o].pc = "write" /\ art.outcome = None /\ Armed(o)
  <2>1. <<"outcome", o>> \in AnyWrite /\ art' = Put(art, <<"outcome", o>>)
    BY <1>4 DEF AnyWrite, OutcomeWritesFile, Armed
  <2>2. art'.outcome = o
    BY <2>1, EngineTyped, PutType
  <2>3. FenceOf(o)'
    BY <1>1, <1>2, <1>3, <1>4, <2>2 DEF FenceOf, Armed, NothingLearned
  <2>4. \A q \in Outcome : q # o => FenceOf(q)'
    <3> SUFFICES ASSUME NEW q \in Outcome, q # o PROVE FenceOf(q)'
      OBVIOUS
    <3>1. out'[q] = out[q] /\ FenceOf(q)
      BY <1>2 DEF TypeOK, OutcomeType, Fence
    <3>2. out[q].pc \notin {"write", "events"}
      BY <1>4, <3>1, OutcomeTyped, NamesAssumption DEF FenceOf
    <3> QED BY <3>1, <3>2, FenceFrame
  <2>5. LearnedOnce'
    BY <1>2, <1>4, LearnedOnceNext DEF Fence, NothingLearned
  <2>6. art'.outcome # None
    BY <2>2, NamesAssumption
  <2> QED BY <1>4, <2>3, <2>4, <2>5, <2>6 DEF Fence, OutcomeKept
<1>5. CASE art.outcome = o /\ out[o].todo \in Seq(Write)
  <2>1. Head(out[o].todo) \in Write /\ Tail(out[o].todo) \in Seq(Write)
    BY <1>3, <1>5
  <2>2. Head(out[o].todo) \in AnyWrite /\ Head(out[o].todo)[1] # "outcome"
    BY <2>1 DEF AnyWrite, Write
  <2>3. art'.outcome = art.outcome
    BY <2>2, EngineTyped, PutType DEF OutcomeWritesFile
  <2>4. FenceOf(o)'
    BY <1>1, <1>2, <1>3, <1>5, <2>1, <2>3 DEF FenceOf, LearnedUpTo, NothingLearned,
       OutcomeWritesFile
  <2> QED BY <1>2, <2>3, <2>4, CommandKeepsFence DEF OutcomeKept
<1> QED BY <1>3, <1>4, <1>5 DEF FenceOf, OutcomeWritesFile

LEMMA CommitFence ==
  ASSUME TypeOK, Fence, NEW o \in Outcome, Commit(o)
  PROVE  Fence' /\ OutcomeKept
<1> DEFINE s == <<<<"events", <<o, "outcome">>>>>>
                \o IF out[o].lineage
                   THEN <<<<"events", <<o, "invalidation">>>>>> ELSE <<>>
           r == [out[o] EXCEPT !.pc = "events", !.man = None, !.todo = s]
<1>1. /\ <<"events", <<o, "outcome">>>> \in Write
      /\ <<"events", <<o, "invalidation">>>> \in Write
  BY DEF Write, Label
<1>2. s \in Seq(Write)
  BY <1>1
<1>3. out' = [out EXCEPT ![o] = r]
  BY DEF Commit
<1> HIDE DEF s
<1>4. r.pc = "events" /\ r.todo = s /\ r.store = out[o].store
  BY OutcomeTyped DEF OutcomeRecord
<1>5. out'[o] = r
  BY <1>3, OutcomeTyped
<1> HIDE DEF r
<1>6. art.outcome = o /\ NothingLearned /\ out[o].store = 1
  BY DEF Commit, Fence, FenceOf, Armed
<1>7. art' = art /\ learned' = learned
  BY DEF Commit
<1>8. LearnedUpTo(o)'
  BY <1>4, <1>5, <1>6, <1>7 DEF LearnedUpTo, NothingLearned
<1>9. FenceOf(o)'
  BY <1>2, <1>4, <1>5, <1>6, <1>7, <1>8 DEF FenceOf
<1> QED BY <1>3, <1>7, <1>9, CommandKeepsFence DEF OutcomeKept

LEMMA LearnFence ==
  ASSUME TypeOK, Fence, NEW o \in Outcome, Learn(o)
  PROVE  Fence' /\ OutcomeKept
<1>1. CASE out[o].store = 2 /\ art.verdict = None
  BY <1>1, OverFence DEF Learn, OutcomeKept
<1>2. CASE ~(out[o].store = 2 /\ art.verdict = None)
  <2> DEFINE r == [out[o] EXCEPT !.store = @ + 1]
  <2>1. out[o].store \in {1, 2}
    BY OutcomeTyped DEF Learn, OutcomeRecord, Stores
  <2>2. r.pc = "events" /\ r.todo = out[o].todo /\ r.store = out[o].store + 1
    BY <2>1, OutcomeTyped DEF OutcomeRecord, Learn
  <2>3. /\ out' = [out EXCEPT ![o] = r]
        /\ learned' = [learned EXCEPT ![Stores[out[o].store]] = Append(@, o)]
    BY <1>2 DEF Learn
  <2>4. out'[o] = r
    BY <2>3, OutcomeTyped
  <2> HIDE DEF r
  <2>5. art.outcome = o /\ out[o].todo \in Seq(Write) /\ LearnedUpTo(o)
    BY DEF Learn, Fence, FenceOf
  <2>6. Append(<<>>, o) = <<o>>
    OBVIOUS
  <2>7. /\ learned'["reliability"] = <<o>>
        /\ learned'["calibration"] = IF out[o].store = 2 THEN <<o>> ELSE <<>>
    <3>1. CASE out[o].store = 1
      <4>1. /\ learned["reliability"] = <<>> /\ learned["calibration"] = <<>>
            /\ Stores[out[o].store] = "reliability"
        BY <2>5, <3>1 DEF LearnedUpTo, Stores
      <4>2. learned' = [learned EXCEPT !["reliability"] = <<o>>]
        BY <2>3, <2>6, <4>1
      <4> QED BY <3>1, <4>1, <4>2, OutcomeTyped
    <3>2. CASE out[o].store = 2
      <4>1. /\ learned["reliability"] = <<o>> /\ learned["calibration"] = <<>>
            /\ Stores[out[o].store] = "calibration"
        BY <2>5, <3>2 DEF LearnedUpTo, Stores
      <4>2. learned' = [learned EXCEPT !["calibration"] = <<o>>]
        BY <2>3, <2>6, <4>1
      <4> QED BY <3>2, <4>1, <4>2, OutcomeTyped
    <3> QED BY <2>1, <3>1, <3>2
  <2>8. art' = art
    BY DEF Learn
  <2>9. FenceOf(o)'
    BY <2>1, <2>2, <2>4, <2>5, <2>7, <2>8 DEF FenceOf, LearnedUpTo
  <2>10. \A q \in Outcome : q # o => FenceOf(q)'
    <3> SUFFICES ASSUME NEW q \in Outcome, q # o PROVE FenceOf(q)'
      OBVIOUS
    <3>1. out'[q] = out[q] /\ FenceOf(q)
      BY <2>3 DEF TypeOK, OutcomeType, Fence
    <3>2. out[q].pc \notin {"write", "events"}
      BY <2>5, <3>1, NamesAssumption DEF FenceOf
    <3> QED BY <3>1, <3>2, FenceFrame
  <2>11. LearnedOnce'
    <3>1. learned'["reliability"] = <<art'.outcome>>
          /\ learned'["calibration"] \in {<<>>, <<art'.outcome>>}
      BY <2>5, <2>7, <2>8
    <3>2. learned'["reliability"] # <<>>
      BY <2>7
    <3> QED BY <3>1, <3>2, LearnedOnceNext
  <2>12. art'.outcome # None
    BY <2>5, <2>8, NamesAssumption
  <2> QED BY <2>8, <2>9, <2>10, <2>11, <2>12 DEF Fence, OutcomeKept
<1> QED BY <1>1, <1>2

LEMMA OutcomeHashesFence ==
  ASSUME TypeOK, Fence, NEW o \in Outcome, OutcomeHashes(o)
  PROVE  Fence' /\ OutcomeKept
<1> DEFINE r == [out[o] EXCEPT !.pc = "sealing", !.snap = Snapshot]
<1>1. r.pc = "sealing" /\ out' = [out EXCEPT ![o] = r] /\ out'[o] = r
  BY OutcomeTyped DEF OutcomeHashes, OutcomeRecord
<1> HIDE DEF r
<1>2. FenceOf(o)'
  BY <1>1 DEF FenceOf
<1> QED BY <1>1, <1>2, CommandKeepsFence DEF OutcomeHashes, OutcomeKept

LEMMA OutcomeStepsFence ==
  ASSUME TypeOK, Fence, NEW o \in Outcome, OutcomeSteps(o)
  PROVE  Fence' /\ OutcomeKept
<1>1. CASE OutcomeSeals(o)
  BY <1>1, OverFence DEF OutcomeSeals, OutcomeKept
<1>2. CASE OutcomeTimesOut(o)
  BY <1>2, OverFence DEF OutcomeTimesOut, OutcomeKept
<1> QED BY <1>1, <1>2, LoadFence, ReadLineageFence, BeginFence, OutcomeWritesFileFence,
          CommitFence, LearnFence, OutcomeHashesFence DEF OutcomeSteps

\* So does every step of the system.
LEMMA NextFence ==
  ASSUME TypeOK, Fence, [Next]_vars
  PROVE  Fence' /\ OutcomeKept
<1>1. CASE EngineSteps
  BY <1>1, EngineKeepsOutcome, OthersKeepFence DEF OutcomeKept
<1>2. CASE \E p \in Reader : ApplySteps(p) \/ RegradeSteps(p)
  BY <1>2, ApplyStepsType, RegradeStepsType, OthersKeepFence
     DEF ReaderMemory, Others, OutcomeKept
<1>3. CASE Crash
  <2>1. learned' = learned /\ art' = art
    BY <1>3 DEF Crash
  <2>2. CASE out' = out
    BY <2>1, <2>2, OthersKeepFence DEF OutcomeKept
  <2>3. CASE \E o \in Outcome : out' = [out EXCEPT ![o] = Over(@, "crashed")]
    BY <2>1, <2>3, OverFence DEF OutcomeKept
  <2> QED BY <1>3, <2>2, <2>3 DEF Crash
<1>4. CASE UNCHANGED vars
  BY <1>4, OthersKeepFence DEF vars, OutcomeKept
<1> QED BY <1>1, <1>2, <1>3, <1>4, OutcomeStepsFence DEF Next

LEMMA InitFence == ASSUME Init PROVE Fence
<1>1. {Stores[k] : k \in 1..Len(Stores)} = {"reliability", "calibration"}
  BY DEF Stores
<1>2. NothingLearned
  BY <1>1 DEF Init, NothingLearned
<1>3. LearnedOnce
  BY <1>2, LearnedOnceIs DEF NothingLearned
<1>4. \A o \in Outcome : out[o].pc = "idle" /\ out[o].store = 1
  BY DEF Init
<1> QED BY <1>2, <1>3, <1>4 DEF Fence, FenceOf

LEMMA FenceHolds == Spec => [](TypeOK /\ Fence)
<1>1. TypeOK /\ Fence /\ [Next]_vars /\ TypeOK' => Fence'
  BY NextFence
<1>2. Init => Fence
  BY InitFence
<1> QED BY <1>1, <1>2, TypeCorrect, PTL DEF Spec

\* Learning happens once per run: each store hears of it from the command whose
\* outcome is on disk, at most once, and calibration never before reliability.
THEOREM LearnsOnce == Spec => []LearnedOnce
<1>1. Fence => LearnedOnce
  BY DEF Fence
<1> QED BY <1>1, FenceHolds, PTL

\* outcome.json, once written, is never replaced.
THEOREM OutcomeIsFinal == Spec => OutcomeFinal
<1>1. TypeOK /\ Fence /\ [Next]_vars
        => [art.outcome # None => art'.outcome = art.outcome]_vars
  BY NextFence DEF OutcomeKept
<1> QED BY <1>1, FenceHolds, PTL DEF Spec, OutcomeFinal

-----------------------------------------------------------------------------
(* Lists of writes and the fields of the files.                            *)

\* What a process is still about to write, and whether a file is among it.
Pending(s) == {s[i] : i \in 1..Len(s)}
Awaits(s, name) == \E w \in Pending(s) : w[1] = name

\* Making the first write leaves the others.
LEMMA PendingTail ==
  ASSUME NEW T, NEW s \in Seq(T), s # <<>>
  PROVE  /\ Head(s) \in T /\ Head(s) \in Pending(s) /\ Tail(s) \in Seq(T)
         /\ Pending(Tail(s)) \subseteq Pending(s)
         /\ \A w \in Pending(s) : w = Head(s) \/ w \in Pending(Tail(s))
<1>1. Len(s) \in Nat \ {0} /\ Head(s) = s[1]
  OBVIOUS
<1>2. Tail(s) \in Seq(T) /\ Len(Tail(s)) = Len(s) - 1
  BY <1>1
<1>3. \A i \in 1..Len(Tail(s)) : Tail(s)[i] = s[i + 1] /\ i + 1 \in 1..Len(s)
  BY <1>1, <1>2
<1>4. \A i \in 1..Len(s) : i = 1 \/ (i - 1 \in 1..Len(Tail(s)) /\ Tail(s)[i - 1] = s[i])
  BY <1>1, <1>2
<1>5. Head(s) \in T /\ Head(s) \in Pending(s)
  BY <1>1 DEF Pending
<1>6. Pending(Tail(s)) \subseteq Pending(s)
  BY <1>2, <1>3 DEF Pending
<1>7. \A w \in Pending(s) : w = Head(s) \/ w \in Pending(Tail(s))
  BY <1>1, <1>4, ZenonT(60) DEF Pending
<1> QED BY <1>2, <1>5, <1>6, <1>7

\* What two lists of writes await together.
LEMMA PendingConcat ==
  ASSUME NEW T, NEW s \in Seq(T), NEW t \in Seq(T)
  PROVE  /\ s \o t \in Seq(T) /\ Pending(s \o t) = Pending(s) \cup Pending(t)
         /\ Len(s \o t) = Len(s) + Len(t) /\ Len(s) \in Nat
<1>1. Len(s) \in Nat /\ Len(t) \in Nat /\ Len(s \o t) = Len(s) + Len(t)
  OBVIOUS
<1>2. \A i \in 1..Len(s) : (s \o t)[i] = s[i] /\ i \in 1..Len(s \o t)
  BY <1>1
<1>3. \A i \in 1..Len(t) : (s \o t)[Len(s) + i] = t[i] /\ Len(s) + i \in 1..Len(s \o t)
  BY <1>1
<1>4. \A i \in 1..Len(s \o t) :
        \/ i \in 1..Len(s) /\ (s \o t)[i] = s[i]
        \/ i - Len(s) \in 1..Len(t) /\ (s \o t)[i] = t[i - Len(s)]
  BY <1>1
<1>5. Pending(s \o t) \subseteq Pending(s) \cup Pending(t)
  BY <1>4 DEF Pending
<1>6. Pending(s) \subseteq Pending(s \o t)
  BY <1>2 DEF Pending
<1>7. Pending(t) \subseteq Pending(s \o t)
  <2> SUFFICES ASSUME NEW i \in 1..Len(t) PROVE t[i] \in Pending(s \o t)
    BY DEF Pending
  <2> DEFINE j == Len(s) + i
  <2>1. j \in 1..Len(s \o t) /\ (s \o t)[j] = t[i]
    BY <1>3
  <2> HIDE DEF j
  <2> QED BY <2>1 DEF Pending
<1> QED BY <1>1, <1>5, <1>6, <1>7

\* Short lists of writes.
LEMMA PendingFew ==
  /\ Pending(<<>>) = {}
  /\ \A x : Pending(<<x>>) = {x}
  /\ \A x, y : Pending(<<x, y>>) = {x, y}
<1>1. Pending(<<>>) = {}
  BY DEF Pending
<1>2. ASSUME NEW x PROVE Pending(<<x>>) = {x}
  <2>1. Len(<<x>>) = 1 /\ <<x>>[1] = x /\ 1..1 = {1}
    OBVIOUS
  <2> QED BY <2>1 DEF Pending
<1>3. ASSUME NEW x, NEW y PROVE Pending(<<x, y>>) = {x, y}
  <2>1. Len(<<x, y>>) = 2 /\ <<x, y>>[1] = x /\ <<x, y>>[2] = y /\ 1..2 = {1, 2}
    OBVIOUS
  <2> QED BY <2>1 DEF Pending
<1> QED BY <1>1, <1>2, <1>3

\* A write changes the file it names and no other.
LEMMA PutFields ==
  ASSUME NEW a \in FileContent, NEW w \in AnyWrite
  PROVE  /\ Put(a, w).verdict = IF w[1] = "verdict" THEN w[2] ELSE a.verdict
         /\ Put(a, w).certificate = IF w[1] = "certificate" THEN w[2] ELSE a.certificate
         /\ Put(a, w).taint = IF w[1] = "taint" THEN w[2] ELSE a.taint
         /\ Put(a, w).genealogy = IF w[1] = "genealogy" THEN w[2] ELSE a.genealogy
BY DEF Put, FileContent, AnyWrite, Write

\* What is written is a content of the file it names.
LEMMA WriteTyped ==
  ASSUME NEW w \in AnyWrite
  PROVE  /\ w[1] = "verdict" => w[2] \in Verdict /\ w[2] # None
         /\ w[1] = "certificate" => w[2] \in Certificate /\ w[2] # None
         /\ w[1] = "taint" => w[2] \in SUBSET Subject /\ w[2] # None
         /\ w[1] = "genealogy" => w[2] \in SUBSET Node /\ w[2] # None
         /\ w[1] \in {"verdict", "certificate", "taint", "genealogy", "events", "outcome"}
         /\ w \in Write => w[1] # "outcome"
BY NoneAssumption DEF AnyWrite, Write, Subject

\* What is invalidated is tainted.
LEMMA TaintedHolds ==
  ASSUME NEW E, NEW I
  PROVE  I \subseteq Tainted(E, I)
BY DEF Tainted, Ids

-----------------------------------------------------------------------------
(***************************************************************************)
(* A run is never upgraded.  The engine writes the verdict, the certificate, the*)
(* taint and the genealogy one after the other, from a verdict it read before,*)
(* and outcome commands write the same files from what they read.  The files*)
(* agree with one another at every moment in the way Files says, and what each*)
(* process is still about to write keeps them so.                          *)
(***************************************************************************)

\* A certificate leaves unresolved at least what the verdict does.
Resolves(c) == art.verdict # None /\ art.verdict.unresolved \subseteq c.unresolved

\* A taint is empty only if the engine found nothing tainted.
Clean(t) == eng.seeds # {} => t # {}

\* persist_manifest has not judged the lineage yet.
Unjudged == art.certificate = None /\ art.taint = None /\ art.genealogy = None

\* What the files say of one another, complete or not.
Files ==
  /\ (art.verdict # None /\ art.verdict.finality = "semantic_commit") => mode = "implement"
  /\ art.certificate # None => Resolves(art.certificate)
  /\ art.taint # None => Clean(art.taint)
  /\ art.genealogy # None =>
       art.verdict # None /\ art.certificate # None /\ art.taint # None

\* What the engine may still write: before its verdict is saved, from what it has in
\* memory; in persist_manifest, what agrees with the verdict on disk.
EnginePending ==
  /\ eng.phase = "start" => eng.pc \in {"seal", "sealing", "reload", "crashed"}
  /\ eng.pc = "running" \/ eng.phase = "start" => Unjudged
  /\ \A w \in Pending(eng.todo) :
       /\ w[1] = "verdict" =>
            \/ /\ eng.pc = "conclude" /\ Unjudged
               /\ w[2].finality = "semantic_commit" => mode = "implement"
            \/ /\ eng.pc = "persist" /\ w[2].finality = "abort"
               /\ art.verdict # None /\ w[2].unresolved = art.verdict.unresolved
       /\ w[1] = "certificate" => eng.pc = "persist" /\ Resolves(w[2])
       /\ w[1] = "taint" => eng.pc = "persist" /\ Clean(w[2])
       /\ w[1] = "genealogy" =>
            /\ eng.pc = "persist" /\ art.verdict # None
            /\ Awaits(eng.todo, "certificate") \/ art.certificate # None
            /\ Awaits(eng.todo, "taint") \/ art.taint # None
  /\ \A i \in 1..Len(eng.todo) : eng.todo[i][1] = "genealogy" => i = Len(eng.todo)

\* What an outcome taints, and what it makes of a verdict and a certificate.
TaintOf(o) == Tainted(Edge, out[o].invalid)
AbortsFor(o, v) == v.finality = "abort" /\ "outcome" \in v.blockers
RevokesFor(o, c) == c.finality = "abort" /\ out[o].invalid \subseteq c.unresolved

\* What an outcome command is still about to write.
OutcomePending(o) ==
  out[o].pc \in {"lock", "write", "events"} =>
  \A w \in Pending(out[o].todo) :
    /\ w[1] \notin {"outcome", "events"} =>
         /\ art.genealogy # None /\ out[o].invalid # {} /\ out[o].pc # "events"
    /\ w[1] = "verdict" => AbortsFor(o, w[2]) /\ w[2].unresolved = art.verdict.unresolved
    /\ w[1] = "certificate" => RevokesFor(o, w[2]) /\ Resolves(w[2])
    /\ w[1] = "taint" => w[2] = TaintOf(o)
    /\ w[1] = "genealogy" => w[2] = TaintOf(o) \cap Node

\* The inductive invariant behind NeverUpgraded.
Lineage == Files /\ EnginePending /\ \A o \in Outcome : OutcomePending(o)

-----------------------------------------------------------------------------
\* A write that may be made.
Allowed(w) ==
  /\ w \in AnyWrite
  /\ w[1] = "verdict" =>
       \/ Unjudged /\ (w[2].finality = "semantic_commit" => mode = "implement")
       \/ /\ w[2].finality = "abort" /\ art.verdict # None
          /\ w[2].unresolved = art.verdict.unresolved
  /\ w[1] = "certificate" => Resolves(w[2])
  /\ w[1] = "taint" => Clean(w[2])
  /\ w[1] = "genealogy" => art.verdict # None /\ art.certificate # None /\ art.taint # None

\* Files are never removed, and once something was judged the verdict keeps its
\* unresolved claims and is not upgraded.
Onward ==
  /\ art.verdict # None => art'.verdict # None
  /\ art.certificate # None => art'.certificate # None
  /\ art.taint # None => art'.taint # None
  /\ art.genealogy # None => art'.genealogy # None
  /\ ~Unjudged => art'.verdict.unresolved = art.verdict.unresolved
  /\ ~Unjudged /\ art.verdict.finality = "abort" => art'.verdict.finality = "abort"

\* An allowed write keeps the files in agreement and upgrades nothing.
LEMMA WriteKeepsFiles ==
  ASSUME TypeOK, Files, NEW w, Allowed(w), art' = Put(art, w),
         mode' = mode, eng'.seeds = eng.seeds
  PROVE  Files' /\ Onward
<1>1. w \in AnyWrite /\ art \in FileContent
  BY EngineTyped DEF Allowed
<1>2. /\ art'.verdict = IF w[1] = "verdict" THEN w[2] ELSE art.verdict
      /\ art'.certificate = IF w[1] = "certificate" THEN w[2] ELSE art.certificate
      /\ art'.taint = IF w[1] = "taint" THEN w[2] ELSE art.taint
      /\ art'.genealogy = IF w[1] = "genealogy" THEN w[2] ELSE art.genealogy
  BY <1>1, PutFields
<1>3. Onward
  BY <1>1, <1>2, WriteTyped DEF Allowed, Onward, Unjudged
<1>4. (art'.verdict # None /\ art'.verdict.finality = "semantic_commit") => mode' = "implement"
  BY <1>1, <1>2 DEF Allowed, Files
<1>5. (art.certificate # None => Resolves(art.certificate))'
  <2>1. CASE w[1] = "verdict"
    BY <1>1, <1>2, <2>1, WriteTyped DEF Allowed, Files, Resolves, Unjudged
  <2>2. CASE w[1] = "certificate"
    BY <1>1, <1>2, <2>2 DEF Allowed, Files, Resolves
  <2>3. CASE w[1] \notin {"verdict", "certificate"}
    BY <1>1, <1>2, <2>3 DEF Files, Resolves
  <2> QED BY <2>1, <2>2, <2>3
<1>6. (art.taint # None => Clean(art.taint))'
  BY <1>2 DEF Allowed, Files, Clean
<1>7. art'.genealogy # None =>
        art'.verdict # None /\ art'.certificate # None /\ art'.taint # None
  BY <1>2, <1>3 DEF Allowed, Files, Onward
<1> QED BY <1>3, <1>4, <1>5, <1>6, <1>7 DEF Files

\* A step that writes nothing.
LEMMA FilesFrame ==
  ASSUME Files, UNCHANGED <<mode, art>>, eng'.seeds = eng.seeds
  PROVE  Files' /\ Onward
BY DEF Files, Onward, Resolves, Clean

\* Where a command stands is kept by a step that leaves it alone.
LEMMA OutcomePendingFrame ==
  ASSUME NEW o, OutcomePending(o), Onward, Files,
         out'[o].invalid = out[o].invalid,
         \/ out'[o].pc \notin {"lock", "write", "events"}
         \/ /\ out[o].pc \in {"lock", "write", "events"}
            /\ out'[o].pc = "events" => out[o].pc = "events"
            /\ Pending(out'[o].todo) \subseteq Pending(out[o].todo)
  PROVE  OutcomePending(o)'
<1> SUFFICES ASSUME out'[o].pc \in {"lock", "write", "events"},
                    NEW w \in Pending(out'[o].todo)
             PROVE  (/\ w[1] \notin {"outcome", "events"} =>
                         /\ art.genealogy # None /\ out[o].invalid # {}
                         /\ out[o].pc # "events"
                     /\ w[1] = "verdict" =>
                          AbortsFor(o, w[2]) /\ w[2].unresolved = art.verdict.unresolved
                     /\ w[1] = "certificate" => RevokesFor(o, w[2]) /\ Resolves(w[2])
                     /\ w[1] = "taint" => w[2] = TaintOf(o)
                     /\ w[1] = "genealogy" => w[2] = TaintOf(o) \cap Node)'
  BY DEF OutcomePending, Pending
<1>1. TaintOf(o)' = TaintOf(o)
  BY DEF TaintOf
<1>2. w \in Pending(out[o].todo)
  OBVIOUS
<1>3. w[1] \notin {"outcome", "events"} =>
         /\ art.genealogy # None /\ out[o].invalid # {} /\ out[o].pc # "events"
  BY <1>2 DEF OutcomePending
<1>4. art.genealogy # None => /\ art'.genealogy # None /\ art'.verdict # None
                              /\ art'.verdict.unresolved = art.verdict.unresolved
  BY DEF Onward, Files, Unjudged
<1> HIDE DEF TaintOf
<1>5. /\ w[1] = "verdict" => AbortsFor(o, w[2]) /\ w[2].unresolved = art.verdict.unresolved
      /\ w[1] = "certificate" => RevokesFor(o, w[2]) /\ Resolves(w[2])
      /\ w[1] = "taint" => w[2] = TaintOf(o)
      /\ w[1] = "genealogy" => w[2] = TaintOf(o) \cap Node
  BY <1>2 DEF OutcomePending
<1>6. w[1] = "verdict" => AbortsFor(o, w[2])' /\ w[2].unresolved = art'.verdict.unresolved
  BY <1>3, <1>4, <1>5 DEF AbortsFor
<1>7. w[1] = "certificate" => RevokesFor(o, w[2])' /\ Resolves(w[2])'
  BY <1>3, <1>4, <1>5 DEF RevokesFor, Resolves
<1>8. w[1] \notin {"outcome", "events"} =>
         art'.genealogy # None /\ out'[o].invalid # {} /\ out'[o].pc # "events"
  BY <1>3, <1>4
<1>9. /\ w[1] = "taint" => w[2] = TaintOf(o)'
      /\ w[1] = "genealogy" => w[2] = TaintOf(o)' \cap Node
  BY <1>1, <1>5
<1> QED BY <1>6, <1>7, <1>8, <1>9

\* The genealogy is written last.
LEMMA LastOfTwo ==
  ASSUME NEW T, NEW s \in Seq(T), NEW t \in Seq(T), Len(t) = 2,
         \A w \in Pending(s) : w[1] # "genealogy", t[1][1] # "genealogy"
  PROVE  \A i \in 1..Len(s \o t) :
           (s \o t)[i][1] = "genealogy" => i = Len(s \o t)
<1>1. Len(s \o t) = Len(s) + 2 /\ Len(s) \in Nat
  BY PendingConcat
<1>2. \A i \in 1..Len(s) : (s \o t)[i] = s[i]
  OBVIOUS
<1>3. (s \o t)[Len(s) + 1] = t[1]
  OBVIOUS
<1>4. \A i \in 1..Len(s \o t) : i \in 1..Len(s) \/ i = Len(s) + 1 \/ i = Len(s \o t)
  BY <1>1
<1>5. \A i \in 1..Len(s) : s[i][1] # "genealogy"
  BY DEF Pending
<1> QED BY <1>1, <1>2, <1>3, <1>4, <1>5

\* What persist_manifest writes, having read a verdict (protocols.py:443-561).
LEMMA PersistWritesAre ==
  ASSUME NEW v \in Verdict, eng.seeds \in SUBSET Node
  PROVE  LET s == PersistWrites(v)
         IN  /\ \A w \in Pending(s) :
                  /\ w[1] = "verdict" => w[2].finality = "abort" /\ w[2].unresolved = v.unresolved
                  /\ w[1] = "certificate" => w[2].unresolved = v.unresolved
                  /\ w[1] = "taint" => w[2] = Tainted(Edge, eng.seeds)
             /\ Awaits(s, "certificate") /\ Awaits(s, "taint") /\ Awaits(s, "genealogy")
             /\ \A i \in 1..Len(s) : s[i][1] = "genealogy" => i = Len(s)
<1> DEFINE certified  == CertifiedFinality(v)
           downgraded == v.finality = "semantic_commit" /\ certified # "semantic_commit"
           tainted    == Tainted(Edge, eng.seeds)
           v1 == IF downgraded THEN [v EXCEPT !.finality = "abort"] ELSE v
           v2 == [v1 EXCEPT !.finality = "abort", !.blockers = @ \cup {"taint"}]
           c  == [finality |-> certified, unresolved |-> v.unresolved]
           wv1 == <<"verdict", v1>>
           wv2 == <<"verdict", v2>>
           wc == <<"certificate", c>>
           wt == <<"taint", tainted>>
           wg == <<"genealogy", tainted \cap Node>>
           T == {wv1, wv2, wc, wt, wg}
           s1 == IF downgraded THEN <<wv1>> ELSE <<>>
           s2 == <<wc>>
           s3 == IF Final \in tainted THEN <<wv2>> ELSE <<>>
           s4 == <<wt, wg>>
           r == (s1 \o s2) \o s3
<1>1. PersistWrites(v) = r \o s4
  BY DEF PersistWrites
<1>2. downgraded => v1.finality = "abort" /\ v1.unresolved = v.unresolved
  BY DEF Verdict
<1>3. v2.finality = "abort" /\ v2.unresolved = v.unresolved
  BY DEF Verdict
<1>4. c.unresolved = v.unresolved
  OBVIOUS
<1> HIDE DEF certified, tainted, v1, v2, c, downgraded
<1>5. /\ wv1[1] = "verdict" /\ wv1[2] = v1 /\ wv2[1] = "verdict" /\ wv2[2] = v2
      /\ wc[1] = "certificate" /\ wc[2] = c /\ wt[1] = "taint" /\ wt[2] = tainted
      /\ wg[1] = "genealogy"
  OBVIOUS
<1> HIDE DEF wv1, wv2, wc, wt, wg
<1>6. wv1 \in T /\ wv2 \in T /\ wc \in T /\ wt \in T /\ wg \in T
  OBVIOUS
<1> HIDE DEF T
<1>7. /\ s1 \in Seq(T) /\ s2 \in Seq(T) /\ s3 \in Seq(T) /\ s4 \in Seq(T)
      /\ Len(s4) = 2 /\ s4[1] = wt
  BY <1>6
<1>8. /\ Pending(s1) = IF downgraded THEN {wv1} ELSE {}
      /\ Pending(s2) = {wc}
      /\ Pending(s3) = IF Final \in tainted THEN {wv2} ELSE {}
      /\ Pending(s4) = {wt, wg}
  BY PendingFew
<1> HIDE DEF s1, s2, s3, s4
<1>9. /\ r \in Seq(T) /\ Pending(r) = (Pending(s1) \cup {wc}) \cup Pending(s3)
      /\ Pending(r \o s4) = Pending(r) \cup {wt, wg}
  <2> DEFINE s12 == s1 \o s2
  <2>1. s12 \in Seq(T) /\ Pending(s12) = Pending(s1) \cup {wc}
    BY <1>7, <1>8, PendingConcat
  <2> HIDE DEF s12
  <2>2. s12 \o s3 \in Seq(T) /\ Pending(s12 \o s3) = Pending(s12) \cup Pending(s3)
    BY <1>7, <2>1, PendingConcat
  <2>3. r = s12 \o s3 /\ r \in Seq(T)
    BY <2>2 DEF s12
  <2> HIDE DEF r
  <2>4. Pending(r \o s4) = Pending(r) \cup Pending(s4)
    BY <1>7, <2>3, PendingConcat
  <2> QED BY <1>8, <2>1, <2>2, <2>3, <2>4
<1> HIDE DEF r
<1>10. \A i \in 1..Len(r \o s4) : (r \o s4)[i][1] = "genealogy" => i = Len(r \o s4)
  <2>1. \A w \in Pending(r) : w[1] # "genealogy"
    BY <1>5, <1>8, <1>9
  <2>2. s4[1][1] # "genealogy"
    BY <1>5, <1>7
  <2> QED BY <1>7, <1>9, <2>1, <2>2, LastOfTwo
<1>11. \A w \in Pending(r \o s4) :
         /\ w[1] = "verdict" => w[2].finality = "abort" /\ w[2].unresolved = v.unresolved
         /\ w[1] = "certificate" => w[2].unresolved = v.unresolved
         /\ w[1] = "taint" => w[2] = tainted
  BY <1>2, <1>3, <1>4, <1>5, <1>8, <1>9
<1>12. /\ wc \in Pending(r \o s4) /\ wt \in Pending(r \o s4)
       /\ wg \in Pending(r \o s4)
  BY <1>9
<1> QED BY <1>1, <1>5, <1>10, <1>11, <1>12 DEF Awaits, tainted

\* What an outcome command writes (reason_assembly.py:833-886).
LEMMA OutcomeWritesAre ==
  ASSUME TypeOK, NEW o \in Outcome
  PROVE  LET s == OutcomeWrites(o)
         IN  /\ \A w \in Pending(s) :
                  /\ w[1] # "events"
                  /\ w[1] # "outcome" => InvalidatesLineage(o)
                  /\ w[1] = "verdict" => /\ w[2].finality = "abort"
                                         /\ "outcome" \in w[2].blockers
                                         /\ art.verdict # None
                                         /\ w[2].unresolved = art.verdict.unresolved
                  /\ w[1] = "certificate" =>
                       /\ w[2].finality = "abort"
                       /\ art.certificate # None
                       /\ w[2].unresolved = art.certificate.unresolved \cup out[o].invalid
                  /\ w[1] = "taint" => w[2] = Tainted(Edge, out[o].invalid)
                  /\ w[1] = "genealogy" => w[2] = Tainted(Edge, out[o].invalid) \cap Node
             /\ InvalidatesLineage(o) =>
                  /\ Awaits(s, "genealogy") /\ Awaits(s, "taint")
                  /\ art.verdict # None => Awaits(s, "verdict")
                  /\ art.certificate # None => Awaits(s, "certificate")
<1> DEFINE invalid == out[o].invalid
           tainted == Tainted(Edge, invalid)
           v == [art.verdict EXCEPT !.blockers = @ \cup {"outcome"}, !.finality = "abort"]
           c == [art.certificate EXCEPT !.unresolved = @ \cup invalid, !.finality = "abort"]
           wo == <<"outcome", o>>
           wv == <<"verdict", v>>
           wc == <<"certificate", c>>
           wt == <<"taint", tainted>>
           wg == <<"genealogy", tainted \cap Node>>
           T == {wo, wv, wc, wt, wg}
           s0 == <<wo>>
           s1 == <<wg, wt>>
           s2 == IF art.verdict = None THEN <<>> ELSE <<wv>>
           s3 == IF art.certificate = None THEN <<>> ELSE <<wc>>
           s == IF ~InvalidatesLineage(o) THEN <<>> ELSE (s1 \o s2) \o s3
<1>1. OutcomeWrites(o) = s0 \o s
  BY DEF OutcomeWrites
<1>2. art.verdict # None =>
        /\ v.finality = "abort" /\ "outcome" \in v.blockers
        /\ v.unresolved = art.verdict.unresolved
  BY DEF TypeOK, FileContent, Verdict
<1>3. art.certificate # None =>
        c.finality = "abort" /\ c.unresolved = art.certificate.unresolved \cup invalid
  BY DEF TypeOK, FileContent, Certificate
<1> HIDE DEF invalid, tainted, v, c
<1>4. /\ wo[1] = "outcome" /\ wv[1] = "verdict" /\ wv[2] = v
      /\ wc[1] = "certificate" /\ wc[2] = c /\ wt[1] = "taint" /\ wt[2] = tainted
      /\ wg[1] = "genealogy" /\ wg[2] = tainted \cap Node
  OBVIOUS
<1> HIDE DEF wo, wv, wc, wt, wg
<1>5. wo \in T /\ wv \in T /\ wc \in T /\ wt \in T /\ wg \in T
  OBVIOUS
<1> HIDE DEF T
<1>6. /\ s0 \in Seq(T) /\ s1 \in Seq(T) /\ s2 \in Seq(T) /\ s3 \in Seq(T)
      /\ <<>> \in Seq(T)
  BY <1>5
<1>7. /\ Pending(s0) = {wo} /\ Pending(s1) = {wg, wt}
      /\ Pending(s2) = IF art.verdict = None THEN {} ELSE {wv}
      /\ Pending(s3) = IF art.certificate = None THEN {} ELSE {wc}
      /\ Pending(<<>>) = {}
  BY PendingFew
<1> HIDE DEF s0, s1, s2, s3
<1>8. /\ s \in Seq(T)
      /\ Pending(s) = IF ~InvalidatesLineage(o) THEN {}
                      ELSE (Pending(s1) \cup Pending(s2)) \cup Pending(s3)
  <2> DEFINE s12 == s1 \o s2
  <2>1. s12 \in Seq(T) /\ Pending(s12) = Pending(s1) \cup Pending(s2)
    BY <1>6, PendingConcat
  <2> HIDE DEF s12
  <2>2. s12 \o s3 \in Seq(T) /\ Pending(s12 \o s3) = Pending(s12) \cup Pending(s3)
    BY <1>6, <2>1, PendingConcat
  <2>3. s = IF ~InvalidatesLineage(o) THEN <<>> ELSE s12 \o s3
    BY DEF s12
  <2> HIDE DEF s
  <2> QED BY <1>6, <1>7, <2>1, <2>2, <2>3
<1> HIDE DEF s
<1>9. Pending(OutcomeWrites(o)) = {wo} \cup Pending(s)
  <2>1. Pending(s0 \o s) = Pending(s0) \cup Pending(s)
    BY <1>6, <1>8, PendingConcat
  <2> QED BY <1>1, <1>7, <2>1
<1>10. InvalidatesLineage(o) =>
         /\ wg \in Pending(OutcomeWrites(o)) /\ wt \in Pending(OutcomeWrites(o))
         /\ art.verdict # None => wv \in Pending(OutcomeWrites(o))
         /\ art.certificate # None => wc \in Pending(OutcomeWrites(o))
  BY <1>7, <1>8, <1>9
<1>11. InvalidatesLineage(o) =>
         /\ Awaits(OutcomeWrites(o), "genealogy") /\ Awaits(OutcomeWrites(o), "taint")
         /\ art.verdict # None => Awaits(OutcomeWrites(o), "verdict")
         /\ art.certificate # None => Awaits(OutcomeWrites(o), "certificate")
  BY <1>4, <1>10 DEF Awaits
<1> DEFINE Fine(w) ==
             /\ w[1] # "events"
             /\ w[1] # "outcome" => InvalidatesLineage(o)
             /\ w[1] = "verdict" => w[2] = v /\ art.verdict # None
             /\ w[1] = "certificate" => w[2] = c /\ art.certificate # None
             /\ w[1] = "taint" => w[2] = tainted
             /\ w[1] = "genealogy" => w[2] = tainted \cap Node
<1>12. \A w \in Pending(OutcomeWrites(o)) : Fine(w)
  BY <1>4, <1>7, <1>8, <1>9
<1> QED BY <1>2, <1>3, <1>11, <1>12 DEF invalid, tainted

\* An engine that is not saving has at most an event to write.
LEMMA EngineAtRest ==
  ASSUME TypeOK, EnginePending, eng.pc \notin {"conclude", "persist"} \/ eng.todo = <<>>
  PROVE  \A w \in Pending(eng.todo) : w[1] = "events"
<1>1. CASE eng.todo = <<>>
  BY <1>1, PendingFew
<1>2. CASE eng.pc \notin {"conclude", "persist"}
  <2>1. \A w \in Pending(eng.todo) : w \in Write
    BY EngineTyped DEF EngineRecord, Pending
  <2> QED BY <1>2, <2>1, WriteTyped DEF EnginePending, AnyWrite
<1> QED BY <1>1, <1>2

\* An event touches no file of the lineage.
LEMMA OnlyEvents ==
  ASSUME \A w \in Pending(eng'.todo) : w[1] = "events",
         eng'.phase = "start" => eng'.pc \in {"seal", "sealing", "reload", "crashed"},
         eng'.pc = "running" \/ eng'.phase = "start" => Unjudged'
  PROVE  EnginePending'
<1>1. \A i \in 1..Len(eng'.todo) : eng'.todo[i][1] = "events"
  BY DEF Pending
<1> QED BY <1>1 DEF EnginePending, Pending

\* A write of one process leaves what another is about to write in order.
LEMMA OthersPending ==
  ASSUME Lineage, Onward, out' = out
  PROVE  \A o \in Outcome : OutcomePending(o)'
BY OutcomePendingFrame DEF Lineage

\* A step of the engine that writes no file and has nothing more to write.
LEMMA EngineRests ==
  ASSUME Lineage, UNCHANGED <<mode, art, out>>, eng'.seeds = eng.seeds,
         eng'.phase = "start" => eng.phase = "start",
         eng'.phase = "start" => eng'.pc \in {"seal", "sealing", "reload", "crashed"},
         eng'.pc = "running" => eng.phase = "start",
         \A w \in Pending(eng'.todo) : w[1] = "events"
  PROVE  Lineage' /\ Onward
<1>1. eng'.pc = "running" \/ eng'.phase = "start" => Unjudged'
  BY DEF Lineage, EnginePending, Unjudged
<1> QED BY <1>1, FilesFrame, OnlyEvents, OthersPending DEF Lineage

LEMMA AddWorktreesLineage == ASSUME TypeOK, Lineage, AddWorktrees PROVE Lineage' /\ Onward
<1>1. /\ art'.verdict = art.verdict /\ art'.certificate = art.certificate
      /\ art'.taint = art.taint /\ art'.genealogy = art.genealogy
      /\ UNCHANGED <<mode, eng, out>> /\ eng.pc = "running"
  BY EngineTyped DEF AddWorktrees, FileContent
<1>2. Files' /\ Onward
  BY <1>1 DEF Files, Onward, Resolves, Clean, Lineage
<1>3. \A w \in Pending(eng.todo) : w[1] = "events"
  BY <1>1, EngineAtRest DEF Lineage
<1>4. Unjudged'
  BY <1>1 DEF Lineage, EnginePending, Unjudged
<1> QED BY <1>1, <1>2, <1>3, <1>4, OnlyEvents, OthersPending DEF Lineage, EnginePending

LEMMA DraftVerdictLineage == ASSUME TypeOK, Lineage, DraftVerdict PROVE Lineage' /\ Onward
<1> DEFINE v == [finality |-> "abort", blockers |-> {}, unresolved |-> {}]
           w == <<"verdict", v>>
<1>1. v \in Verdict /\ v.finality = "abort"
  BY DEF Verdict, Finality
<1> HIDE DEF v
<1>2. w \in AnyWrite /\ w[1] = "verdict" /\ w[2] = v
  BY <1>1 DEF AnyWrite, Write
<1>3. art' = Put(art, w)
  BY DEF DraftVerdict, v
<1> HIDE DEF w
<1>4. Unjudged /\ eng.pc = "running"
  BY DEF DraftVerdict, Lineage, EnginePending
<1>5. Allowed(w)
  BY <1>1, <1>2, <1>4 DEF Allowed
<1>6. Files' /\ Onward
  BY <1>3, <1>5, WriteKeepsFiles DEF DraftVerdict, Lineage
<1>7. Unjudged'
  BY <1>2, <1>3, <1>4, EngineTyped, PutFields DEF Unjudged
<1>8. EnginePending'
  <2>1. \A u \in Pending(eng.todo) : u[1] = "events"
    BY <1>4, EngineAtRest DEF Lineage
  <2>2. \A i \in 1..Len(eng.todo) : eng.todo[i][1] = "events"
    BY <2>1 DEF Pending
  <2>3. eng' = eng
    BY DEF DraftVerdict
  <2>4. eng.phase # "start"
    BY <1>4 DEF Lineage, EnginePending
  <2> QED BY <1>7, <2>1, <2>2, <2>3, <2>4 DEF EnginePending, Pending
<1>9. out' = out
  BY DEF DraftVerdict
<1> QED BY <1>6, <1>8, <1>9, OthersPending DEF Lineage

LEMMA ConcludeLineage == ASSUME TypeOK, Lineage, Conclude PROVE Lineage' /\ Onward
<1>1. PICK e \in Endings, found \in Findings,
           task \in {"implementation", "other"} :
       eng' = [eng EXCEPT
         !.pc = "conclude",
         !.seeds = found[1],
         !.task = task,
         !.man.status = e[2], !.man.finality = e[1],
         !.man.commit = (e[1] = "semantic_commit"),
         !.todo = <<<<"verdict", [finality |-> e[1], unresolved |-> found[2],
                       blockers |-> IF e[2] = "blocked" THEN {"verdict"} ELSE {}]>>>>
                  \o (IF mode = "council" \/ e[2] = "completed"
                      THEN <<<<"events", <<Engine, "completed">>>>>> ELSE <<>>)]
  <2>1. (IF mode = "implement" THEN {"implementation"} ELSE {"implementation", "other"})
          \subseteq {"implementation", "other"}
    OBVIOUS
  <2> QED BY <2>1, ZenonT(60) DEF Conclude
<1> DEFINE v == [finality |-> e[1], unresolved |-> found[2],
                 blockers |-> IF e[2] = "blocked" THEN {"verdict"} ELSE {}]
           wv == <<"verdict", v>>
           we == <<"events", <<Engine, "completed">>>>
           T == {wv, we}
           s1 == <<wv>>
           s2 == IF mode = "council" \/ e[2] = "completed" THEN <<we>> ELSE <<>>
<1>2. e[1] = "semantic_commit" => mode = "implement"
  BY ModesAssumption DEF Endings, TypeOK
<1>3. Unjudged /\ UNCHANGED <<mode, art, out>> /\ eng.phase # "start"
  BY DEF Conclude, Lineage, EnginePending
<1>4. eng'.pc = "conclude" /\ eng'.todo = s1 \o s2 /\ eng'.phase = eng.phase
  <2>1. eng' = [eng EXCEPT !.pc = "conclude", !.seeds = found[1], !.task = task,
                           !.man.status = e[2], !.man.finality = e[1],
                           !.man.commit = (e[1] = "semantic_commit"), !.todo = s1 \o s2]
    BY <1>1, ZenonT(60)
  <2> HIDE DEF s1, s2
  <2> QED BY <2>1, EngineTyped DEF EngineRecord
<1>5. wv[1] = "verdict" /\ wv[2].finality = e[1] /\ we[1] = "events"
  OBVIOUS
<1> HIDE DEF wv, we
<1>6. wv \in T /\ we \in T
  OBVIOUS
<1> HIDE DEF T
<1>7. s1 \in Seq(T) /\ s2 \in Seq(T)
  BY <1>6
<1>8. Pending(s1) = {wv} /\ Pending(s2) \subseteq {we}
  BY PendingFew
<1> HIDE DEF s1, s2
<1>9. Pending(eng'.todo) \subseteq {wv, we}
  <2>1. Pending(s1 \o s2) = Pending(s1) \cup Pending(s2)
    BY <1>7, PendingConcat
  <2> QED BY <1>4, <1>8, <2>1
<1>10. \A i \in 1..Len(eng'.todo) : eng'.todo[i][1] # "genealogy"
  BY <1>5, <1>9 DEF Pending
<1>11. Unjudged'
  BY <1>3 DEF Unjudged
<1>12. EnginePending'
  BY <1>2, <1>3, <1>4, <1>5, <1>9, <1>10, <1>11 DEF EnginePending, Pending
<1>13. Files' /\ Onward
  BY <1>3, <1>11 DEF Files, Onward, Unjudged, Lineage
<1> QED BY <1>3, <1>12, <1>13, OthersPending DEF Lineage

\* An engine that fails saves its manifest and an event, nothing else.
LEMMA FailedIs ==
  ASSUME NEW e \in EngineRecord
  PROVE  /\ Failed(e).pc = "conclude" /\ Failed(e).seeds = e.seeds
         /\ Failed(e).result = e.result /\ Failed(e).phase = "except"
         /\ Failed(e).snap = e.snap
         /\ e.man \in Manifest => /\ Failed(e).man.seal = e.man.seal
                                  /\ Failed(e).man.commit = e.man.commit
         /\ \A w \in Pending(Failed(e).todo) : w[1] = "events"
<1> DEFINE m == [e.man EXCEPT !.status = "failed"]
           w == <<"events", <<Engine, "failed">>>>
           s == <<w>>
<1>1. Failed(e) = [e EXCEPT !.pc = "conclude", !.phase = "except", !.man = m, !.todo = s]
  BY DEF Failed, EngineRecord
<1>2. e.man \in Manifest => m.seal = e.man.seal /\ m.commit = e.man.commit
  BY DEF Manifest
<1>3. w[1] = "events"
  OBVIOUS
<1> HIDE DEF w
<1>4. Pending(s) = {w}
  BY PendingFew
<1> HIDE DEF m, s
<1> QED BY <1>1, <1>2, <1>3, <1>4 DEF EngineRecord

LEMMA EngineFailsLineage == ASSUME TypeOK, Lineage, EngineFails PROVE Lineage' /\ Onward
BY EngineTyped, FailedIs, EngineRests DEF EngineFails

LEMMA PersistReadsLineage == ASSUME TypeOK, Lineage, PersistReads PROVE Lineage' /\ Onward
<1>1. CASE eng.man.status \in {"completed", "blocked"} /\ art.verdict # None
  <2> DEFINE v == art.verdict
  <2>1. v \in Verdict /\ eng.seeds \in SUBSET Node
    BY <1>1, EngineTyped DEF FileContent, EngineRecord
  <2>2. /\ eng'.pc = "persist" /\ eng'.todo = PersistWrites(v) /\ eng'.seeds = eng.seeds
        /\ eng'.phase = eng.phase /\ eng.pc = "conclude" /\ UNCHANGED <<mode, art, out>>
    BY <1>1, EngineTyped DEF PersistReads, EngineRecord
  <2>3. eng.seeds \subseteq Tainted(Edge, eng.seeds)
    BY TaintedHolds
  <2>4. /\ \A w \in Pending(eng'.todo) :
             /\ w[1] = "verdict" => w[2].finality = "abort" /\ w[2].unresolved = v.unresolved
             /\ w[1] = "certificate" => w[2].unresolved = v.unresolved
             /\ w[1] = "taint" => w[2] = Tainted(Edge, eng.seeds)
        /\ Awaits(eng'.todo, "certificate") /\ Awaits(eng'.todo, "taint")
        /\ \A i \in 1..Len(eng'.todo) : eng'.todo[i][1] = "genealogy" => i = Len(eng'.todo)
    BY <2>1, <2>2, PersistWritesAre
  <2>5. \A w \in Pending(eng'.todo) :
             /\ w[1] = "certificate" => Resolves(w[2])'
             /\ w[1] = "taint" => Clean(w[2])'
    BY <1>1, <2>2, <2>3, <2>4 DEF Resolves, Clean
  <2>6. EnginePending'
    <3>1. eng.phase # "start"
      BY <2>2 DEF Lineage, EnginePending
    <3> QED BY <1>1, <2>2, <2>4, <2>5, <3>1 DEF EnginePending, Awaits, Pending
  <2> QED BY <2>2, <2>6, FilesFrame, OthersPending DEF Lineage
<1>2. CASE ~(eng.man.status \in {"completed", "blocked"} /\ art.verdict # None)
  <2>1. eng' = [eng EXCEPT !.pc = "persist"] /\ UNCHANGED <<mode, art, out>>
    BY <1>2 DEF PersistReads
  <2>2. /\ eng'.pc = "persist" /\ eng'.todo = <<>> /\ eng'.seeds = eng.seeds
        /\ eng'.phase = eng.phase /\ eng.pc = "conclude"
    BY <2>1, EngineTyped DEF EngineRecord, PersistReads
  <2>3. eng.phase # "start"
    BY <2>2 DEF Lineage, EnginePending
  <2> QED BY <2>1, <2>2, <2>3, PendingFew, EngineRests
<1> QED BY <1>1, <1>2

\* The next file the engine writes is an allowed write.
LEMMA EngineWritesLineage ==
  ASSUME TypeOK, Lineage, EngineWrites
  PROVE  Lineage' /\ Onward /\ Allowed(Head(eng.todo))
<1> DEFINE w == Head(eng.todo)
           rest == Tail(eng.todo)
<1>1. eng.todo \in Seq(Write) /\ eng.todo # <<>> /\ eng.pc \in {"conclude", "persist"}
  BY EngineTyped DEF EngineRecord, EngineWrites
<1>2. /\ w \in Write /\ w \in Pending(eng.todo) /\ rest \in Seq(Write)
      /\ Pending(rest) \subseteq Pending(eng.todo)
      /\ \A u \in Pending(eng.todo) : u = w \/ u \in Pending(rest)
  BY <1>1, PendingTail
<1>3. /\ Len(rest) = Len(eng.todo) - 1 /\ Len(eng.todo) \in Nat \ {0} /\ eng.todo[1] = w
      /\ \A i \in 1..Len(rest) : rest[i] = eng.todo[i + 1]
  BY <1>1
<1>4. /\ art' = Put(art, w) /\ UNCHANGED <<mode, out>>
      /\ eng'.pc = eng.pc /\ eng'.seeds = eng.seeds /\ eng'.todo = rest
      /\ eng'.phase = eng.phase
  BY EngineTyped DEF EngineWrites, EngineRecord
<1> HIDE DEF w, rest
<1>5. w \in AnyWrite
  BY <1>2 DEF AnyWrite
<1>6. w[1] = "genealogy" => Len(eng.todo) = 1 /\ rest = <<>> /\ Pending(eng.todo) = {w}
  <2> SUFFICES ASSUME w[1] = "genealogy" PROVE Len(rest) = 0 /\ Len(eng.todo) = 1
    BY <1>2, PendingFew
  <2>1. 1 \in 1..Len(eng.todo)
    BY <1>3
  <2>2. \A i \in 1..Len(eng.todo) : eng.todo[i][1] = "genealogy" => i = Len(eng.todo)
    BY DEF Lineage, EnginePending
  <2>3. 1 = Len(eng.todo)
    BY <1>3, <2>1, <2>2
  <2> QED BY <1>3, <2>3
<1>7. Allowed(w)
  <2>1. w[1] = "verdict" =>
       \/ Unjudged /\ (w[2].finality = "semantic_commit" => mode = "implement")
       \/ /\ w[2].finality = "abort" /\ art.verdict # None
          /\ w[2].unresolved = art.verdict.unresolved
    BY <1>2 DEF Lineage, EnginePending
  <2>2. /\ w[1] = "certificate" => Resolves(w[2])
        /\ w[1] = "taint" => Clean(w[2])
    BY <1>2 DEF Lineage, EnginePending
  <2>3. w[1] = "genealogy" =>
          art.verdict # None /\ art.certificate # None /\ art.taint # None
    BY <1>2, <1>6 DEF Lineage, EnginePending, Awaits
  <2> QED BY <1>5, <2>1, <2>2, <2>3 DEF Allowed
<1>8. Files' /\ Onward
  BY <1>4, <1>7, WriteKeepsFiles DEF Lineage
<1>9. /\ art'.certificate = IF w[1] = "certificate" THEN w[2] ELSE art.certificate
      /\ art'.taint = IF w[1] = "taint" THEN w[2] ELSE art.taint
      /\ art'.genealogy = IF w[1] = "genealogy" THEN w[2] ELSE art.genealogy
      /\ art'.verdict = IF w[1] = "verdict" THEN w[2] ELSE art.verdict
  BY <1>4, <1>5, EngineTyped, PutFields
<1>10. EnginePending'
  <2>1. eng'.pc # "running" /\ eng'.phase # "start"
    BY <1>1, <1>4 DEF Lineage, EnginePending
  <2>2. \A i \in 1..Len(eng'.todo) : eng'.todo[i][1] = "genealogy" => i = Len(eng'.todo)
    <3> SUFFICES ASSUME NEW i \in 1..Len(rest), rest[i][1] = "genealogy" PROVE i = Len(rest)
      BY <1>4
    <3>1. i + 1 \in 1..Len(eng.todo) /\ eng.todo[i + 1][1] = "genealogy"
      BY <1>3
    <3>2. i + 1 = Len(eng.todo)
      BY <3>1 DEF Lineage, EnginePending
    <3> QED BY <1>3, <3>2
  <2> DEFINE Fine(u) ==
       /\ u[1] = "verdict" =>
            \/ /\ eng.pc = "conclude" /\ Unjudged
               /\ u[2].finality = "semantic_commit" => mode = "implement"
            \/ /\ eng.pc = "persist" /\ u[2].finality = "abort"
               /\ art.verdict # None /\ u[2].unresolved = art.verdict.unresolved
       /\ u[1] = "certificate" => eng.pc = "persist" /\ Resolves(u[2])
       /\ u[1] = "taint" => eng.pc = "persist" /\ Clean(u[2])
       /\ u[1] = "genealogy" =>
            /\ eng.pc = "persist" /\ art.verdict # None
            /\ Awaits(eng.todo, "certificate") \/ art.certificate # None
            /\ Awaits(eng.todo, "taint") \/ art.taint # None
  <2>3. \A u \in Pending(eng.todo) : Fine(u)
    BY DEF Lineage, EnginePending
  <2>4. Fine(w)
    BY <1>2, <2>3
  <2>5. eng.pc = "persist" /\ art.verdict # None =>
          art'.verdict # None /\ art'.verdict.unresolved = art.verdict.unresolved
    BY <1>5, <1>8, <1>9, <2>4 DEF Onward
  <2>6. eng.pc = "conclude" /\ Unjudged => Unjudged'
    BY <1>9, <2>4 DEF Unjudged
  <2>7. /\ Awaits(eng.todo, "certificate") \/ art.certificate # None =>
             Awaits(rest, "certificate") \/ art'.certificate # None
        /\ Awaits(eng.todo, "taint") \/ art.taint # None =>
             Awaits(rest, "taint") \/ art'.taint # None
    BY <1>2, <1>5, <1>9, WriteTyped DEF Awaits
  <2>8. ASSUME NEW u \in Pending(rest) PROVE Fine(u)'
    <3>1. Fine(u)
      BY <1>2, <2>3
    <3>2. u[1] = "certificate" \/ u[1] = "genealogy" => eng.pc = "persist" /\ art.verdict # None
      BY <3>1 DEF Resolves
    <3>3. u[1] = "certificate" => Resolves(u[2])'
      BY <2>5, <3>1, <3>2 DEF Resolves
    <3>4. u[1] = "taint" => Clean(u[2])'
      BY <1>4, <3>1 DEF Clean
    <3>5. u[1] = "verdict" =>
            (\/ /\ eng.pc = "conclude" /\ Unjudged
                /\ u[2].finality = "semantic_commit" => mode = "implement"
             \/ /\ eng.pc = "persist" /\ u[2].finality = "abort"
                /\ art.verdict # None /\ u[2].unresolved = art.verdict.unresolved)'
      BY <1>4, <2>5, <2>6, <3>1
    <3>6. u[1] = "genealogy" =>
            (/\ eng.pc = "persist" /\ art.verdict # None
             /\ Awaits(eng.todo, "certificate") \/ art.certificate # None
             /\ Awaits(eng.todo, "taint") \/ art.taint # None)'
      BY <1>4, <2>5, <2>7, <3>1 DEF Awaits
    <3> QED BY <1>4, <3>1, <3>3, <3>4, <3>5, <3>6
  <2> QED BY <1>4, <2>1, <2>2, <2>8 DEF EnginePending, Pending
<1> QED BY <1>4, <1>7, <1>8, <1>10, OthersPending DEF Lineage, w

\* Where persist_manifest leaves the engine, and what it leaves in its memory.
\* The first persist_manifest is followed by the work, or by nothing.
LEMMA AfterStart ==
  ASSUME NEW e \in EngineRecord, NEW failed \in BOOLEAN, NEW replay \in BOOLEAN,
         NEW r, r = AfterPersist(e, failed, replay), e.phase = "start"
  PROVE  /\ r.pc \in {"failed", "running"}
         /\ r.phase = "try" /\ r.seeds = e.seeds /\ r.snap = e.snap /\ r.result = e.result
         /\ r.man = e.man /\ r.todo = e.todo
<1>1. \/ r = [e EXCEPT !.pc = "failed", !.phase = "try"]
      \/ r = [e EXCEPT !.pc = "running", !.phase = "try"]
  BY DEF AfterPersist
<1> QED BY <1>1 DEF EngineRecord

LEMMA StartPasses ==
  ASSUME NEW e \in EngineRecord, NEW replay, NEW r, r = AfterPersist(e, FALSE, replay),
         e.phase = "start"
  PROVE  /\ r.pc = "running" /\ r.phase = "try"
         /\ r.man = e.man /\ r.snap = e.snap /\ r.result = e.result
<1>1. r = [e EXCEPT !.pc = "running", !.phase = "try"]
  BY DEF AfterPersist
<1> QED BY <1>1 DEF EngineRecord

LEMMA StartFails ==
  ASSUME NEW e \in EngineRecord, NEW replay, NEW r, r = AfterPersist(e, TRUE, replay),
         e.phase = "start"
  PROVE  /\ r.pc = "failed" /\ r.phase = "try"
         /\ r.man = e.man /\ r.snap = e.snap /\ r.result = e.result
<1>1. r = [e EXCEPT !.pc = "failed", !.phase = "try"]
  BY DEF AfterPersist
<1> QED BY <1>1 DEF EngineRecord

LEMMA AfterPersistPlace ==
  ASSUME NEW e \in EngineRecord, NEW failed \in BOOLEAN, NEW replay \in BOOLEAN,
         NEW r, r = AfterPersist(e, failed, replay), e.phase # "start"
  PROVE  r.pc \in {"conclude", "cleanup", "failed", "returned", "ended"}
<1>1. CASE failed /\ e.phase = "try"
  BY <1>1, FailedIs DEF AfterPersist
<1>2. CASE /\ ~(failed /\ e.phase = "try") /\ mode = "implement"
           /\ e.phase \notin {"start", "finally"}
  BY <1>2 DEF AfterPersist, EngineRecord
<1>3. CASE /\ ~(failed /\ e.phase = "try") /\ e.phase # "start"
           /\ ~(mode = "implement" /\ e.phase # "finally")
  BY <1>3 DEF AfterPersist, EngineRecord
<1> QED BY <1>1, <1>2, <1>3

LEMMA AfterPersistPhase ==
  ASSUME NEW e \in EngineRecord, NEW failed \in BOOLEAN, NEW replay \in BOOLEAN,
         NEW r, r = AfterPersist(e, failed, replay), e.phase # "start"
  PROVE  r.phase = e.phase \/ (r.pc = "conclude" /\ r.phase = "except")
<1>1. CASE failed /\ e.phase = "try"
  <2>1. r = Failed(e)
    BY <1>1 DEF AfterPersist
  <2> QED BY <2>1, FailedIs
<1>2. CASE ~(failed /\ e.phase = "try")
  <2>1. r.phase = e.phase
    <3>1. CASE mode = "implement" /\ e.phase # "finally"
      BY <1>2, <3>1 DEF AfterPersist, EngineRecord
    <3>2. CASE ~(mode = "implement" /\ e.phase # "finally") /\ failed
      BY <1>2, <3>2 DEF AfterPersist, EngineRecord
    <3>3. CASE ~(mode = "implement" /\ e.phase # "finally") /\ ~failed
      <4>1. r = [e EXCEPT !.pc = "returned"] \/ r = [e EXCEPT !.pc = "ended", !.result = None]
        BY <1>2, <3>3 DEF AfterPersist
      <4> QED BY <4>1 DEF EngineRecord
    <3> QED BY <3>1, <3>2, <3>3
  <2> QED BY <2>1
<1> QED BY <1>1, <1>2

LEMMA AfterPersistKeepsPhase ==
  ASSUME NEW e \in EngineRecord, NEW failed \in BOOLEAN, NEW replay \in BOOLEAN,
         NEW r, r = AfterPersist(e, failed, replay), e.phase # "start", r.pc # "conclude"
  PROVE  r.phase = e.phase
<1>1. r.phase = e.phase \/ (r.pc = "conclude" /\ r.phase = "except")
  BY AfterPersistPhase
<1> QED BY <1>1

LEMMA AfterPersistConcludes ==
  ASSUME NEW e \in EngineRecord, NEW failed \in BOOLEAN, NEW replay \in BOOLEAN,
         NEW r, r = AfterPersist(e, failed, replay), e.phase # "start"
  PROVE  ~(r.pc = "conclude" /\ r.phase = "try")
<1>1. CASE failed /\ e.phase = "try"
  <2>1. r = Failed(e)
    BY <1>1 DEF AfterPersist
  <2>2. r.phase = "except"
    BY <2>1, FailedIs
  <2> QED BY <2>2
<1>2. CASE ~(failed /\ e.phase = "try")
  <2>1. \/ r = [e EXCEPT !.pc = "cleanup"]
        \/ r = [e EXCEPT !.pc = "failed", !.result = None]
        \/ r = [e EXCEPT !.pc = "returned"]
        \/ r = [e EXCEPT !.pc = "ended", !.result = None]
    BY <1>2 DEF AfterPersist
  <2>2. r.pc # "conclude"
    BY <2>1 DEF EngineRecord
  <2> QED BY <2>2
<1> QED BY <1>1, <1>2

LEMMA AfterPersistMemory ==
  ASSUME NEW e \in EngineRecord, NEW failed \in BOOLEAN, NEW replay \in BOOLEAN,
         NEW r, r = AfterPersist(e, failed, replay)
  PROVE  /\ r.seeds = e.seeds
         /\ r.snap = e.snap
         /\ r.result \in {e.result, None}
         /\ r.pc = "returned" => r.result = e.result
         /\ e.man \in Manifest => r.man.seal = e.man.seal
         /\ e.man \in Manifest => r.man.commit = e.man.commit
<1>1. CASE failed /\ e.phase = "try"
  <2>1. r = Failed(e)
    BY <1>1 DEF AfterPersist
  <2> QED BY <2>1, FailedIs
<1>2. CASE /\ ~(failed /\ e.phase = "try") /\ mode = "implement"
           /\ e.phase \notin {"start", "finally"}
  BY <1>2 DEF AfterPersist, EngineRecord
<1>3. CASE /\ ~(failed /\ e.phase = "try") /\ e.phase # "start"
           /\ ~(mode = "implement" /\ e.phase # "finally")
  BY <1>3 DEF AfterPersist, EngineRecord
<1>4. CASE e.phase = "start"
  BY <1>4, AfterStart
<1> QED BY <1>1, <1>2, <1>3, <1>4

LEMMA AfterPersistEvents ==
  ASSUME NEW e \in EngineRecord, NEW failed \in BOOLEAN, NEW replay \in BOOLEAN,
         NEW r, r = AfterPersist(e, failed, replay),
         \A w \in Pending(e.todo) : w[1] = "events"
  PROVE  \A w \in Pending(r.todo) : w[1] = "events"
<1>1. CASE failed /\ e.phase = "try"
  <2>1. r = Failed(e)
    BY <1>1 DEF AfterPersist
  <2> QED BY <2>1, FailedIs
<1>2. CASE /\ ~(failed /\ e.phase = "try") /\ mode = "implement"
           /\ e.phase \notin {"start", "finally"}
  BY <1>2 DEF AfterPersist, EngineRecord
<1>3. CASE /\ ~(failed /\ e.phase = "try") /\ e.phase # "start"
           /\ ~(mode = "implement" /\ e.phase # "finally")
  BY <1>3 DEF AfterPersist, EngineRecord
<1>4. CASE e.phase = "start"
  BY <1>4, AfterStart
<1> QED BY <1>1, <1>2, <1>3, <1>4

LEMMA EngineStepsLineage == ASSUME TypeOK, Lineage, EngineSteps PROVE Lineage' /\ Onward
<1>1. CASE EngineWritesManifest
  <2>1. /\ eng'.pc = "seal" /\ eng'.todo = <<>> /\ eng'.seeds = eng.seeds
        /\ eng'.phase = eng.phase
    BY <1>1, EngineTyped DEF EngineWritesManifest, EngineRecord
  <2> QED BY <1>1, <2>1, PendingFew, EngineRests DEF EngineWritesManifest
<1>2. CASE EngineHashes
  <2>1. /\ eng'.pc = "sealing" /\ eng'.todo = eng.todo /\ eng'.seeds = eng.seeds
        /\ eng'.phase = eng.phase
    BY <1>2, EngineTyped DEF EngineHashes, EngineRecord
  <2>2. \A w \in Pending(eng.todo) : w[1] = "events"
    BY <1>2, EngineAtRest DEF EngineHashes, Lineage
  <2> QED BY <1>2, <2>1, <2>2, EngineRests DEF EngineHashes
<1>3. CASE EngineSeals
  <2>1. /\ eng'.pc = "reload" /\ eng'.todo = eng.todo /\ eng'.seeds = eng.seeds
        /\ eng'.phase = eng.phase
    BY <1>3, EngineTyped DEF EngineSeals, EngineRecord
  <2>2. \A w \in Pending(eng.todo) : w[1] = "events"
    BY <1>3, EngineAtRest DEF EngineSeals, Lineage
  <2> QED BY <1>3, <2>1, <2>2, EngineRests DEF EngineSeals
<1>4. CASE EngineReloads
  <2> DEFINE e == [eng EXCEPT !.man = manifest,
                              !.result = IF eng.phase = "try" THEN manifest ELSE @]
  <2>1. PICK replay \in Replays : eng' = AfterPersist(e, FALSE, replay)
    BY <1>4 DEF EngineReloads
  <2>2. e \in EngineRecord /\ e.todo = eng.todo /\ e.seeds = eng.seeds /\ replay \in BOOLEAN
    BY EngineTyped, ModesAssumption DEF EngineRecord
  <2>3. \A w \in Pending(eng.todo) : w[1] = "events"
    BY <1>4, EngineAtRest DEF EngineReloads, Lineage
  <2> HIDE DEF e
  <2>4. eng'.phase # "start" /\ (eng'.pc = "running" => eng.phase = "start")
    <3>1. e.phase = eng.phase
      BY EngineTyped DEF e, EngineRecord
    <3>2. CASE e.phase = "start"
      BY <2>1, <2>2, <3>1, <3>2, StartPasses
    <3>3. CASE e.phase # "start"
      BY <2>1, <2>2, <3>3, AfterPersistPlace, AfterPersistPhase
    <3> QED BY <3>2, <3>3
  <2>5. eng'.seeds = eng.seeds
    BY <2>1, <2>2, AfterPersistMemory
  <2>6. \A w \in Pending(eng'.todo) : w[1] = "events"
    <3>1. \A w \in Pending(e.todo) : w[1] = "events"
      BY <2>2, <2>3
    <3> QED BY <2>1, <2>2, <3>1, AfterPersistEvents
  <2> QED BY <1>4, <2>4, <2>5, <2>6, EngineRests DEF EngineReloads
<1>5. CASE EngineTimesOut
  <2>1. \A w \in Pending(eng.todo) : w[1] = "events"
    BY <1>5, EngineAtRest DEF EngineTimesOut, Lineage
  <2>2. eng \in EngineRecord /\ eng' = AfterPersist(eng, TRUE, FALSE)
    BY <1>5, EngineTyped DEF EngineTimesOut
  <2>3. eng'.phase # "start" /\ (eng'.pc = "running" => eng.phase = "start")
    <3>1. CASE eng.phase = "start"
      BY <2>2, <3>1, StartFails
    <3>2. CASE eng.phase # "start"
      BY <2>2, <3>2, AfterPersistPlace, AfterPersistPhase
    <3> QED BY <3>1, <3>2
  <2>4. eng'.seeds = eng.seeds
    BY <2>2, AfterPersistMemory
  <2>5. \A w \in Pending(eng'.todo) : w[1] = "events"
    BY <2>1, <2>2, AfterPersistEvents
  <2> QED BY <1>5, <2>3, <2>4, <2>5, EngineRests DEF EngineTimesOut
<1>6. CASE CleanUp
  <2>1. /\ eng'.pc = "conclude" /\ eng'.todo = eng.todo /\ eng'.seeds = eng.seeds
        /\ eng'.phase = "finally"
    BY <1>6, EngineTyped DEF CleanUp, EngineRecord
  <2>2. \A w \in Pending(eng'.todo) : w[1] = "events"
    BY <1>6, <2>1, EngineAtRest DEF CleanUp, Lineage
  <2>3. /\ art'.verdict = art.verdict /\ art'.certificate = art.certificate
        /\ art'.taint = art.taint /\ art'.genealogy = art.genealogy
        /\ UNCHANGED <<mode, out>>
    BY <1>6, EngineTyped DEF CleanUp, FileContent
  <2>4. Files' /\ Onward
    BY <2>1, <2>3 DEF Files, Onward, Resolves, Clean, Lineage
  <2> QED BY <2>1, <2>2, <2>3, <2>4, OnlyEvents, OthersPending DEF Lineage
<1>7. CASE RecordSubstitutions
  <2>1. /\ eng'.pc = "ended" /\ eng'.todo = eng.todo /\ eng'.seeds = eng.seeds
        /\ eng'.phase = "replayed"
    BY <1>7, EngineTyped DEF RecordSubstitutions, EngineRecord
  <2>2. \A w \in Pending(eng.todo) : w[1] = "events"
    BY <1>7, EngineAtRest DEF RecordSubstitutions, Lineage
  <2> QED BY <1>7, <2>1, <2>2, EngineRests DEF RecordSubstitutions
<1> QED BY <1>1, <1>2, <1>3, <1>4, <1>5, <1>6, <1>7, AddWorktreesLineage,
        DraftVerdictLineage, ConcludeLineage,
        EngineFailsLineage, PersistReadsLineage, EngineWritesLineage DEF EngineSteps

\* A step of one command that writes no file.
LEMMA CommandRests ==
  ASSUME TypeOK, Lineage, NEW o \in Outcome, NEW r, out' = [out EXCEPT ![o] = r],
         UNCHANGED <<mode, art, eng>>, OutcomePending(o)'
  PROVE  Lineage' /\ Onward
<1>1. Files' /\ Onward
  BY FilesFrame DEF Lineage
<1>2. EnginePending'
  BY DEF Lineage, EnginePending, Unjudged, Resolves, Clean, Awaits
<1>3. \A q \in Outcome : OutcomePending(q)'
  <2> SUFFICES ASSUME NEW q \in Outcome, q # o PROVE OutcomePending(q)'
    OBVIOUS
  <2>1. out'[q] = out[q]
    BY DEF TypeOK, OutcomeType
  <2> QED BY <1>1, <2>1, OutcomePendingFrame DEF Lineage
<1> QED BY <1>1, <1>2, <1>3 DEF Lineage

\* The same if the command goes on, or stops, with what it had to write.
LEMMA CommandGoesOn ==
  ASSUME TypeOK, Lineage, NEW o \in Outcome, NEW r, out' = [out EXCEPT ![o] = r],
         UNCHANGED <<mode, art, eng>>,
         \/ r.pc \notin {"lock", "write", "events"}
         \/ /\ out[o].pc \in {"lock", "write", "events"} /\ r.invalid = out[o].invalid
            /\ r.pc = "events" => out[o].pc = "events"
            /\ r.todo = out[o].todo
  PROVE  Lineage' /\ Onward
<1>1. out'[o] = r
  BY DEF TypeOK, OutcomeType
<1>2. Files /\ Onward
  BY FilesFrame DEF Lineage
<1>3. OutcomePending(o)'
  <2>1. CASE r.pc \notin {"lock", "write", "events"}
    BY <1>1, <2>1 DEF OutcomePending
  <2>2. CASE r.pc \in {"lock", "write", "events"}
    BY <1>1, <1>2, <2>2, OutcomePendingFrame DEF Lineage
  <2> QED BY <2>1, <2>2
<1> QED BY <1>3, CommandRests

\* A command that is over writes nothing.
LEMMA OverRests ==
  ASSUME TypeOK, Lineage, NEW o \in Outcome,
         NEW pc \in {"refused", "failed", "done", "crashed"},
         out' = [out EXCEPT ![o] = Over(@, pc)], UNCHANGED <<mode, art, eng>>
  PROVE  Lineage' /\ Onward
<1> DEFINE r == Over(out[o], pc)
<1>1. r.pc = pc
  BY OutcomeTyped, OverType DEF OutcomePC
<1>2. out' = [out EXCEPT ![o] = r]
  OBVIOUS
<1> HIDE DEF r
<1> QED BY <1>1, <1>2, CommandGoesOn

LEMMA ReadLineageLineage ==
  ASSUME TypeOK, Lineage, NEW o \in Outcome, ReadLineage(o)
  PROVE  Lineage' /\ Onward
<1> DEFINE r == [out[o] EXCEPT !.pc = "lock", !.todo = OutcomeWrites(o),
                               !.lineage = InvalidatesLineage(o)]
<1>1. r.pc = "lock" /\ r.todo = OutcomeWrites(o) /\ r.invalid = out[o].invalid
  BY OutcomeTyped DEF OutcomeRecord
<1>2. out' = [out EXCEPT ![o] = r] /\ out'[o] = r /\ UNCHANGED <<mode, art, eng>>
  BY OutcomeTyped DEF ReadLineage, OutcomeRecord
<1> HIDE DEF r
<1>3. \A w \in Pending(OutcomeWrites(o)) :
        /\ w[1] \notin {"outcome", "events"} => art.genealogy # None /\ out[o].invalid # {}
        /\ w[1] = "verdict" => AbortsFor(o, w[2]) /\ w[2].unresolved = art.verdict.unresolved
        /\ w[1] = "taint" => w[2] = TaintOf(o)
        /\ w[1] = "genealogy" => w[2] = TaintOf(o) \cap Node
  BY OutcomeWritesAre DEF InvalidatesLineage, AbortsFor, TaintOf
<1>4. \A w \in Pending(OutcomeWrites(o)) :
        w[1] = "certificate" => RevokesFor(o, w[2]) /\ Resolves(w[2])
  <2> SUFFICES ASSUME NEW w \in Pending(OutcomeWrites(o)), w[1] = "certificate"
               PROVE  RevokesFor(o, w[2]) /\ Resolves(w[2])
    OBVIOUS
  <2>1. /\ w[2].finality = "abort" /\ art.certificate # None
        /\ w[2].unresolved = art.certificate.unresolved \cup out[o].invalid
    BY OutcomeWritesAre
  <2>2. Resolves(art.certificate)
    BY <2>1 DEF Lineage, Files
  <2> QED BY <2>1, <2>2 DEF RevokesFor, Resolves
<1>5. OutcomePending(o)'
  <2>1. TaintOf(o)' = TaintOf(o) /\ art' = art /\ out'[o].invalid = out[o].invalid
    BY <1>1, <1>2 DEF TaintOf
  <2> HIDE DEF TaintOf
  <2> QED BY <1>1, <1>2, <1>3, <1>4, <2>1
          DEF OutcomePending, Pending, AbortsFor, RevokesFor, Resolves
<1> QED BY <1>2, <1>5, CommandRests

LEMMA OutcomeWritesFileLineage ==
  ASSUME TypeOK, Lineage, NEW o \in Outcome, OutcomeWritesFile(o)
  PROVE  Lineage' /\ Onward /\ Allowed(Head(out[o].todo))
<1> DEFINE w == Head(out[o].todo)
           r == [out[o] EXCEPT !.todo = Tail(@)]
<1>1. /\ out[o].todo \in Seq(AnyWrite) /\ out[o].todo # <<>>
      /\ out[o].pc \in {"write", "events"}
  BY OutcomeTyped DEF OutcomeRecord, OutcomeWritesFile
<1>2. /\ w \in AnyWrite /\ w \in Pending(out[o].todo)
      /\ Pending(Tail(out[o].todo)) \subseteq Pending(out[o].todo)
  BY <1>1, PendingTail
<1>3. /\ r.pc = out[o].pc /\ r.todo = Tail(out[o].todo) /\ r.invalid = out[o].invalid
  BY OutcomeTyped DEF OutcomeRecord
<1>4. /\ out' = [out EXCEPT ![o] = r] /\ out'[o] = r /\ art' = Put(art, w)
      /\ UNCHANGED <<mode, eng>>
  BY OutcomeTyped DEF OutcomeWritesFile
<1> HIDE DEF w, r
<1>5. Allowed(w)
  <2>1. OutcomePending(o)
    BY DEF Lineage
  <2>2. w[1] \notin {"outcome", "events"} => art.genealogy # None /\ out[o].invalid # {}
    BY <1>1, <1>2, <2>1 DEF OutcomePending
  <2>3. /\ w[1] = "verdict" => AbortsFor(o, w[2]) /\ w[2].unresolved = art.verdict.unresolved
        /\ w[1] = "certificate" => Resolves(w[2])
        /\ w[1] = "taint" => w[2] = TaintOf(o)
    BY <1>1, <1>2, <2>1 DEF OutcomePending
  <2>4. out[o].invalid \subseteq TaintOf(o)
    BY TaintedHolds DEF TaintOf
  <2>5. w[1] = "taint" => Clean(w[2])
    BY <2>2, <2>3, <2>4 DEF Clean
  <2>6. art.genealogy # None =>
          art.verdict # None /\ art.certificate # None /\ art.taint # None
    BY DEF Lineage, Files
  <2> QED BY <1>2, <2>2, <2>3, <2>5, <2>6 DEF Allowed, AbortsFor
<1>6. Files' /\ Onward
  BY <1>4, <1>5, WriteKeepsFiles DEF Lineage
<1>7. w[1] \notin {"outcome", "events"} => art.genealogy # None
  BY <1>1, <1>2 DEF Lineage, OutcomePending
<1>8. Unjudged => Unjudged'
  <2>1. /\ art'.certificate = IF w[1] = "certificate" THEN w[2] ELSE art.certificate
        /\ art'.taint = IF w[1] = "taint" THEN w[2] ELSE art.taint
        /\ art'.genealogy = IF w[1] = "genealogy" THEN w[2] ELSE art.genealogy
    BY <1>2, <1>4, EngineTyped, PutFields
  <2> QED BY <1>7, <2>1 DEF Unjudged
<1>9. EnginePending'
  <2>1. eng.pc = "persist" \/ ~Unjudged => art'.verdict.unresolved = art.verdict.unresolved
                                           \/ Unjudged
    BY <1>6 DEF Onward
  <2>2. art.verdict # None =>
          art'.verdict # None /\ art'.verdict.unresolved = art.verdict.unresolved
    <3>1. art'.verdict = IF w[1] = "verdict" THEN w[2] ELSE art.verdict
      BY <1>2, <1>4, EngineTyped, PutFields
    <3>2. w[1] = "verdict" => w[2].unresolved = art.verdict.unresolved
      BY <1>1, <1>2 DEF Lineage, OutcomePending
    <3> QED BY <1>6, <3>1, <3>2 DEF Onward
  <2>3. \A u \in Pending(eng.todo) :
          /\ u[1] = "certificate" => Resolves(u[2])'
          /\ u[1] = "taint" => Clean(u[2])'
    BY <1>4, <2>2 DEF Lineage, EnginePending, Resolves, Clean
  <2>4. /\ art.certificate # None => art'.certificate # None
        /\ art.taint # None => art'.taint # None
    BY <1>6 DEF Onward
  <2> QED BY <1>4, <1>8, <2>2, <2>3, <2>4 DEF Lineage, EnginePending, Awaits, Pending
<1>10. \A q \in Outcome : OutcomePending(q)'
  <2> SUFFICES ASSUME NEW q \in Outcome PROVE OutcomePending(q)'
    OBVIOUS
  <2>1. CASE q = o
    BY <1>1, <1>2, <1>3, <1>4, <1>6, <2>1, OutcomePendingFrame DEF Lineage
  <2>2. CASE q # o
    <3>1. out'[q] = out[q]
      BY <1>4, <2>2 DEF TypeOK, OutcomeType
    <3> QED BY <1>6, <3>1, OutcomePendingFrame DEF Lineage
  <2> QED BY <2>1, <2>2
<1> QED BY <1>5, <1>6, <1>9, <1>10 DEF Lineage, w

LEMMA CommitLineage ==
  ASSUME TypeOK, Lineage, NEW o \in Outcome, Commit(o)
  PROVE  Lineage' /\ Onward
<1> DEFINE w1 == <<"events", <<o, "outcome">>>>
           w2 == <<"events", <<o, "invalidation">>>>
           T == {w1, w2}
           s1 == <<w1>>
           s2 == IF out[o].lineage THEN <<w2>> ELSE <<>>
           r == [out[o] EXCEPT !.pc = "events", !.man = None, !.todo = s1 \o s2]
<1>1. out' = [out EXCEPT ![o] = r] /\ out'[o] = r /\ UNCHANGED <<mode, art, eng>>
  BY OutcomeTyped DEF Commit
<1>2. w1[1] = "events" /\ w2[1] = "events"
  OBVIOUS
<1> HIDE DEF w1, w2
<1>3. w1 \in T /\ w2 \in T
  OBVIOUS
<1> HIDE DEF T
<1>4. s1 \in Seq(T) /\ s2 \in Seq(T)
  BY <1>3
<1>5. Pending(s1) = {w1} /\ Pending(s2) \subseteq {w2}
  BY PendingFew
<1> HIDE DEF s1, s2
<1>6. Pending(s1 \o s2) = Pending(s1) \cup Pending(s2)
  BY <1>4, PendingConcat
<1>7. r.todo = s1 \o s2 /\ r.pc = "events"
  BY OutcomeTyped DEF OutcomeRecord
<1> HIDE DEF r
<1>8. \A w \in Pending(out'[o].todo) : w[1] = "events"
  BY <1>1, <1>2, <1>5, <1>6, <1>7
<1>9. OutcomePending(o)'
  BY <1>8 DEF OutcomePending, Pending
<1> QED BY <1>1, <1>9, CommandRests

LEMMA OutcomeStepsLineage ==
  ASSUME TypeOK, Lineage, NEW o \in Outcome, OutcomeSteps(o)
  PROVE  Lineage' /\ Onward
<1>1. CASE Load(o)
  <2>1. PICK invalid \in Invalidation :
          out' = [out EXCEPT ![o] = IF art.outcome = None
                 THEN [@ EXCEPT !.pc = "lineage", !.man = manifest, !.invalid = invalid]
                 ELSE Over(@, "refused")]
    BY <1>1 DEF Load
  <2> DEFINE r == IF art.outcome = None
                  THEN [out[o] EXCEPT !.pc = "lineage", !.man = manifest, !.invalid = invalid]
                  ELSE Over(out[o], "refused")
  <2>2. r.pc \in {"lineage", "refused"}
    <3>1. Over(out[o], "refused").pc = "refused"
      BY OutcomeTyped, OverType DEF OutcomePC
    <3>2. [out[o] EXCEPT !.pc = "lineage", !.man = manifest, !.invalid = invalid].pc = "lineage"
      BY OutcomeTyped DEF OutcomeRecord
    <3> QED BY <3>1, <3>2
  <2>3. out' = [out EXCEPT ![o] = r] /\ UNCHANGED <<mode, art, eng>>
    BY <1>1, <2>1 DEF Load
  <2> HIDE DEF r
  <2> QED BY <2>2, <2>3, CommandGoesOn
<1>2. CASE Begin(o)
  <2>1. CASE art.outcome # None
    BY <1>2, <2>1, OverRests DEF Begin
  <2>2. CASE art.outcome = None
    <3> DEFINE r == [out[o] EXCEPT !.pc = "write"]
    <3>1. r.pc = "write" /\ r.todo = out[o].todo /\ r.invalid = out[o].invalid
      BY OutcomeTyped DEF OutcomeRecord
    <3>2. /\ out' = [out EXCEPT ![o] = r] /\ UNCHANGED <<mode, art, eng>>
          /\ out[o].pc = "lock"
      BY <1>2, <2>2 DEF Begin
    <3> HIDE DEF r
    <3> QED BY <3>1, <3>2, CommandGoesOn
  <2> QED BY <2>1, <2>2
<1>3. CASE Learn(o)
  <2>1. CASE out[o].store = 2 /\ art.verdict = None
    BY <1>3, <2>1, OverRests DEF Learn
  <2>2. CASE ~(out[o].store = 2 /\ art.verdict = None)
    <3> DEFINE r == [out[o] EXCEPT !.store = @ + 1]
    <3>1. r.pc = out[o].pc /\ r.todo = out[o].todo /\ r.invalid = out[o].invalid
      BY OutcomeTyped DEF OutcomeRecord
    <3>2. /\ out' = [out EXCEPT ![o] = r] /\ UNCHANGED <<mode, art, eng>>
          /\ out[o].pc = "events"
      BY <1>3, <2>2 DEF Learn
    <3> HIDE DEF r
    <3> QED BY <3>1, <3>2, CommandGoesOn
  <2> QED BY <2>1, <2>2
<1>4. CASE OutcomeHashes(o)
  <2> DEFINE r == [out[o] EXCEPT !.pc = "sealing", !.snap = Snapshot]
  <2>1. r.pc = "sealing"
    BY OutcomeTyped DEF OutcomeRecord
  <2>2. out' = [out EXCEPT ![o] = r] /\ UNCHANGED <<mode, art, eng>>
    BY <1>4 DEF OutcomeHashes
  <2> HIDE DEF r
  <2> QED BY <2>1, <2>2, CommandGoesOn
<1>5. CASE OutcomeSeals(o) \/ OutcomeTimesOut(o)
  BY <1>5, OverRests DEF OutcomeSeals, OutcomeTimesOut
<1> QED BY <1>1, <1>2, <1>3, <1>4, <1>5, ReadLineageLineage, OutcomeWritesFileLineage,
        CommitLineage DEF OutcomeSteps

\* Every step keeps the lineage in order, whoever takes it.
LEMMA NextLineage ==
  ASSUME TypeOK, Lineage, [Next]_vars
  PROVE  Lineage' /\ Onward
<1>1. CASE UNCHANGED <<mode, art, eng, out>>
  <2>1. Files' /\ Onward
    BY <1>1, FilesFrame DEF Lineage
  <2>2. EnginePending'
    BY <1>1 DEF Lineage, EnginePending, Unjudged, Resolves, Clean, Awaits
  <2> QED BY <1>1, <2>1, <2>2, OthersPending DEF Lineage
<1>2. CASE \E p \in Reader : ApplySteps(p) \/ RegradeSteps(p)
  BY <1>1, <1>2, ApplyStepsType, RegradeStepsType DEF ReaderMemory, Others
<1>3. CASE Crash
  <2>1. CASE /\ EngineLive /\ out' = out
             /\ eng' = [Over(eng, "crashed") EXCEPT !.result = None]
    <3>1. /\ eng'.pc = "crashed" /\ eng'.todo = <<>> /\ eng'.seeds = eng.seeds
          /\ eng'.phase = eng.phase
      BY <2>1, EngineTyped DEF Over, EngineRecord
    <3> QED BY <1>3, <2>1, <3>1, PendingFew, EngineRests DEF Crash
  <2>2. CASE eng' = eng /\ \E o \in Outcome : out' = [out EXCEPT ![o] = Over(@, "crashed")]
    BY <1>3, <2>2, OverRests DEF Crash
  <2> QED BY <1>3, <2>1, <2>2 DEF Crash
<1>4. CASE UNCHANGED vars
  BY <1>1, <1>4 DEF vars
<1> QED BY <1>2, <1>3, <1>4, EngineStepsLineage, OutcomeStepsLineage DEF Next

LEMMA InitLineage == ASSUME Init PROVE Lineage
<1>1. eng.todo = <<>> /\ Unjudged /\ \A o \in Outcome : out[o].pc = "idle"
  BY DEF Init, Unjudged
<1>2. Files /\ EnginePending
  BY <1>1, PendingFew DEF Init, Files, EnginePending, Unjudged
<1>3. \A o \in Outcome : OutcomePending(o)
  BY <1>1 DEF OutcomePending
<1> QED BY <1>2, <1>3 DEF Lineage

LEMMA LineageHolds == Spec => [](TypeOK /\ Lineage)
<1>1. TypeOK /\ Lineage /\ [Next]_vars => Lineage'
  BY NextLineage
<1>2. Init => Lineage
  BY InitLineage
<1> QED BY <1>1, <1>2, TypeCorrect, PTL DEF Spec

\* Only an outcome command writes once the engine is over, and it revokes.
LEMMA CertificateStays ==
  ASSUME TypeOK, Lineage, [Next]_vars, ~EngineLive, art.genealogy # None,
         art.certificate.finality = "abort"
  PROVE  art'.certificate.finality = "abort"
<1>1. CASE art' = art
  BY <1>1
<1>2. CASE \E o \in Outcome : OutcomeWritesFile(o)
  <2>1. PICK o \in Outcome : OutcomeWritesFile(o)
    BY <1>2
  <2> DEFINE w == Head(out[o].todo)
  <2>2. /\ out[o].todo \in Seq(AnyWrite) /\ out[o].todo # <<>>
        /\ out[o].pc \in {"lock", "write", "events"} /\ art' = Put(art, w)
    BY <2>1, OutcomeTyped DEF OutcomeRecord, OutcomeWritesFile
  <2>3. w \in AnyWrite /\ w \in Pending(out[o].todo)
    BY <2>2, PendingTail
  <2> HIDE DEF w
  <2>4. w[1] = "certificate" => w[2].finality = "abort"
    BY <2>2, <2>3 DEF Lineage, OutcomePending, RevokesFor
  <2>5. art'.certificate = IF w[1] = "certificate" THEN w[2] ELSE art.certificate
    BY <2>2, <2>3, EngineTyped, PutFields
  <2> QED BY <2>4, <2>5
<1>3. CASE EngineSteps
  BY <1>1, <1>3, ZenonT(60) DEF EngineSteps, EngineLive, Finished, AddWorktrees, DraftVerdict, Conclude,
     EngineFails,
     PersistReads, EngineWrites, EngineWritesManifest, EngineHashes, EngineSeals,
     EngineReloads, EngineTimesOut, CleanUp, RecordSubstitutions
<1>4. CASE \E o \in Outcome : OutcomeSteps(o) /\ ~OutcomeWritesFile(o)
  BY <1>1, <1>4 DEF OutcomeSteps, Load, ReadLineage, Begin, Commit, Learn, OutcomeHashes,
     OutcomeSeals, OutcomeTimesOut
<1>5. CASE \E p \in Reader : ApplySteps(p) \/ RegradeSteps(p)
  BY <1>1, <1>5, ApplyStepsType, RegradeStepsType DEF ReaderMemory, Others
<1>6. CASE Crash \/ UNCHANGED vars
  BY <1>1, <1>6 DEF Crash, vars
<1> QED BY <1>2, <1>3, <1>4, <1>5, <1>6 DEF Next

\* A run is never upgraded: persist_manifest (protocols.py:443-561) and the outcome commands
\* (reason_assembly.py:833-886) write verdict and certificate from older reads, and still an
\* abort stands once the lineage was judged.
THEOREM RunNeverUpgraded == Spec => NeverUpgraded
<1>1. TypeOK /\ Lineage /\ [Next]_vars
        => [art.genealogy # None =>
              /\ art.verdict.finality = "abort" => art'.verdict.finality = "abort"
              /\ (~EngineLive /\ art.certificate.finality = "abort")
                   => art'.certificate.finality = "abort"]_vars
  BY NextLineage, CertificateStays DEF Onward, Unjudged
<1> QED BY <1>1, LineageHolds, PTL DEF Spec, NeverUpgraded

-----------------------------------------------------------------------------
(* A run in which every process ended by itself is sealed as it is.        *)

\* An outcome is early or waits for the end of the engine.
Alone ==
  ~early /\ EngineLive => art.outcome = None /\ \A o \in Outcome : out[o].pc = "idle"

\* What a council hands back to `replay` is what it sealed.
CouncilResult ==
  mode = "council" =>
    /\ eng.pc # "returned" => eng.result = None
    /\ eng.pc = "returned" /\ ~early => manifest = eng.result

\* Somebody still has to seal the run, or never will.
WillSeal ==
  \/ eng.pc \in {"running", "conclude", "persist", "seal", "cleanup", "failed", "crashed"}
  \/ eng.phase = "replayed" /\ (mode = "implement" \/ early)
  \/ \E o \in Outcome : out[o].pc \in {"write", "events", "failed", "crashed"}

\* When nobody will seal the run any more, it is sealed as it is.
LastSeal ==
  ~WillSeal =>
    /\ lock = None => manifest.seal = art
    /\ eng.pc = "sealing" => eng.snap.seal = art
    /\ \A o \in Outcome : out[o].pc = "sealing" => out[o].snap.seal = art

\* The inductive invariant behind QuietIntegrity.
QuietInv == Alone /\ CouncilResult /\ LastSeal

\* Only an engine at work takes steps.
LEMMA EngineIsLive == ASSUME EngineSteps PROVE EngineLive /\ UNCHANGED <<mode, early, reader>>
BY DEF EngineLive, Finished, EngineSteps, AddWorktrees, DraftVerdict, Conclude, EngineFails,
   PersistReads,
   EngineWrites, EngineWritesManifest, EngineHashes, EngineSeals, EngineReloads,
   EngineTimesOut, CleanUp, RecordSubstitutions

\* An apply or regrade command changes nothing of the run.
LEMMA ReadersOnlyRead ==
  ASSUME TypeOK, \E p \in Reader : ApplySteps(p) \/ RegradeSteps(p)
  PROVE  UNCHANGED Others
BY ApplyStepsType, RegradeStepsType DEF ReaderMemory

\* A seal covers the files as they are.
LEMMA SnapshotSeal == manifest \in Manifest => Snapshot.seal = art
BY DEF Snapshot, Manifest

\* A step of the engine that leaves it with something to seal.
LEMMA EngineWillSeal ==
  ASSUME TypeOK, QuietInv, EngineSteps, UNCHANGED <<mode, early>>,
         eng'.pc \in {"running", "conclude", "persist", "seal", "cleanup", "failed"},
         mode = "council" => eng'.result \in {None, eng.result}, eng.pc # "returned"
  PROVE  QuietInv'
<1>1. art'.outcome = art.outcome /\ out' = out
  BY EngineKeepsOutcome
<1>2. Alone'
  BY <1>1, EngineIsLive DEF QuietInv, Alone
<1>3. CouncilResult'
  BY DEF QuietInv, CouncilResult
<1>4. LastSeal'
  BY DEF LastSeal, WillSeal
<1> QED BY <1>2, <1>3, <1>4 DEF QuietInv

LEMMA PersistReadsMemory ==
  ASSUME TypeOK, PersistReads
  PROVE  /\ eng'.pc = "persist" /\ eng'.phase = eng.phase /\ eng'.seeds = eng.seeds
         /\ eng'.snap = eng.snap /\ eng'.result = eng.result
BY EngineTyped DEF PersistReads, EngineRecord

LEMMA ConcludeMemory ==
  ASSUME TypeOK, Conclude
  PROVE  /\ eng'.pc = "conclude" /\ eng'.phase = eng.phase /\ eng'.snap = eng.snap
         /\ eng'.result = eng.result /\ eng.pc = "running"
         /\ eng'.man.status \in {"completed", "blocked"} /\ eng'.man.seal = eng.man.seal
         /\ Awaits(eng'.todo, "verdict")
<1>1. PICK e \in Endings, found \in Findings, task \in {"implementation", "other"} :
       eng' = [eng EXCEPT
         !.pc = "conclude",
         !.seeds = found[1],
         !.task = task,
         !.man.status = e[2], !.man.finality = e[1],
         !.man.commit = (e[1] = "semantic_commit"),
         !.todo = <<<<"verdict", [finality |-> e[1], unresolved |-> found[2],
                       blockers |-> IF e[2] = "blocked" THEN {"verdict"} ELSE {}]>>>>
                  \o (IF mode = "council" \/ e[2] = "completed"
                      THEN <<<<"events", <<Engine, "completed">>>>>> ELSE <<>>)]
  <2>1. (IF mode = "implement" THEN {"implementation"} ELSE {"implementation", "other"})
          \subseteq {"implementation", "other"}
    OBVIOUS
  <2> QED BY <2>1, ZenonT(60) DEF Conclude
<1> DEFINE wv == <<"verdict", [finality |-> e[1], unresolved |-> found[2],
                               blockers |-> IF e[2] = "blocked" THEN {"verdict"} ELSE {}]>>
           we == <<"events", <<Engine, "completed">>>>
           T == {wv, we}
           s1 == <<wv>>
           s2 == IF mode = "council" \/ e[2] = "completed" THEN <<we>> ELSE <<>>
           m == [eng.man EXCEPT !.status = e[2], !.finality = e[1],
                                !.commit = (e[1] = "semantic_commit")]
<1>2. eng.pc = "running" /\ eng.man \in Manifest
  BY EngineTyped DEF Conclude
<1>3. eng' = [eng EXCEPT !.pc = "conclude", !.seeds = found[1], !.task = task,
                         !.man.status = e[2], !.man.finality = e[1],
                         !.man.commit = (e[1] = "semantic_commit"), !.todo = s1 \o s2]
  BY <1>1, ZenonT(60)
<1>4. wv[1] = "verdict"
  OBVIOUS
<1> HIDE DEF wv, we
<1>5. wv \in T /\ we \in T
  OBVIOUS
<1> HIDE DEF T
<1>6. s1 \in Seq(T) /\ s2 \in Seq(T) /\ Pending(s1) = {wv}
  BY <1>5, PendingFew
<1> HIDE DEF s1, s2
<1>7. eng' = [eng EXCEPT !.pc = "conclude", !.seeds = found[1], !.task = task,
                         !.man = m, !.todo = s1 \o s2]
  BY <1>2, <1>3, EngineTyped DEF EngineRecord
<1>8. m.status = e[2] /\ m.seal = eng.man.seal
  BY <1>2 DEF Manifest
<1>9. e[2] \in {"completed", "blocked"}
  BY DEF Endings
<1> HIDE DEF m
<1>10. /\ eng'.pc = "conclude" /\ eng'.phase = eng.phase /\ eng'.snap = eng.snap
       /\ eng'.result = eng.result /\ eng'.man = m /\ eng'.todo = s1 \o s2
  BY <1>7, EngineTyped DEF EngineRecord
<1>11. Awaits(eng'.todo, "verdict")
  <2>1. Pending(s1 \o s2) = Pending(s1) \cup Pending(s2)
    BY <1>6, PendingConcat
  <2> QED BY <1>4, <1>6, <1>10, <2>1 DEF Awaits
<1> QED BY <1>2, <1>8, <1>9, <1>10, <1>11

LEMMA EngineStepsQuiet == ASSUME TypeOK, QuietInv, EngineSteps PROVE QuietInv'
<1>1. CASE \/ AddWorktrees \/ DraftVerdict \/ Conclude \/ PersistReads \/ EngineWrites
           \/ EngineWritesManifest \/ CleanUp
  <2>1. /\ eng'.pc \in {"running", "conclude", "persist", "seal"} /\ eng'.result = eng.result
        /\ eng.pc # "returned" /\ UNCHANGED <<mode, early>>
    <3>1. CASE Conclude
      BY <3>1, ConcludeMemory DEF Conclude
    <3>2. CASE \/ AddWorktrees \/ DraftVerdict \/ EngineWrites \/ EngineWritesManifest
               \/ CleanUp
      BY <3>2, EngineTyped DEF EngineRecord, AddWorktrees, DraftVerdict, EngineWrites,
         EngineWritesManifest, CleanUp
    <3>3. CASE PersistReads
      BY <3>3, PersistReadsMemory DEF PersistReads
    <3> QED BY <1>1, <3>1, <3>2, <3>3
  <2> QED BY <2>1, EngineWillSeal
<1>2. CASE EngineFails
  <2>1. eng'.pc = "conclude" /\ eng'.result = eng.result
    BY <1>2, EngineTyped, FailedIs DEF EngineFails
  <2> QED BY <1>2, <2>1, EngineWillSeal DEF EngineFails
<1>3. CASE EngineTimesOut
  <2>1. eng \in EngineRecord /\ eng' = AfterPersist(eng, TRUE, FALSE)
    BY <1>3, EngineTyped DEF EngineTimesOut
  <2>2. eng'.pc \in {"conclude", "cleanup", "failed"}
    <3>1. CASE eng.phase = "start"
      BY <2>1, <3>1, StartFails
    <3>2. CASE eng.phase # "start"
      BY <2>1, <3>2, FailedIs DEF AfterPersist, EngineRecord
    <3> QED BY <3>1, <3>2
  <2>3. eng'.result \in {eng.result, None}
    BY <2>1, AfterPersistMemory
  <2> QED BY <1>3, <2>2, <2>3, EngineWillSeal DEF EngineTimesOut
<1>4. CASE EngineHashes \/ EngineSeals \/ EngineReloads \/ RecordSubstitutions
  <2>1. /\ EngineLive /\ art' = art /\ out' = out /\ UNCHANGED <<mode, early>>
        /\ eng.pc \in {"seal", "sealing", "reload", "returned"}
    BY <1>4, EngineIsLive DEF EngineSteps, EngineHashes, EngineSeals, EngineReloads,
       RecordSubstitutions
  <2>2. Alone'
    BY <2>1 DEF QuietInv, Alone
  <2>3. CASE EngineHashes
    <3>1. /\ eng'.pc = "sealing" /\ eng'.snap = Snapshot /\ eng'.result = eng.result
          /\ lock = None /\ lock' = Engine
      BY <2>3, EngineTyped DEF EngineHashes, EngineRecord
    <3>2. \A o \in Outcome : out[o].pc # "sealing"
      BY <3>1, NamesAssumption DEF TypeOK
    <3>3. Snapshot.seal = art
      BY SnapshotSeal DEF TypeOK
    <3>4. LastSeal'
      BY <2>1, <3>1, <3>2, <3>3, NamesAssumption DEF LastSeal
    <3>5. CouncilResult'
      BY <2>3, <3>1 DEF QuietInv, CouncilResult, EngineHashes
    <3> QED BY <2>2, <3>4, <3>5 DEF QuietInv
  <2>4. CASE EngineSeals
    <3>1. /\ eng'.pc = "reload" /\ eng'.result = eng.result /\ eng'.phase = eng.phase
          /\ eng.pc = "sealing" /\ lock' = None /\ manifest' = eng.snap
      BY <2>4, EngineTyped DEF EngineSeals, EngineRecord
    <3>2. \A o \in Outcome : out[o].pc # "sealing"
      BY <3>1, NamesAssumption DEF TypeOK
    <3>3. ~WillSeal' => ~WillSeal
      BY <2>1, <3>1 DEF WillSeal
    <3>4. LastSeal'
      BY <2>1, <3>1, <3>2, <3>3 DEF QuietInv, LastSeal
    <3>5. CouncilResult'
      BY <2>1, <3>1 DEF QuietInv, CouncilResult
    <3> QED BY <2>2, <3>4, <3>5 DEF QuietInv
  <2>5. CASE EngineReloads
    <3> DEFINE e == [eng EXCEPT !.man = manifest,
                                !.result = IF eng.phase = "try" THEN manifest ELSE @]
    <3>1. PICK replay \in Replays : eng' = AfterPersist(e, FALSE, replay)
      BY <2>5 DEF EngineReloads
    <3>2. /\ e \in EngineRecord /\ replay \in BOOLEAN /\ e.phase = eng.phase
          /\ e.result = IF eng.phase = "try" THEN manifest ELSE eng.result
      BY EngineTyped, ModesAssumption DEF EngineRecord
    <3> HIDE DEF e
    <3>3. /\ eng'.pc \in {"running", "conclude", "cleanup", "failed", "returned", "ended"}
          /\ eng'.pc \notin {"running", "conclude"} => eng'.phase = eng.phase
      <4>1. e.phase = eng.phase
        BY <3>2
      <4>2. CASE e.phase = "start"
        <5>1. eng'.pc = "running"
          BY <3>1, <3>2, <4>2, StartPasses
        <5> QED BY <5>1
      <4>3. CASE e.phase # "start"
        <5>1. eng'.pc \in {"conclude", "cleanup", "failed", "returned", "ended"}
          BY <3>1, <3>2, <4>3, AfterPersistPlace
        <5>2. ASSUME eng'.pc # "conclude" PROVE eng'.phase = e.phase
          BY <3>1, <3>2, <4>3, <5>2, AfterPersistKeepsPhase
        <5> QED BY <4>1, <5>1, <5>2
      <4> QED BY <4>2, <4>3
    <3>5. eng'.pc \notin {"running", "conclude", "cleanup", "failed"} =>
            (~WillSeal' => ~WillSeal)
      <4>1. eng.pc = "reload"
        BY <2>5 DEF EngineReloads
      <4> QED BY <2>1, <3>3, <4>1 DEF WillSeal
    <3>6. LastSeal'
      <4>1. CASE eng'.pc \in {"running", "conclude", "cleanup", "failed"}
        BY <4>1 DEF LastSeal, WillSeal
      <4>2. CASE eng'.pc \notin {"running", "conclude", "cleanup", "failed"}
        <5>1. UNCHANGED <<manifest, lock>> /\ eng'.pc # "sealing"
          BY <2>5, <3>3 DEF EngineReloads
        <5> QED BY <2>1, <3>5, <4>2, <5>1 DEF QuietInv, LastSeal
      <4> QED BY <4>1, <4>2
    <3>7. CouncilResult'
      <4> SUFFICES ASSUME mode = "council"
                   PROVE  /\ eng'.pc # "returned" => eng'.result = None
                          /\ eng'.pc = "returned" => manifest' = eng'.result
        BY <2>1 DEF CouncilResult
      <4>1. eng.result = None /\ manifest' = manifest
        BY <2>5 DEF QuietInv, CouncilResult, EngineReloads
      <4>2. CASE e.phase = "start"
        <5>1. eng'.pc = "running" /\ eng'.result = e.result
          BY <3>1, <3>2, <4>2, StartPasses
        <5>2. e.result = None
          BY <3>2, <4>1, <4>2
        <5> QED BY <5>1, <5>2
      <4>3. CASE e.phase # "start"
        <5>1. eng' = IF replay /\ e.result # None THEN [e EXCEPT !.pc = "returned"]
                     ELSE [e EXCEPT !.pc = "ended", !.result = None]
          BY <3>1, <4>3 DEF AfterPersist
        <5> QED BY <3>2, <4>1, <4>3, <5>1 DEF EngineRecord
      <4> QED BY <4>2, <4>3
    <3> QED BY <2>2, <3>6, <3>7 DEF QuietInv
  <2>6. CASE RecordSubstitutions
    <3>1. /\ eng'.pc = "ended" /\ eng'.result = None /\ eng'.phase = "replayed"
          /\ eng.pc = "returned" /\ lock' = lock /\ manifest' = eng.result
      BY <2>6, EngineTyped DEF RecordSubstitutions, EngineRecord
    <3>2. ~WillSeal' => ~WillSeal /\ mode = "council" /\ ~early
      BY <2>1, <3>1, ModesAssumption DEF WillSeal, TypeOK
    <3>3. LastSeal'
      BY <2>1, <3>1, <3>2 DEF QuietInv, LastSeal, CouncilResult
    <3>4. CouncilResult'
      BY <3>1 DEF CouncilResult
    <3> QED BY <2>2, <3>3, <3>4 DEF QuietInv
  <2> QED BY <1>4, <2>3, <2>4, <2>5, <2>6
<1> QED BY <1>1, <1>2, <1>3, <1>4 DEF EngineSteps

\* A command that does anything while the engine is live makes the run early.
LEMMA OutcomeIsEarly ==
  ASSUME TypeOK, Alone, NEW o \in Outcome, OutcomeSteps(o)
  PROVE  /\ early' \/ ~EngineLive
         /\ early => early'
         /\ UNCHANGED <<mode, eng>>
<1>1. CASE Load(o)
  BY <1>1 DEF Load
<1>2. CASE ~Load(o)
  BY <1>2 DEF Alone, OutcomeSteps, ReadLineage, Begin, OutcomeWritesFile, Commit, Learn,
     OutcomeHashes, OutcomeSeals, OutcomeTimesOut
<1> QED BY <1>1, <1>2

LEMMA OutcomeKeepsAlone ==
  ASSUME TypeOK, Alone, CouncilResult, NEW o \in Outcome, OutcomeSteps(o)
  PROVE  Alone' /\ CouncilResult'
<1>1. /\ early' \/ ~EngineLive
      /\ UNCHANGED <<mode, eng>>
  BY OutcomeIsEarly
<1>2. EngineLive' = EngineLive
  BY <1>1 DEF EngineLive
<1>3. Alone'
  BY <1>1, <1>2 DEF Alone
<1>4. eng.pc = "returned" => EngineLive
  BY DEF EngineLive, Finished
<1> QED BY <1>1, <1>2, <1>3, <1>4 DEF CouncilResult

\* A command that goes from one place where it has nothing to seal to another.
LEMMA CommandKeepsSeal ==
  ASSUME TypeOK, LastSeal, NEW o \in Outcome, NEW r, out' = [out EXCEPT ![o] = r],
         UNCHANGED <<mode, art, manifest, lock, eng>>, early => early',
         out[o].pc \in {"idle", "lineage", "lock"},
         r.pc \in {"lineage", "lock", "write", "refused", "failed"}
  PROVE  LastSeal'
<1>1. out'[o] = r /\ \A q \in Outcome : q # o => out'[q] = out[q]
  BY DEF TypeOK, OutcomeType
<1>2. ~WillSeal' => ~WillSeal
  BY <1>1 DEF WillSeal
<1> QED BY <1>1, <1>2 DEF LastSeal

\* A command that still has to seal the run, or never will.
LEMMA CommandWillSeal ==
  ASSUME NEW o \in Outcome, out'[o].pc \in {"write", "events", "failed", "crashed"}
  PROVE  LastSeal'
BY DEF LastSeal, WillSeal

LEMMA OutcomeStepsQuiet ==
  ASSUME TypeOK, QuietInv, NEW o \in Outcome, OutcomeSteps(o)
  PROVE  QuietInv'
<1> SUFFICES LastSeal'
  BY OutcomeKeepsAlone DEF QuietInv
<1>1. early => early'
  BY OutcomeIsEarly DEF QuietInv
<1>2. CASE Load(o)
  <2>1. PICK invalid \in Invalidation :
          out' = [out EXCEPT ![o] = IF art.outcome = None
                 THEN [@ EXCEPT !.pc = "lineage", !.man = manifest, !.invalid = invalid]
                 ELSE Over(@, "refused")]
    BY <1>2 DEF Load
  <2> DEFINE r == IF art.outcome = None
                  THEN [out[o] EXCEPT !.pc = "lineage", !.man = manifest, !.invalid = invalid]
                  ELSE Over(out[o], "refused")
  <2>2. r.pc \in {"lineage", "refused"}
    <3>1. Over(out[o], "refused").pc = "refused"
      BY OutcomeTyped, OverType DEF OutcomePC
    <3>2. [out[o] EXCEPT !.pc = "lineage", !.man = manifest, !.invalid = invalid].pc = "lineage"
      BY OutcomeTyped DEF OutcomeRecord
    <3> QED BY <3>1, <3>2
  <2>3. /\ out' = [out EXCEPT ![o] = r] /\ UNCHANGED <<mode, art, manifest, lock, eng>>
        /\ out[o].pc = "idle"
    BY <1>2, <2>1 DEF Load
  <2> HIDE DEF r
  <2> QED BY <1>1, <2>2, <2>3, CommandKeepsSeal DEF QuietInv
<1>3. CASE ReadLineage(o)
  <2> DEFINE r == [out[o] EXCEPT !.pc = "lock", !.todo = OutcomeWrites(o),
                                 !.lineage = InvalidatesLineage(o)]
  <2>1. r.pc = "lock"
    BY OutcomeTyped DEF OutcomeRecord
  <2>2. /\ out' = [out EXCEPT ![o] = r] /\ UNCHANGED <<mode, art, manifest, lock, eng>>
        /\ out[o].pc = "lineage"
    BY <1>3, OutcomeTyped DEF ReadLineage, OutcomeRecord
  <2> HIDE DEF r
  <2> QED BY <1>1, <2>1, <2>2, CommandKeepsSeal DEF QuietInv
<1>4. CASE Begin(o)
  <2>1. CASE art.outcome = None
    <3>1. out'[o].pc = "write"
      BY <1>4, <2>1, OutcomeTyped DEF Begin, OutcomeRecord
    <3> QED BY <3>1, CommandWillSeal
  <2>2. CASE art.outcome # None
    <3> DEFINE r == Over(out[o], "refused")
    <3>1. r.pc = "refused"
      BY OutcomeTyped, OverType DEF OutcomePC
    <3>2. /\ out' = [out EXCEPT ![o] = r] /\ UNCHANGED <<mode, art, manifest, lock, eng>>
          /\ out[o].pc = "lock"
      BY <1>4, <2>2 DEF Begin
    <3> HIDE DEF r
    <3> QED BY <1>1, <3>1, <3>2, CommandKeepsSeal DEF QuietInv
  <2> QED BY <2>1, <2>2
<1>5. CASE OutcomeWritesFile(o) \/ Commit(o)
  <2>1. out'[o].pc \in {"write", "events"}
    <3>1. CASE OutcomeWritesFile(o)
      <4> DEFINE r == [out[o] EXCEPT !.todo = Tail(@)]
      <4>1. out' = [out EXCEPT ![o] = r] /\ out[o].pc \in {"write", "events"}
        BY <3>1 DEF OutcomeWritesFile
      <4>2. r.pc = out[o].pc
        BY OutcomeTyped DEF OutcomeRecord
      <4> QED BY <4>1, <4>2, OutcomeTyped
    <3>2. CASE Commit(o)
      <4> DEFINE s == <<<<"events", <<o, "outcome">>>>>>
                      \o IF out[o].lineage
                         THEN <<<<"events", <<o, "invalidation">>>>>> ELSE <<>>
                 r == [out[o] EXCEPT !.pc = "events", !.man = None, !.todo = s]
      <4>1. out' = [out EXCEPT ![o] = r]
        BY <3>2 DEF Commit
      <4> HIDE DEF s
      <4>2. r.pc = "events"
        BY OutcomeTyped DEF OutcomeRecord
      <4> QED BY <4>1, <4>2, OutcomeTyped
    <3> QED BY <1>5, <3>1, <3>2
  <2> QED BY <2>1, CommandWillSeal
<1>6. CASE Learn(o)
  <2>1. CASE out[o].store = 2 /\ art.verdict = None
    <3>1. out'[o] = Over(out[o], "failed")
      BY <1>6, <2>1, OutcomeTyped DEF Learn
    <3>2. out'[o].pc = "failed"
      BY <3>1, OutcomeTyped, OverType DEF OutcomePC
    <3> QED BY <3>2, CommandWillSeal
  <2>2. CASE ~(out[o].store = 2 /\ art.verdict = None)
    <3> DEFINE r == [out[o] EXCEPT !.store = @ + 1]
    <3>1. out'[o].pc = "events"
      <4>1. out' = [out EXCEPT ![o] = r] /\ out[o].pc = "events"
        BY <1>6, <2>2 DEF Learn
      <4>2. r.pc = "events"
        BY <4>1, OutcomeTyped DEF OutcomeRecord
      <4> QED BY <4>1, <4>2, OutcomeTyped
    <3> QED BY <3>1, CommandWillSeal
  <2> QED BY <2>1, <2>2
<1>7. CASE OutcomeHashes(o)
  <2>1. /\ out'[o].snap = Snapshot /\ lock = None /\ lock' = o /\ art' = art
        /\ UNCHANGED eng
    BY <1>7, OutcomeTyped DEF OutcomeHashes, OutcomeRecord
  <2>2. \A q \in Outcome : q # o => out'[q] = out[q] /\ out'[q].pc # "sealing"
    BY <1>7, <2>1, NamesAssumption DEF TypeOK, OutcomeType, OutcomeHashes
  <2>3. eng'.pc # "sealing" /\ lock' # None
    BY <2>1, NamesAssumption DEF TypeOK
  <2>4. Snapshot.seal = art
    BY SnapshotSeal DEF TypeOK
  <2> QED BY <2>1, <2>2, <2>3, <2>4 DEF LastSeal
<1>8. CASE OutcomeSeals(o)
  <2>1. /\ out'[o].pc = "done" /\ out[o].pc = "sealing" /\ lock' = None
        /\ manifest' = out[o].snap /\ art' = art /\ UNCHANGED <<mode, eng>>
    <3>1. out'[o] = Over(out[o], "done")
      BY <1>8, OutcomeTyped DEF OutcomeSeals
    <3>2. out'[o].pc = "done"
      BY <3>1, OutcomeTyped, OverType DEF OutcomePC
    <3> QED BY <1>8, <3>2 DEF OutcomeSeals
  <2>2. \A q \in Outcome : q # o => out'[q] = out[q] /\ out'[q].pc # "sealing"
    BY <1>8, <2>1, NamesAssumption DEF TypeOK, OutcomeType, OutcomeSeals
  <2>3. eng'.pc # "sealing"
    BY <2>1, NamesAssumption DEF TypeOK
  <2>4. ~WillSeal' => ~WillSeal
    BY <1>1, <2>1, <2>2 DEF WillSeal
  <2> QED BY <2>1, <2>2, <2>3, <2>4 DEF LastSeal, QuietInv
<1>9. CASE OutcomeTimesOut(o)
  <2>1. out'[o] = Over(out[o], "failed")
    BY <1>9, OutcomeTyped DEF OutcomeTimesOut
  <2>2. out'[o].pc = "failed"
    BY <2>1, OutcomeTyped, OverType DEF OutcomePC
  <2> QED BY <2>2, CommandWillSeal
<1> QED BY <1>2, <1>3, <1>4, <1>5, <1>6, <1>7, <1>8, <1>9 DEF OutcomeSteps

LEMMA NextQuiet ==
  ASSUME TypeOK, QuietInv, [Next]_vars
  PROVE  QuietInv'
<1>1. CASE UNCHANGED <<mode, art, manifest, lock, eng, out, early>>
  BY <1>1 DEF QuietInv, Alone, EngineLive, CouncilResult, LastSeal, WillSeal
<1>2. CASE \E p \in Reader : ApplySteps(p) \/ RegradeSteps(p)
  BY <1>1, <1>2, ReadersOnlyRead DEF Others
<1>3. CASE Crash
  <2>1. CASE /\ EngineLive /\ out' = out
             /\ eng' = [Over(eng, "crashed") EXCEPT !.result = None]
    <3>1. eng'.pc = "crashed" /\ eng'.result = None
      BY <2>1, EngineTyped DEF Over, EngineRecord
    <3>2. LastSeal'
      BY <3>1 DEF LastSeal, WillSeal
    <3> QED BY <3>1, <3>2 DEF QuietInv, Alone, CouncilResult, EngineLive, Finished
  <2>2. CASE eng' = eng /\ \E o \in Outcome : /\ out[o].pc # "idle"
                                              /\ out' = [out EXCEPT ![o] = Over(@, "crashed")]
    <3>1. PICK o \in Outcome : /\ out[o].pc # "idle"
                               /\ out' = [out EXCEPT ![o] = Over(@, "crashed")]
      BY <2>2
    <3>2. out'[o] = Over(out[o], "crashed")
      BY <3>1, OutcomeTyped
    <3>3. out'[o].pc = "crashed"
      BY <3>2, OutcomeTyped, OverType DEF OutcomePC
    <3>4. LastSeal'
      BY <3>3, CommandWillSeal
    <3>5. early \/ ~EngineLive
      BY <3>1 DEF QuietInv, Alone
    <3>6. eng.pc = "returned" => EngineLive
      BY DEF EngineLive, Finished
    <3> QED BY <1>3, <2>2, <3>4, <3>5, <3>6 DEF QuietInv, Alone, CouncilResult, EngineLive, Crash
  <2> QED BY <1>3, <2>1, <2>2 DEF Crash
<1>4. CASE UNCHANGED vars
  BY <1>1, <1>4 DEF vars
<1> QED BY <1>2, <1>3, <1>4, EngineStepsQuiet, OutcomeStepsQuiet DEF Next

LEMMA InitQuiet == ASSUME Init PROVE QuietInv
BY DEF Init, QuietInv, Alone, CouncilResult, LastSeal, WillSeal

LEMMA QuietHolds == Spec => [](TypeOK /\ QuietInv)
<1>1. TypeOK /\ QuietInv /\ [Next]_vars => QuietInv'
  BY NextQuiet
<1>2. Init => QuietInv
  BY InitQuiet
<1> QED BY <1>1, <1>2, TypeCorrect, PTL DEF Spec

\* When every process ended by itself, the seal verifies: whoever writes a file, with or
\* without the lock, seals the run after it (protocols.py:609, reason_assembly.py:1124).
THEOREM QuietRunIsSealed == Spec => []QuietIntegrity
<1>1. TypeOK /\ QuietInv => QuietIntegrity
  <2> SUFFICES ASSUME TypeOK, QuietInv, eng.pc = "ended",
                      eng.phase = "replayed" => mode = "council" /\ ~early,
                      \A o \in Outcome : out[o].pc \in {"idle", "refused", "done"}
               PROVE  manifest.seal = art
    BY DEF QuietIntegrity
  <2>1. ~WillSeal
    BY DEF WillSeal
  <2>2. lock = None
    BY DEF TypeOK
  <2> QED BY <2>1, <2>2 DEF QuietInv, LastSeal
<1> QED BY <1>1, QuietHolds, PTL

-----------------------------------------------------------------------------
(***************************************************************************)
(* A record whose seal verifies is never half an outcome.  The fence       *)
(* (outcome.json, checked under the lock) lets one command write; the seal it*)
(* copied when it loaded the run covers no outcome, and nobody hashes the files*)
(* while it writes.                                                        *)
(***************************************************************************)

\* Where a command is that holds, or once held, the fence.
Past == {"events", "sealing", "done", "failed", "crashed"}

\* What becomes of the memory of a command.
Moved(o, r) ==
  /\ r.man \in {out[o].man, None, manifest}
  /\ r.snap \in {out[o].snap, None} \/ OutcomeHashes(o)
  /\ out[o].pc \in Past => r.pc \in Past
  /\ out[o].pc = "write" => r.pc \in {"write"} \cup Past
  /\ out[o].pc # "idle" => r.invalid = out[o].invalid

\* A command that is over keeps no memory.
LEMMA OverIs ==
  ASSUME NEW r \in OutcomeRecord, NEW pc \in OutcomePC
  PROVE  /\ Over(r, pc).pc = pc /\ Over(r, pc).man = None /\ Over(r, pc).snap = None
         /\ Over(r, pc).todo = <<>> /\ Over(r, pc).invalid = r.invalid
BY DEF Over, OutcomeRecord

LEMMA MovedTo ==
  ASSUME TypeOK, NEW o \in Outcome, NEW r, Moved(o, r), out' = [out EXCEPT ![o] = r]
  PROVE  Moved(o, out'[o]) /\ \A q \in Outcome : q # o => out'[q] = out[q]
BY DEF TypeOK, OutcomeType

LEMMA OverMoved ==
  ASSUME TypeOK, NEW o \in Outcome, NEW pc \in {"refused", "failed", "done", "crashed"},
         out' = [out EXCEPT ![o] = Over(@, pc)], pc = "refused" => out[o].pc \in {"idle", "lock"}
  PROVE  Moved(o, out'[o]) /\ \A q \in Outcome : q # o => out'[q] = out[q]
<1> DEFINE r == Over(out[o], pc)
<1>1. pc \in OutcomePC /\ out[o] \in OutcomeRecord
  BY OutcomeTyped DEF OutcomePC
<1>2. Moved(o, r)
  BY <1>1, OverIs DEF Moved, Past
<1>3. out' = [out EXCEPT ![o] = r]
  OBVIOUS
<1> HIDE DEF r
<1> QED BY <1>2, <1>3, MovedTo

\* A step of one command moves that command and no other.
LEMMA CommandMoves ==
  ASSUME TypeOK, NEW o \in Outcome, OutcomeSteps(o)
  PROVE  Moved(o, out'[o]) /\ \A q \in Outcome : q # o => out'[q] = out[q]
<1>0. out[o] \in OutcomeRecord
  BY OutcomeTyped
<1>1. CASE Load(o)
  <2>1. PICK invalid \in Invalidation :
          out' = [out EXCEPT ![o] = IF art.outcome = None
                 THEN [@ EXCEPT !.pc = "lineage", !.man = manifest, !.invalid = invalid]
                 ELSE Over(@, "refused")]
    BY <1>1 DEF Load
  <2>2. out[o].pc = "idle"
    BY <1>1 DEF Load
  <2>3. CASE art.outcome = None
    <3> DEFINE r == [out[o] EXCEPT !.pc = "lineage", !.man = manifest, !.invalid = invalid]
    <3>1. Moved(o, r)
      BY <1>0, <2>2 DEF Moved, OutcomeRecord, Past
    <3>2. out' = [out EXCEPT ![o] = r]
      BY <2>1, <2>3
    <3> HIDE DEF r
    <3> QED BY <3>1, <3>2, MovedTo
  <2>4. CASE art.outcome # None
    BY <2>1, <2>2, <2>4, OverMoved
  <2> QED BY <2>3, <2>4
<1>2. CASE ReadLineage(o)
  <2> DEFINE r == [out[o] EXCEPT !.pc = "lock", !.todo = OutcomeWrites(o),
                                 !.lineage = InvalidatesLineage(o)]
  <2>1. Moved(o, r)
    BY <1>0, <1>2 DEF Moved, OutcomeRecord, Past, ReadLineage
  <2>2. out' = [out EXCEPT ![o] = r]
    BY <1>0, <1>2 DEF ReadLineage, OutcomeRecord
  <2> HIDE DEF r
  <2> QED BY <2>1, <2>2, MovedTo
<1>3. CASE Begin(o)
  <2>1. CASE art.outcome = None
    <3> DEFINE r == [out[o] EXCEPT !.pc = "write"]
    <3>1. Moved(o, r)
      BY <1>0, <1>3 DEF Moved, OutcomeRecord, Past, Begin
    <3>2. out' = [out EXCEPT ![o] = r]
      BY <1>3, <2>1 DEF Begin
    <3> HIDE DEF r
    <3> QED BY <3>1, <3>2, MovedTo
  <2>2. CASE art.outcome # None
    BY <1>3, <2>2, OverMoved DEF Begin
  <2> QED BY <2>1, <2>2
<1>4. CASE OutcomeWritesFile(o)
  <2> DEFINE r == [out[o] EXCEPT !.todo = Tail(@)]
  <2>1. Moved(o, r)
    BY <1>0 DEF Moved, OutcomeRecord, Past
  <2>2. out' = [out EXCEPT ![o] = r]
    BY <1>4 DEF OutcomeWritesFile
  <2> HIDE DEF r
  <2> QED BY <2>1, <2>2, MovedTo
<1>5. CASE Commit(o)
  <2> DEFINE s == <<<<"events", <<o, "outcome">>>>>>
                  \o IF out[o].lineage
                     THEN <<<<"events", <<o, "invalidation">>>>>> ELSE <<>>
             r == [out[o] EXCEPT !.pc = "events", !.man = None, !.todo = s]
  <2>1. out' = [out EXCEPT ![o] = r]
    BY <1>5 DEF Commit
  <2> HIDE DEF s
  <2>2. Moved(o, r)
    BY <1>0, <1>5 DEF Moved, OutcomeRecord, Past, Commit
  <2> HIDE DEF r
  <2> QED BY <2>1, <2>2, MovedTo
<1>6. CASE Learn(o)
  <2>1. CASE out[o].store = 2 /\ art.verdict = None
    BY <1>6, <2>1, OverMoved DEF Learn
  <2>2. CASE ~(out[o].store = 2 /\ art.verdict = None)
    <3> DEFINE r == [out[o] EXCEPT !.store = @ + 1]
    <3>1. Moved(o, r)
      BY <1>0 DEF Moved, OutcomeRecord, Past
    <3>2. out' = [out EXCEPT ![o] = r]
      BY <1>6, <2>2 DEF Learn
    <3> HIDE DEF r
    <3> QED BY <3>1, <3>2, MovedTo
  <2> QED BY <2>1, <2>2
<1>7. CASE OutcomeHashes(o)
  <2> DEFINE r == [out[o] EXCEPT !.pc = "sealing", !.snap = Snapshot]
  <2>1. Moved(o, r)
    BY <1>0, <1>7 DEF Moved, OutcomeRecord, Past, OutcomeHashes
  <2>2. out' = [out EXCEPT ![o] = r]
    BY <1>7 DEF OutcomeHashes
  <2> HIDE DEF r
  <2> QED BY <2>1, <2>2, MovedTo
<1>8. CASE OutcomeSeals(o)
  BY <1>8, OverMoved DEF OutcomeSeals
<1>9. CASE OutcomeTimesOut(o)
  BY <1>9, OverMoved DEF OutcomeTimesOut
<1> QED BY <1>1, <1>2, <1>3, <1>4, <1>5, <1>6, <1>7, <1>8, <1>9 DEF OutcomeSteps

\* The outcome invalidates lineage that the run has.
Invalidates(o) == out[o].invalid # {} /\ art.genealogy # None

\* The four files that tell of the invalidation by an outcome.
VerdictTold(o) == art.verdict # None /\ AbortsFor(o, art.verdict)
CertificateTold(o) == art.certificate # None /\ RevokesFor(o, art.certificate)
TaintTold(o) == art.taint = TaintOf(o)
GenealogyTold(o) == art.genealogy = TaintOf(o) \cap Node

\* The four files tell of it, if there is anything to tell.
Told(o) ==
  Invalidates(o) =>
    VerdictTold(o) /\ CertificateTold(o) /\ TaintTold(o) /\ GenealogyTold(o)

\* What a command has not told yet it is still about to write.
Progress(o) ==
  ~early /\ Invalidates(o) =>
    /\ out[o].pc = "lock" =>
         /\ Awaits(out[o].todo, "verdict") /\ Awaits(out[o].todo, "certificate")
         /\ Awaits(out[o].todo, "taint") /\ Awaits(out[o].todo, "genealogy")
    /\ out[o].pc \in {"write", "events"} =>
         /\ Awaits(out[o].todo, "verdict") \/ VerdictTold(o)
         /\ Awaits(out[o].todo, "certificate") \/ CertificateTold(o)
         /\ Awaits(out[o].todo, "taint") \/ TaintTold(o)
         /\ Awaits(out[o].todo, "genealogy") \/ GenealogyTold(o)

\* The transaction of the outcome on disk is over, and it told everything.
Recorded ==
  /\ art.outcome # None
  /\ out[art.outcome].pc \in Past
  /\ ~early => Told(art.outcome)

\* A seal that covers an outcome was taken after its transaction.
SealOK(m) == m # None /\ m.seal # None /\ m.seal.outcome # None => Recorded

\* Who holds the fence, and how far each command is.
Progresses ==
  /\ art.outcome # None => out[art.outcome].pc \in {"write"} \cup Past
  /\ \A o \in Outcome : Progress(o)

\* The same of every copy of the manifest, on disk and in memory.
Seals ==
  /\ SealOK(manifest) /\ SealOK(eng.man) /\ SealOK(eng.snap) /\ SealOK(eng.result)
  /\ \A o \in Outcome : SealOK(out[o].man) /\ SealOK(out[o].snap)

\* The inductive invariant behind SealedMeansCoherent.
Sealed == Progresses /\ Seals

\* A step that leaves the five files alone.
FilesKept ==
  /\ art'.verdict = art.verdict /\ art'.certificate = art.certificate
  /\ art'.taint = art.taint /\ art'.genealogy = art.genealogy
  /\ art'.outcome = art.outcome

\* Steps that leave the files alone leave what they tell.
LEMMA ToldFrame ==
  ASSUME NEW o \in Outcome, FilesKept, out'[o].invalid = out[o].invalid
  PROVE  /\ Invalidates(o)' <=> Invalidates(o)
         /\ VerdictTold(o)' <=> VerdictTold(o)
         /\ CertificateTold(o)' <=> CertificateTold(o)
         /\ TaintTold(o)' <=> TaintTold(o)
         /\ GenealogyTold(o)' <=> GenealogyTold(o)
<1>1. TaintOf(o)' = TaintOf(o)
  BY DEF TaintOf
<1> HIDE DEF TaintOf
<1>2. Invalidates(o)' <=> Invalidates(o)
  BY DEF FilesKept, Invalidates
<1>3. VerdictTold(o)' <=> VerdictTold(o)
  BY DEF FilesKept, VerdictTold, AbortsFor
<1>4. CertificateTold(o)' <=> CertificateTold(o)
  BY DEF FilesKept, CertificateTold, RevokesFor
<1>5. TaintTold(o)' <=> TaintTold(o)
  BY <1>1 DEF FilesKept, TaintTold
<1>6. GenealogyTold(o)' <=> GenealogyTold(o)
  BY <1>1 DEF FilesKept, GenealogyTold
<1> QED BY <1>2, <1>3, <1>4, <1>5, <1>6

LEMMA RecordedFrame ==
  ASSUME Recorded, NEW o \in Outcome, o = art.outcome, FilesKept, early => early',
         out'[o].pc \in Past, out'[o].invalid = out[o].invalid, early \in BOOLEAN
  PROVE  Recorded'
<1>1. art'.outcome = o /\ o # None
  BY DEF FilesKept, Recorded
<1>2. ~early' => Told(o)
  BY DEF Recorded
<1>3. Told(o)' <=> Told(o)
  BY ToldFrame DEF Told
<1> QED BY <1>1, <1>2, <1>3 DEF Recorded

\* After the transaction no command writes anything but events.
LEMMA OutcomeKeepsFiles ==
  ASSUME TypeOK, Fence, Lineage, NEW o \in Outcome, OutcomeSteps(o),
         \/ ~OutcomeWritesFile(o)
         \/ out[o].pc # "write"
         \/ art.outcome # None /\ out[art.outcome].pc \in Past
  PROVE  FilesKept
<1>1. CASE ~OutcomeWritesFile(o)
  BY <1>1 DEF FilesKept, OutcomeSteps, Load, ReadLineage, Begin, Commit, Learn,
     OutcomeHashes, OutcomeSeals, OutcomeTimesOut
<1>2. CASE OutcomeWritesFile(o)
  <2> DEFINE w == Head(out[o].todo)
  <2>1. /\ out[o].todo \in Seq(AnyWrite) /\ out[o].todo # <<>>
        /\ out[o].pc \in {"write", "events"} /\ art' = Put(art, w)
    BY <1>2, OutcomeTyped DEF OutcomeRecord, OutcomeWritesFile
  <2>2. w \in AnyWrite /\ w \in Pending(out[o].todo)
    BY <2>1, PendingTail
  <2>3. out[o].pc = "events"
    BY <1>2, <2>1 DEF Fence, FenceOf, Past
  <2>4. out[o].todo \in Seq(Write)
    BY <2>3 DEF Fence, FenceOf
  <2>5. w \in Write
    BY <2>1, <2>4, PendingTail
  <2> HIDE DEF w
  <2>6. w[1] = "events"
    BY <2>2, <2>3, <2>5, WriteTyped DEF Lineage, OutcomePending
  <2> QED BY <2>1, <2>2, <2>6, EngineTyped, PutFields, PutType DEF FilesKept
<1> QED BY <1>1, <1>2, SMTT(30)

\* A complete record of an outcome is never disturbed: the engine is over, and every
\* other command finds the fence.
LEMMA RecordedStays ==
  ASSUME TypeOK, Fence, Lineage, Alone, Recorded, [Next]_vars
  PROVE  Recorded'
<1> DEFINE o == art.outcome
<1>1. o \in Outcome /\ early \in BOOLEAN /\ out[o].pc \in Past /\ o # None
  BY DEF Recorded, TypeOK, FileContent
<1>2. CASE EngineSteps
  <2>1. art'.outcome = o /\ out' = out
    BY <1>2, EngineKeepsOutcome
  <2>2. early /\ early' = early
    BY <1>1, <1>2, EngineIsLive DEF Alone
  <2> QED BY <1>1, <2>1, <2>2 DEF Recorded
<1>3. CASE \E q \in Outcome : OutcomeSteps(q)
  <2>1. PICK q \in Outcome : OutcomeSteps(q)
    BY <1>3
  <2>2. FilesKept
    BY <1>1, <2>1, OutcomeKeepsFiles
  <2>3. early => early'
    BY <2>1, OutcomeIsEarly
  <2>4. out'[o].pc \in Past /\ out'[o].invalid = out[o].invalid
    <3>1. Moved(q, out'[q]) /\ (q # o => out'[o] = out[o])
      BY <1>1, <2>1, CommandMoves
    <3> QED BY <1>1, <3>1 DEF Moved, Past
  <2> HIDE DEF o
  <2> QED BY <1>1, <2>2, <2>3, <2>4, RecordedFrame DEF o
<1>4. CASE \E p \in Reader : ApplySteps(p) \/ RegradeSteps(p)
  <2>1. FilesKept /\ early' = early /\ out' = out
    BY <1>4, ReadersOnlyRead DEF FilesKept, Others
  <2> HIDE DEF o
  <2> QED BY <1>1, <2>1, RecordedFrame DEF o
<1>5. CASE Crash
  <2>1. FilesKept /\ early' = early
    BY <1>5 DEF FilesKept, Crash
  <2>2. out'[o].pc \in Past /\ out'[o].invalid = out[o].invalid
    <3>1. CASE out' = out
      BY <1>1, <3>1
    <3>2. CASE \E q \in Outcome : out' = [out EXCEPT ![q] = Over(@, "crashed")]
      <4>1. PICK q \in Outcome : out' = [out EXCEPT ![q] = Over(@, "crashed")]
        BY <3>2
      <4>2. out'[o] = out[o] \/ out'[o] = Over(out[o], "crashed")
        BY <1>1, <4>1, OutcomeTyped
      <4>3. "crashed" \in OutcomePC /\ out[o] \in OutcomeRecord
        BY <1>1, OutcomeTyped DEF OutcomePC
      <4> QED BY <1>1, <4>2, <4>3, OverIs DEF Past
    <3> QED BY <1>5, <3>1, <3>2 DEF Crash
  <2> HIDE DEF o
  <2> QED BY <1>1, <2>1, <2>2, RecordedFrame DEF o
<1>6. CASE UNCHANGED vars
  <2>1. FilesKept /\ early' = early /\ out' = out
    BY <1>6 DEF vars, FilesKept
  <2> HIDE DEF o
  <2> QED BY <1>1, <2>1, RecordedFrame DEF o
<1> QED BY <1>2, <1>3, <1>4, <1>5, <1>6 DEF Next

\* Only one command is inside its transaction or past it and still writing.
LEMMA OneWriter ==
  ASSUME TypeOK, Fence, NEW o \in Outcome, NEW q \in Outcome,
         out[o].pc = "write", out[q].pc \in {"write", "events"}
  PROVE  q = o
<1>1. out[q].pc = "write" => q = o
  BY OutcomeTyped
<1>2. out[q].pc = "events" => art.outcome = q /\ q # None
  BY NamesAssumption DEF Fence, FenceOf
<1>3. art.outcome = None \/ art.outcome = o
  BY DEF Fence, FenceOf
<1> QED BY <1>1, <1>2, <1>3

\* Where a command stands is kept by a step that leaves it and the files alone.
LEMMA ProgressFrame ==
  ASSUME NEW o \in Outcome, Progress(o), FilesKept, early => early', early \in BOOLEAN,
         out'[o].invalid = out[o].invalid,
         \/ out'[o].pc \notin {"lock", "write", "events"}
         \/ out'[o].pc = out[o].pc /\ out'[o].todo = out[o].todo
  PROVE  Progress(o)'
<1>1. /\ Invalidates(o)' <=> Invalidates(o)
      /\ VerdictTold(o)' <=> VerdictTold(o)
      /\ CertificateTold(o)' <=> CertificateTold(o)
      /\ TaintTold(o)' <=> TaintTold(o)
      /\ GenealogyTold(o)' <=> GenealogyTold(o)
  BY ToldFrame
<1> QED BY <1>1, SMTT(30) DEF Progress, Awaits, Pending

\* The writes of the transaction, one by one: what is written is told.
LEMMA WriteProgress ==
  ASSUME TypeOK, Fence, Lineage, NEW o \in Outcome, Progress(o), OutcomeWritesFile(o)
  PROVE  Progress(o)'
<1> DEFINE w == Head(out[o].todo)
           r == [out[o] EXCEPT !.todo = Tail(@)]
           rest == Tail(out[o].todo)
<1>1. /\ out[o].todo \in Seq(AnyWrite) /\ out[o].todo # <<>>
      /\ out[o].pc \in {"lock", "write", "events"} /\ out[o].pc # "lock"
      /\ art' = Put(art, w) /\ early' = early
  BY OutcomeTyped DEF OutcomeRecord, OutcomeWritesFile
<1>2. /\ w \in AnyWrite /\ w \in Pending(out[o].todo)
      /\ \A u \in Pending(out[o].todo) : u = w \/ u \in Pending(rest)
  BY <1>1, PendingTail
<1>3. r.pc = out[o].pc /\ r.todo = rest /\ r.invalid = out[o].invalid
  BY OutcomeTyped DEF OutcomeRecord
<1>4. out'[o] = r
  BY OutcomeTyped DEF OutcomeWritesFile
<1> HIDE DEF w, r, rest
<1>5. /\ art'.verdict = IF w[1] = "verdict" THEN w[2] ELSE art.verdict
      /\ art'.certificate = IF w[1] = "certificate" THEN w[2] ELSE art.certificate
      /\ art'.taint = IF w[1] = "taint" THEN w[2] ELSE art.taint
      /\ art'.genealogy = IF w[1] = "genealogy" THEN w[2] ELSE art.genealogy
  BY <1>1, <1>2, EngineTyped, PutFields
<1>6. \A f \in {"verdict", "certificate", "taint", "genealogy"} :
        Awaits(out[o].todo, f) => Awaits(rest, f) \/ w[1] = f
  BY <1>2 DEF Awaits
<1>7. TaintOf(o)' = TaintOf(o)
  BY <1>3, <1>4 DEF TaintOf
<1> HIDE DEF TaintOf
<1>8. /\ w[1] = "verdict" => AbortsFor(o, w[2]) /\ w[2] # None
      /\ w[1] = "certificate" => RevokesFor(o, w[2]) /\ w[2] # None
      /\ w[1] = "taint" => w[2] = TaintOf(o)
      /\ w[1] = "genealogy" => w[2] = TaintOf(o) \cap Node
      /\ w[1] = "genealogy" => art.genealogy # None
  BY <1>1, <1>2, WriteTyped DEF Lineage, OutcomePending
<1>9. Invalidates(o)' => Invalidates(o)
  BY <1>3, <1>4, <1>5, <1>8 DEF Invalidates
<1>10. /\ VerdictTold(o) \/ w[1] = "verdict" => VerdictTold(o)'
       /\ CertificateTold(o) \/ w[1] = "certificate" => CertificateTold(o)'
       /\ TaintTold(o) \/ w[1] = "taint" => TaintTold(o)'
       /\ GenealogyTold(o) \/ w[1] = "genealogy" => GenealogyTold(o)'
  <2>1. VerdictTold(o) \/ w[1] = "verdict" => VerdictTold(o)'
    BY <1>5, <1>8 DEF VerdictTold, AbortsFor
  <2>2. CertificateTold(o) \/ w[1] = "certificate" => CertificateTold(o)'
    BY <1>3, <1>4, <1>5, <1>8 DEF CertificateTold, RevokesFor
  <2>3. TaintTold(o) \/ w[1] = "taint" => TaintTold(o)'
    BY <1>5, <1>7, <1>8 DEF TaintTold
  <2>4. GenealogyTold(o) \/ w[1] = "genealogy" => GenealogyTold(o)'
    BY <1>5, <1>7, <1>8 DEF GenealogyTold
  <2> QED BY <2>1, <2>2, <2>3, <2>4
<1>11. ~early' /\ Invalidates(o)' =>
         /\ Awaits(rest, "verdict") \/ VerdictTold(o)'
         /\ Awaits(rest, "certificate") \/ CertificateTold(o)'
         /\ Awaits(rest, "taint") \/ TaintTold(o)'
         /\ Awaits(rest, "genealogy") \/ GenealogyTold(o)'
  BY <1>1, <1>6, <1>9, <1>10 DEF Progress
<1> QED BY <1>1, <1>3, <1>4, <1>11 DEF Progress, Awaits, Pending

\* The other commands meanwhile.
LEMMA WriteProgressOthers ==
  ASSUME TypeOK, Fence, Lineage, NEW o \in Outcome, OutcomeWritesFile(o),
         NEW q \in Outcome, q # o, Progress(q), out'[q] = out[q]
  PROVE  Progress(q)'
<1>1. CASE out[o].pc # "write"
  <2>1. FilesKept
    BY <1>1, OutcomeKeepsFiles DEF OutcomeSteps
  <2> QED BY <2>1, ProgressFrame, OutcomeTyped DEF OutcomeWritesFile
<1>2. CASE out[o].pc = "write"
  <2>1. out[q].pc \notin {"write", "events"}
    BY <1>2, OneWriter
  <2> DEFINE w == Head(out[o].todo)
  <2>2. out[o].todo \in Seq(AnyWrite) /\ out[o].todo # <<>> /\ art' = Put(art, w)
    BY OutcomeTyped DEF OutcomeRecord, OutcomeWritesFile
  <2>3. w \in AnyWrite /\ w \in Pending(out[o].todo)
    BY <2>2, PendingTail
  <2> HIDE DEF w
  <2>4. art'.genealogy = IF w[1] = "genealogy" THEN w[2] ELSE art.genealogy
    BY <2>2, <2>3, EngineTyped, PutFields
  <2>5. w[1] = "genealogy" => art.genealogy # None
    BY <1>2, <2>3 DEF Lineage, OutcomePending
  <2>6. Invalidates(q)' => Invalidates(q)
    BY <2>4, <2>5 DEF Invalidates
  <2>7. early' = early
    BY DEF OutcomeWritesFile
  <2> QED BY <2>1, <2>6, <2>7 DEF Progress, Awaits, Pending
<1> QED BY <1>1, <1>2

\* ReadLineage: nothing is told yet, everything is awaited.
LEMMA ReadLineageProgress ==
  ASSUME TypeOK, Lineage, NEW o \in Outcome, ReadLineage(o)
  PROVE  Progress(o)'
<1> DEFINE r == [out[o] EXCEPT !.pc = "lock", !.todo = OutcomeWrites(o),
                               !.lineage = InvalidatesLineage(o)]
<1>1. r.pc = "lock" /\ r.todo = OutcomeWrites(o) /\ r.invalid = out[o].invalid
  BY OutcomeTyped DEF OutcomeRecord
<1>2. out'[o] = r /\ art' = art
  BY OutcomeTyped DEF ReadLineage, OutcomeRecord
<1> HIDE DEF r
<1>3. Invalidates(o)' => InvalidatesLineage(o)
  BY <1>1, <1>2 DEF Invalidates, InvalidatesLineage
<1>4. InvalidatesLineage(o) => art.verdict # None /\ art.certificate # None
  BY DEF InvalidatesLineage, Lineage, Files
<1>5. InvalidatesLineage(o) =>
        /\ Awaits(OutcomeWrites(o), "genealogy") /\ Awaits(OutcomeWrites(o), "taint")
        /\ art.verdict # None => Awaits(OutcomeWrites(o), "verdict")
        /\ art.certificate # None => Awaits(OutcomeWrites(o), "certificate")
  BY OutcomeWritesAre
<1>6. Invalidates(o)' =>
        /\ Awaits(OutcomeWrites(o), "genealogy") /\ Awaits(OutcomeWrites(o), "taint")
        /\ Awaits(OutcomeWrites(o), "verdict") /\ Awaits(OutcomeWrites(o), "certificate")
  BY <1>3, <1>4, <1>5
<1> QED BY <1>1, <1>2, <1>6 DEF Progress, Awaits, Pending

\* Commit: nothing is awaited any more.
LEMMA CommitProgress ==
  ASSUME TypeOK, Fence, Lineage, NEW o \in Outcome, Progress(o), Commit(o)
  PROVE  Progress(o)'
<1>1. FilesKept /\ out[o].pc = "write" /\ out[o].todo = <<>> /\ early' = early
  BY DEF Commit, FilesKept
<1>2. Moved(o, out'[o])
  BY CommandMoves DEF OutcomeSteps
<1>3. out'[o].invalid = out[o].invalid
  BY <1>1, <1>2 DEF Moved
<1>4. \A f : ~Awaits(out[o].todo, f)
  BY <1>1, PendingFew DEF Awaits
<1>5. /\ Invalidates(o)' <=> Invalidates(o)
      /\ VerdictTold(o)' <=> VerdictTold(o)
      /\ CertificateTold(o)' <=> CertificateTold(o)
      /\ TaintTold(o)' <=> TaintTold(o)
      /\ GenealogyTold(o)' <=> GenealogyTold(o)
  BY <1>1, <1>3, ToldFrame
<1>6. out'[o].pc # "lock"
  BY <1>1, <1>2, SMTT(30) DEF Moved, Past
<1> QED BY <1>1, <1>4, <1>5, <1>6 DEF Progress

\* A step of a command keeps every command on its way.
LEMMA CommandProgress ==
  ASSUME TypeOK, Fence, Lineage, Alone, NEW o \in Outcome, OutcomeSteps(o),
         \A q \in Outcome : Progress(q)
  PROVE  \A q \in Outcome : Progress(q)'
<1>1. /\ Moved(o, out'[o]) /\ \A q \in Outcome : q # o => out'[q] = out[q]
      /\ early \in BOOLEAN /\ (early => early')
  BY CommandMoves, OutcomeIsEarly, OutcomeTyped
<1>2. ASSUME NEW q \in Outcome, q # o PROVE Progress(q)'
  <2>1. CASE OutcomeWritesFile(o)
    BY <1>1, <1>2, <2>1, WriteProgressOthers
  <2>2. CASE ~OutcomeWritesFile(o)
    <3>1. FilesKept
      BY <2>2, OutcomeKeepsFiles
    <3>2. /\ out'[q].invalid = out[q].invalid /\ out'[q].pc = out[q].pc
          /\ out'[q].todo = out[q].todo
      BY <1>1, <1>2
    <3> QED BY <1>1, <3>1, <3>2, ProgressFrame
  <2> QED BY <2>1, <2>2
<1>3. CASE OutcomeWritesFile(o) \/ ReadLineage(o) \/ Commit(o)
  BY <1>2, <1>3, WriteProgress, ReadLineageProgress, CommitProgress
<1>4. CASE out'[o].pc \notin {"lock", "write", "events"}
  BY <1>2, <1>4 DEF Progress
<1>5. CASE Begin(o) /\ art.outcome = None
  <2> DEFINE r == [out[o] EXCEPT !.pc = "write"]
  <2>1. r.pc = "write" /\ r.todo = out[o].todo /\ r.invalid = out[o].invalid
    BY OutcomeTyped DEF OutcomeRecord
  <2>2. /\ out'[o] = r /\ out[o].pc = "lock" /\ early' = early /\ FilesKept
    BY <1>5, OutcomeTyped DEF Begin, FilesKept
  <2> HIDE DEF r
  <2>3. Invalidates(o)' => Invalidates(o)
    BY <2>1, <2>2, ToldFrame
  <2>4. ~early /\ Invalidates(o) =>
           /\ Awaits(out[o].todo, "verdict") /\ Awaits(out[o].todo, "certificate")
           /\ Awaits(out[o].todo, "taint") /\ Awaits(out[o].todo, "genealogy")
    BY <2>2 DEF Progress
  <2>5. /\ out'[o].pc = "write" /\ out'[o].todo = out[o].todo
    BY <2>1, <2>2
  <2>6. \A f : Awaits(out[o].todo, f) => Awaits(out'[o].todo, f)
    BY <2>5 DEF Awaits, Pending
  <2>7. Progress(o)'
    BY <2>2, <2>3, <2>4, <2>5, <2>6 DEF Progress, Awaits, Pending
  <2> QED BY <1>2, <2>7
<1>6. CASE Learn(o) /\ ~(out[o].store = 2 /\ art.verdict = None)
  <2> DEFINE r == [out[o] EXCEPT !.store = @ + 1]
  <2>1. r.pc = out[o].pc /\ r.todo = out[o].todo /\ r.invalid = out[o].invalid
    BY OutcomeTyped DEF OutcomeRecord
  <2>2. out'[o] = r /\ early' = early /\ FilesKept
    BY <1>6, OutcomeTyped DEF Learn, FilesKept
  <2> HIDE DEF r
  <2>3. /\ out'[o].invalid = out[o].invalid /\ out'[o].pc = out[o].pc
        /\ out'[o].todo = out[o].todo
    BY <2>1, <2>2
  <2>4. Progress(o)'
    BY <1>1, <2>2, <2>3, ProgressFrame
  <2> QED BY <1>2, <2>4
<1>7. CASE OutcomeHashes(o)
  <2>1. out'[o].pc = "sealing"
    BY <1>7, OutcomeTyped DEF OutcomeHashes, OutcomeRecord
  <2> QED BY <1>4, <2>1
<1>8. CASE \E pc \in {"refused", "failed", "done"} : out' = [out EXCEPT ![o] = Over(@, pc)]
  <2>1. PICK pc \in {"refused", "failed", "done"} : out' = [out EXCEPT ![o] = Over(@, pc)]
    BY <1>8
  <2>2. out'[o] = Over(out[o], pc) /\ pc \in OutcomePC /\ out[o] \in OutcomeRecord
    BY <2>1, OutcomeTyped DEF OutcomePC
  <2>3. out'[o].pc = pc
    BY <2>2, OverIs
  <2> QED BY <1>4, <2>3
<1>9. CASE Load(o) /\ art.outcome = None
  <2>1. PICK invalid \in Invalidation :
          out' = [out EXCEPT ![o] = [@ EXCEPT !.pc = "lineage", !.man = manifest,
                                             !.invalid = invalid]]
    BY <1>9 DEF Load
  <2>2. out'[o].pc = "lineage"
    BY <2>1, OutcomeTyped DEF OutcomeRecord
  <2> QED BY <1>4, <2>2
<1> QED BY <1>3, <1>5, <1>6, <1>7, <1>8, <1>9
        DEF OutcomeSteps, Load, Begin, Learn, OutcomeSeals, OutcomeTimesOut

\* The command whose outcome is on disk wrote it in its transaction.
LEMMA WriterStays ==
  ASSUME TypeOK, Fence, [Next]_vars,
         art.outcome # None => out[art.outcome].pc \in {"write"} \cup Past
  PROVE  art'.outcome # None => out'[art'.outcome].pc \in {"write"} \cup Past
<1>1. Fence' /\ (art.outcome # None => art'.outcome = art.outcome)
  BY NextFence DEF OutcomeKept
<1>2. CASE EngineSteps
  BY <1>2, EngineKeepsOutcome
<1>3. CASE \E o \in Outcome : OutcomeSteps(o)
  <2>1. PICK o \in Outcome : OutcomeSteps(o)
    BY <1>3
  <2>2. Moved(o, out'[o]) /\ \A q \in Outcome : q # o => out'[q] = out[q]
    BY <2>1, CommandMoves
  <2>3. CASE art.outcome # None
    <3>1. art.outcome \in Outcome
      BY <2>3 DEF TypeOK, FileContent
    <3> QED BY <1>1, <2>2, <2>3, <3>1 DEF Moved
  <2>4. CASE art.outcome = None
    <3>1. CASE ~OutcomeWritesFile(o)
      BY <2>1, <2>4, <3>1 DEF OutcomeSteps, Load, ReadLineage, Begin, Commit, Learn,
         OutcomeHashes, OutcomeSeals, OutcomeTimesOut
    <3>2. CASE OutcomeWritesFile(o)
      <4> DEFINE r == [out[o] EXCEPT !.todo = Tail(@)]
      <4>1. out' = [out EXCEPT ![o] = r] /\ out[o].pc \in {"write", "events"}
        BY <3>2 DEF OutcomeWritesFile
      <4>2. r.pc = out[o].pc
        BY OutcomeTyped DEF OutcomeRecord
      <4>3. out[o].pc = "write"
        BY <2>4, <4>1, NamesAssumption DEF Fence, FenceOf
      <4>4. out'[o].pc = "write"
        BY <4>1, <4>2, <4>3, OutcomeTyped
      <4> HIDE DEF r
      <4>5. art'.outcome \in {None, o}
        BY <1>1, <4>4 DEF Fence, FenceOf
      <4> QED BY <4>4, <4>5
    <3> QED BY <3>1, <3>2, SMTT(30)
  <2> QED BY <2>3, <2>4
<1>4. CASE \E p \in Reader : ApplySteps(p) \/ RegradeSteps(p)
  BY <1>4, ReadersOnlyRead DEF Others
<1>5. CASE Crash
  <2>1. art' = art
    BY <1>5 DEF Crash
  <2>2. CASE out' = out
    BY <2>1, <2>2
  <2>3. CASE \E q \in Outcome : out' = [out EXCEPT ![q] = Over(@, "crashed")]
    <3>1. PICK q \in Outcome : out' = [out EXCEPT ![q] = Over(@, "crashed")]
      BY <2>3
    <3>2. Moved(q, out'[q]) /\ \A p \in Outcome : p # q => out'[p] = out[p]
      BY <3>1, OverMoved
    <3>3. art.outcome # None => art.outcome \in Outcome
      BY DEF TypeOK, FileContent
    <3> QED BY <2>1, <3>2, <3>3 DEF Moved
  <2> QED BY <1>5, <2>2, <2>3 DEF Crash
<1>6. CASE UNCHANGED vars
  BY <1>6 DEF vars
<1> QED BY <1>2, <1>3, <1>4, <1>5, <1>6 DEF Next

LEMMA NextProgress ==
  ASSUME TypeOK, Fence, Lineage, Alone, Progresses, [Next]_vars
  PROVE  Progresses'
<1>1. art'.outcome # None => out'[art'.outcome].pc \in {"write"} \cup Past
  BY WriterStays DEF Progresses
<1>2. CASE EngineSteps
  <2>1. out' = out /\ EngineLive /\ early' = early
    BY <1>2, EngineKeepsOutcome, EngineIsLive
  <2> QED BY <1>1, <2>1 DEF Alone, Progresses, Progress
<1>3. CASE \E o \in Outcome : OutcomeSteps(o)
  BY <1>1, <1>3, CommandProgress DEF Progresses
<1>4. CASE \E p \in Reader : ApplySteps(p) \/ RegradeSteps(p)
  <2>1. FilesKept /\ early' = early /\ out' = out
    BY <1>4, ReadersOnlyRead DEF FilesKept, Others
  <2> QED BY <1>1, <2>1, ProgressFrame, OutcomeTyped DEF Progresses
<1>5. CASE Crash
  <2>1. FilesKept /\ early' = early
    BY <1>5 DEF Crash, FilesKept
  <2>2. ASSUME NEW o \in Outcome PROVE Progress(o)'
    <3>1. CASE out'[o] = out[o]
      BY <2>1, <3>1, ProgressFrame, OutcomeTyped DEF Progresses
    <3>2. CASE out'[o] = Over(out[o], "crashed")
      <4>1. "crashed" \in OutcomePC /\ out[o] \in OutcomeRecord
        BY OutcomeTyped DEF OutcomePC
      <4>2. out'[o].pc = "crashed"
        BY <3>2, <4>1, OverIs
      <4> QED BY <4>2 DEF Progress
    <3> QED BY <1>5, <3>1, <3>2, OutcomeTyped DEF Crash
  <2> QED BY <1>1, <2>2 DEF Progresses
<1>6. CASE UNCHANGED vars
  <2>1. FilesKept /\ early' = early /\ out' = out
    BY <1>6 DEF vars, FilesKept
  <2> QED BY <1>1, <2>1, ProgressFrame, OutcomeTyped DEF Progresses
<1> QED BY <1>2, <1>3, <1>4, <1>5, <1>6 DEF Next

\* Where the engine's copies of the manifest come from.
EngineMoved ==
  /\ manifest' \in {manifest, eng.man, eng.snap, eng.result}
  /\ eng'.man.seal \in {eng.man.seal, manifest.seal}
  /\ eng'.snap \in {eng.snap, None} \/ (eng'.snap = Snapshot /\ lock = None)
  /\ eng'.result \in {eng.result, None, manifest}

LEMMA EngineMoves == ASSUME TypeOK, EngineSteps PROVE EngineMoved
<1>0. eng \in EngineRecord /\ eng.man \in Manifest /\ manifest \in Manifest
  BY EngineTyped, EngineIsLive DEF EngineLive, Finished, TypeOK
<1>1. CASE Conclude
  BY <1>1, ConcludeMemory DEF EngineMoved, Conclude
<1>2. CASE AddWorktrees \/ DraftVerdict
  BY <1>2 DEF EngineMoved, AddWorktrees, DraftVerdict
<1>3. CASE EngineFails
  BY <1>0, <1>3, FailedIs DEF EngineMoved, EngineFails
<1>4. CASE PersistReads
  <2>1. eng'.man.seal = eng.man.seal
    BY <1>0, <1>4 DEF PersistReads, EngineRecord, Manifest
  <2> QED BY <1>4, <2>1, PersistReadsMemory DEF EngineMoved, PersistReads
<1>5. CASE EngineWrites \/ EngineWritesManifest \/ EngineHashes \/ EngineSeals \/ CleanUp
            \/ RecordSubstitutions
  BY <1>0, <1>5 DEF EngineMoved, EngineWrites, EngineWritesManifest, EngineHashes, EngineSeals,
     CleanUp, RecordSubstitutions, EngineRecord
<1>6. CASE EngineTimesOut
  <2>1. eng' = AfterPersist(eng, TRUE, FALSE)
    BY <1>6 DEF EngineTimesOut
  <2>2. /\ eng'.snap = eng.snap
        /\ eng'.result \in {eng.result, None}
        /\ eng'.man.seal = eng.man.seal
    BY <1>0, <2>1, AfterPersistMemory
  <2> QED BY <1>6, <2>2 DEF EngineMoved, EngineTimesOut
<1>7. CASE EngineReloads
  <2> DEFINE e == [eng EXCEPT !.man = manifest,
                              !.result = IF eng.phase = "try" THEN manifest ELSE @]
  <2>1. PICK replay \in Replays : eng' = AfterPersist(e, FALSE, replay)
    BY <1>7 DEF EngineReloads
  <2>2. /\ e \in EngineRecord /\ replay \in BOOLEAN
        /\ e.man = manifest /\ e.snap = eng.snap
        /\ e.result \in {eng.result, manifest}
    BY <1>0, ModesAssumption DEF EngineRecord
  <2> HIDE DEF e
  <2>3. /\ eng'.snap = e.snap
        /\ eng'.result \in {e.result, None}
        /\ eng'.man.seal = e.man.seal
    BY <1>0, <2>1, <2>2, AfterPersistMemory, ZenonT(60)
  <2> QED BY <1>7, <2>2, <2>3 DEF EngineMoved, EngineReloads
<1> QED BY <1>1, <1>2, <1>3, <1>4, <1>5, <1>6, <1>7 DEF EngineSteps

LEMMA EngineStepsSeal ==
  ASSUME TypeOK, Fence, Lineage, Alone, Sealed, EngineSteps
  PROVE  Seals'
<1>1. EngineMoved /\ out' = out /\ EngineLive /\ Next
  BY EngineMoves, EngineKeepsOutcome, EngineIsLive DEF Next
<1>2. lock = None => SealOK(Snapshot)
  <2> SUFFICES ASSUME lock = None, Snapshot.seal.outcome # None PROVE Recorded
    BY DEF SealOK
  <2>1. art.outcome # None
    BY SnapshotSeal DEF TypeOK
  <2>2. early
    BY <1>1, <2>1 DEF Alone
  <2>3. art.outcome \in Outcome
    BY <2>1 DEF TypeOK, FileContent
  <2>4. out[art.outcome].pc \in Past
    BY <2>1, <2>3, OutcomeTyped, NamesAssumption DEF Sealed, Progresses
  <2> QED BY <2>1, <2>2, <2>4 DEF Recorded
<1>3. eng.man # None
  BY EngineTyped, EngineIsLive, NoneAssumption DEF EngineLive, Finished
<1>4. Recorded => Recorded'
  BY <1>1, RecordedStays
<1>5. SealOK(manifest)'
  BY <1>1, <1>4 DEF EngineMoved, Sealed, Seals, SealOK
<1>6. SealOK(eng.man)'
  <2>1. manifest # None
    BY NoneAssumption DEF TypeOK
  <2> QED BY <1>1, <1>3, <1>4, <2>1 DEF EngineMoved, Sealed, Seals, SealOK
<1>7. SealOK(eng.snap)'
  BY <1>1, <1>2, <1>4 DEF EngineMoved, Sealed, Seals, SealOK
<1>8. SealOK(eng.result)'
  BY <1>1, <1>4 DEF EngineMoved, Sealed, Seals, SealOK
<1>9. \A o \in Outcome : (SealOK(out[o].man) /\ SealOK(out[o].snap))'
  BY <1>1, <1>4 DEF Sealed, Seals, SealOK
<1> QED BY <1>5, <1>6, <1>7, <1>8, <1>9 DEF Seals

\* The seal a command takes covers its own outcome, all of it told.
LEMMA OutcomeHashesRecorded ==
  ASSUME TypeOK, Fence, Lineage, Progresses, NEW o \in Outcome, OutcomeHashes(o)
  PROVE  Recorded
<1>1. out[o].pc = "events" /\ art.outcome = o /\ out[o].todo \in Seq(Write)
  BY DEF OutcomeHashes, Fence, FenceOf
<1>2. \A w \in Pending(out[o].todo) : w[1] = "events"
  <2> SUFFICES ASSUME NEW w \in Pending(out[o].todo) PROVE w[1] = "events"
    OBVIOUS
  <2>1. w \in Write
    BY <1>1 DEF Pending
  <2>2. w[1] # "outcome"
    BY <2>1, WriteTyped DEF AnyWrite
  <2> QED BY <1>1, <2>2 DEF Lineage, OutcomePending
<1>3. \A f \in {"verdict", "certificate", "taint", "genealogy"} : ~Awaits(out[o].todo, f)
  BY <1>2 DEF Awaits
<1>4. ~early => Told(o)
  BY <1>1, <1>3 DEF Progresses, Progress, Told
<1> QED BY <1>1, <1>4, NamesAssumption DEF Recorded, Past

LEMMA OutcomeStepsSeal ==
  ASSUME TypeOK, Fence, Lineage, Alone, Sealed, NEW o \in Outcome, OutcomeSteps(o)
  PROVE  Seals'
<1>1. /\ Moved(o, out'[o]) /\ \A q \in Outcome : q # o => out'[q] = out[q]
      /\ UNCHANGED eng
  BY CommandMoves, OutcomeIsEarly
<1>2. Recorded => Recorded'
  <2>1. Next
    BY SMTT(30) DEF Next
  <2> QED BY <2>1, RecordedStays
<1>3. manifest' \in {manifest, out[o].man, out[o].snap}
  BY DEF OutcomeSteps, Load, ReadLineage, Begin, OutcomeWritesFile, Commit, Learn,
     OutcomeHashes, OutcomeSeals, OutcomeTimesOut
<1>4. SealOK(manifest)'
  BY <1>2, <1>3 DEF Sealed, Seals, SealOK
<1>5. (SealOK(eng.man) /\ SealOK(eng.snap) /\ SealOK(eng.result))'
  BY <1>1, <1>2 DEF Sealed, Seals, SealOK
<1>6. SealOK(out[o].man)'
  BY <1>1, <1>2 DEF Moved, Sealed, Seals, SealOK
<1>7. SealOK(out[o].snap)'
  <2>1. CASE OutcomeHashes(o)
    <3>1. Recorded
      BY <2>1, OutcomeHashesRecorded DEF Sealed
    <3> QED BY <1>2, <3>1 DEF SealOK
  <2>2. CASE ~OutcomeHashes(o)
    <3>1. out'[o].snap \in {out[o].snap, None}
      BY <1>1, <2>2 DEF Moved
    <3> QED BY <1>2, <3>1 DEF Sealed, Seals, SealOK
  <2> QED BY <2>1, <2>2
<1>8. \A q \in Outcome : q # o => (SealOK(out[q].man) /\ SealOK(out[q].snap))'
  BY <1>1, <1>2 DEF Sealed, Seals, SealOK
<1> QED BY <1>4, <1>5, <1>6, <1>7, <1>8 DEF Seals

\* Every step keeps the seals honest.
LEMMA NextSealed ==
  ASSUME TypeOK, Fence, Lineage, Alone, Sealed, [Next]_vars
  PROVE  Sealed'
<1>1. Progresses'
  BY NextProgress DEF Sealed
<1>2. Recorded => Recorded'
  BY RecordedStays
<1>3. CASE UNCHANGED <<manifest, eng, out>>
  BY <1>1, <1>2, <1>3 DEF Sealed, Seals, SealOK
<1>4. CASE \E p \in Reader : ApplySteps(p) \/ RegradeSteps(p)
  BY <1>3, <1>4, ReadersOnlyRead DEF Others
<1>5. CASE Crash
  <2>1. CASE /\ EngineLive /\ UNCHANGED <<manifest, out>>
             /\ eng' = [Over(eng, "crashed") EXCEPT !.result = None]
    <3>1. eng'.man = None /\ eng'.snap = None /\ eng'.result = None
      BY <2>1, EngineTyped DEF Over, EngineRecord
    <3> QED BY <1>1, <1>2, <2>1, <3>1 DEF Sealed, Seals, SealOK
  <2>2. CASE /\ UNCHANGED <<manifest, eng>>
             /\ \E o \in Outcome : out' = [out EXCEPT ![o] = Over(@, "crashed")]
    <3>1. PICK o \in Outcome : out' = [out EXCEPT ![o] = Over(@, "crashed")]
      BY <2>2
    <3>2. out'[o] = Over(out[o], "crashed") /\ \A q \in Outcome : q # o => out'[q] = out[q]
      BY <3>1, OutcomeTyped
    <3>3. "crashed" \in OutcomePC /\ out[o] \in OutcomeRecord
      BY OutcomeTyped DEF OutcomePC
    <3>4. out'[o].man = None /\ out'[o].snap = None
      BY <3>2, <3>3, OverIs
    <3> QED BY <1>1, <1>2, <2>2, <3>2, <3>4 DEF Sealed, Seals, SealOK
  <2> QED BY <1>5, <2>1, <2>2 DEF Crash
<1>6. CASE UNCHANGED vars
  BY <1>3, <1>6 DEF vars
<1> QED BY <1>1, <1>4, <1>5, <1>6, EngineStepsSeal, OutcomeStepsSeal DEF Next, Sealed

LEMMA InitSealed == ASSUME Init PROVE Sealed
<1>1. art.outcome = None /\ manifest.seal = None /\ eng.man = manifest
      /\ eng.snap = None /\ eng.result = None
  BY DEF Init
<1>2. \A o \in Outcome : out[o].pc = "idle" /\ out[o].man = None /\ out[o].snap = None
  BY DEF Init
<1> QED BY <1>1, <1>2 DEF Sealed, Progresses, Progress, Seals, SealOK

LEMMA SealedHolds == Spec => [](TypeOK /\ Fence /\ Lineage /\ QuietInv /\ Sealed)
<1>1. TypeOK /\ Fence /\ Lineage /\ QuietInv /\ Sealed /\ [Next]_vars => Sealed'
  BY NextSealed DEF QuietInv
<1>2. Init => Sealed
  BY InitSealed
<1> QED BY <1>1, <1>2, FenceHolds, LineageHolds, QuietHolds, PTL DEF Spec

\* What the seal of an invalidated record stands for.
LEMMA SealedTells ==
  ASSUME TypeOK, Sealed, manifest.seal = art, InvalidatedOnDisk, art.genealogy # None
  PROVE  Recorded /\ (~early => InvalidationComplete)
<1>1. manifest # None /\ manifest.seal # None /\ manifest.seal.outcome # None
  BY NoneAssumption DEF TypeOK, InvalidatedOnDisk
<1>2. Recorded
  BY <1>1 DEF Sealed, Seals, SealOK
<1>3. ~early => Told(art.outcome) /\ Invalidates(art.outcome)
  BY <1>2 DEF Recorded, Invalidates, InvalidatedOnDisk
<1> QED BY <1>2, <1>3 DEF Told, InvalidationComplete, VerdictTold, CertificateTold, TaintTold,
                         GenealogyTold, AbortsFor, RevokesFor, TaintOf

\* A record whose seal verifies is never half an outcome: write_transaction fences the files
\* of an outcome (reason_assembly.py:833-888) and no seal is taken inside it, though the
\* engine and the commands write back manifests that they loaded before.
THEOREM SealedIsCoherent == Spec => []SealedMeansCoherent
<1>1. TypeOK /\ Sealed => SealedMeansCoherent
  BY SealedTells DEF SealedMeansCoherent
<1> QED BY <1>1, SealedHolds, PTL

-----------------------------------------------------------------------------
(***************************************************************************)
(* A commit in a manifest stands for a lineage that was judged: the files are*)
(* written before the manifest that has the commit.                        *)
(***************************************************************************)

\* A manifest with a commit is saved by an engine that judged the lineage first.
Earned(m) == m # None /\ m.commit => art.genealogy # None

\* The engine has a commit in memory only while the genealogy is still to be written,
\* or after.
EngineCommit ==
  /\ eng.pc = "running" => eng.phase = "try" /\ ~eng.man.commit
  /\ eng.pc = "conclude" /\ eng.phase = "try" =>
       /\ eng.man.status \in {"completed", "blocked"}
       /\ art.verdict # None \/ Awaits(eng.todo, "verdict")
  /\ \/ Earned(eng.man)
     \/ eng.pc = "conclude" /\ eng.phase = "try"
     \/ eng.pc = "persist" /\ Awaits(eng.todo, "genealogy")

\* Every copy of the manifest.
Saved ==
  /\ Earned(manifest) /\ Earned(eng.snap) /\ Earned(eng.result)
  /\ \A o \in Outcome : Earned(out[o].man) /\ Earned(out[o].snap)

\* The inductive invariant that a commit stands for a judged lineage.
Commits == EngineCommit /\ Saved

\* A step of the engine that leaves its manifest a copy that was earned.
LEMMA EngineEarned ==
  ASSUME Onward, NEW m, Earned(m), eng'.man.commit = m.commit, m # None,
         eng'.pc # "running", ~(eng'.pc = "conclude" /\ eng'.phase = "try")
  PROVE  EngineCommit'
<1>1. Earned(eng.man)'
  BY DEF Earned, Onward
<1> QED BY <1>1 DEF EngineCommit

LEMMA EngineStepsCommit ==
  ASSUME TypeOK, Lineage, Commits, EngineSteps
  PROVE  EngineCommit'
<1>0. /\ eng \in EngineRecord /\ eng.man \in Manifest /\ manifest \in Manifest
      /\ eng.man # None /\ manifest # None
  BY EngineTyped, EngineIsLive, NoneAssumption DEF EngineLive, Finished, TypeOK
<1>a. Onward
  BY EngineStepsLineage
<1>1. CASE AddWorktrees \/ DraftVerdict
  <2>1. eng' = eng /\ eng.pc = "running"
    BY <1>1 DEF AddWorktrees, DraftVerdict
  <2> QED BY <1>0, <2>1 DEF Commits, EngineCommit, Earned
<1>2. CASE Conclude
  BY <1>2, ConcludeMemory DEF Commits, EngineCommit
<1>3. CASE EngineFails
  <2>1. eng'.pc = "conclude" /\ eng'.phase = "except" /\ eng'.man.commit = eng.man.commit
    BY <1>0, <1>3, FailedIs DEF EngineFails
  <2>2. Earned(eng.man)
    BY <1>3 DEF EngineFails, Commits, EngineCommit, Earned
  <2> QED BY <1>0, <1>a, <2>1, <2>2, EngineEarned
<1>4. CASE PersistReads
  <2>1. eng'.pc = "persist" /\ eng'.man.commit = eng.man.commit
    BY <1>0, <1>4 DEF PersistReads, EngineRecord, Manifest
  <2>2. CASE eng.man.status \in {"completed", "blocked"} /\ art.verdict # None
    <3>1. eng'.todo = PersistWrites(art.verdict)
      BY <1>0, <1>4, <2>2 DEF PersistReads, EngineRecord
    <3>2. art.verdict \in Verdict /\ eng.seeds \in SUBSET Node
      BY <1>0, <2>2 DEF TypeOK, FileContent, EngineRecord
    <3>3. Awaits(PersistWrites(art.verdict), "genealogy")
      BY <3>2, PersistWritesAre
    <3>4. Awaits(eng.todo, "genealogy")'
      BY <3>1, <3>3 DEF Awaits, Pending
    <3> QED BY <2>1, <3>4 DEF EngineCommit
  <2>3. CASE ~(eng.man.status \in {"completed", "blocked"} /\ art.verdict # None)
    <3>1. eng.pc = "conclude" /\ ~Awaits(eng.todo, "verdict")
      BY <1>4, PendingFew DEF PersistReads, Awaits
    <3>2. Earned(eng.man)
      BY <2>3, <3>1 DEF Commits, EngineCommit
    <3> QED BY <1>0, <1>a, <2>1, <3>2, EngineEarned
  <2> QED BY <2>2, <2>3
<1>5. CASE EngineWrites
  <2> DEFINE w == Head(eng.todo)
             rest == Tail(eng.todo)
  <2>1. /\ eng'.pc = eng.pc /\ eng'.phase = eng.phase /\ eng'.man = eng.man
        /\ eng'.todo = rest /\ eng.pc \in {"conclude", "persist"} /\ art' = Put(art, w)
    BY <1>0, <1>5 DEF EngineWrites, EngineRecord
  <2>2. w \in Write /\ \A u \in Pending(eng.todo) : u = w \/ u \in Pending(rest)
    BY <1>0, <1>5, PendingTail DEF EngineWrites, EngineRecord
  <2> HIDE DEF w, rest
  <2>3. /\ art'.verdict = IF w[1] = "verdict" THEN w[2] ELSE art.verdict
        /\ art'.genealogy = IF w[1] = "genealogy" THEN w[2] ELSE art.genealogy
        /\ w[1] = "verdict" => w[2] # None
        /\ w[1] = "genealogy" => w[2] # None
    BY <2>1, <2>2, EngineTyped, PutFields, WriteTyped DEF AnyWrite
  <2>4. \A f \in {"verdict", "genealogy"} :
          Awaits(eng.todo, f) => Awaits(rest, f) \/ w[1] = f
    BY <2>2 DEF Awaits
  <2>5. art.verdict # None \/ Awaits(eng.todo, "verdict") =>
          art'.verdict # None \/ Awaits(rest, "verdict")
    BY <2>3, <2>4
  <2>6. Awaits(eng.todo, "genealogy") => art'.genealogy # None \/ Awaits(rest, "genealogy")
    BY <2>3, <2>4
  <2>7. Earned(eng.man) => Earned(eng.man)'
    BY <1>a, <2>1 DEF Earned, Onward
  <2>8. art'.genealogy # None => Earned(eng.man)'
    BY DEF Earned
  <2> QED BY <2>1, <2>5, <2>6, <2>7, <2>8 DEF Commits, EngineCommit, Awaits, Pending
<1>6. CASE EngineWritesManifest \/ EngineHashes \/ CleanUp
  <2>1. /\ eng'.pc \in {"seal", "sealing"} \/ (eng'.pc = "conclude" /\ eng'.phase = "finally")
        /\ eng'.man = eng.man
    BY <1>0, <1>6 DEF EngineWritesManifest, EngineHashes, CleanUp, EngineRecord
  <2>2. eng.pc # "conclude" /\ ~(eng.pc = "persist" /\ Awaits(eng.todo, "genealogy"))
    BY <1>6, PendingFew DEF EngineWritesManifest, EngineHashes, CleanUp, Awaits
  <2>3. Earned(eng.man)
    BY <2>2 DEF Commits, EngineCommit
  <2> QED BY <1>0, <1>a, <2>1, <2>3, EngineEarned
<1>7. CASE EngineSeals \/ RecordSubstitutions
  <2>1. eng'.pc \in {"reload", "ended"} /\ eng'.man = eng.man
    BY <1>0, <1>7 DEF EngineSeals, RecordSubstitutions, EngineRecord
  <2>2. eng.pc \notin {"conclude", "persist"}
    BY <1>7 DEF EngineSeals, RecordSubstitutions
  <2>3. Earned(eng.man)
    BY <2>2 DEF Commits, EngineCommit
  <2> QED BY <1>0, <1>a, <2>1, <2>3, EngineEarned
<1>8. CASE EngineTimesOut
  <2>1. eng' = AfterPersist(eng, TRUE, FALSE) /\ eng.pc = "seal"
    BY <1>8 DEF EngineTimesOut
  <2>2. eng'.pc # "running" /\ ~(eng'.pc = "conclude" /\ eng'.phase = "try")
    <3>1. CASE eng.phase = "start"
      BY <1>0, <2>1, <3>1, StartFails
    <3>2. CASE eng.phase # "start"
      BY <1>0, <2>1, <3>2, AfterPersistPlace, AfterPersistConcludes
    <3> QED BY <3>1, <3>2
  <2>3. eng'.man.commit = eng.man.commit
    BY <1>0, <2>1, AfterPersistMemory
  <2>5. Earned(eng.man)
    BY <2>1 DEF Commits, EngineCommit
  <2> QED BY <1>0, <1>a, <2>2, <2>3, <2>5, EngineEarned
<1>9. CASE EngineReloads
  <2> DEFINE e == [eng EXCEPT !.man = manifest,
                              !.result = IF eng.phase = "try" THEN manifest ELSE @]
  <2>1. PICK replay \in Replays : eng' = AfterPersist(e, FALSE, replay)
    BY <1>9 DEF EngineReloads
  <2>2. /\ e \in EngineRecord /\ replay \in BOOLEAN /\ e.man = manifest
        /\ e.phase = eng.phase
    BY <1>0, ModesAssumption DEF EngineRecord
  <2> HIDE DEF e
  <2>3. eng'.man.commit = e.man.commit
    BY <1>0, <2>1, <2>2, AfterPersistMemory
  <2>4. Earned(manifest)
    BY DEF Commits, Saved
  <2>5. CASE e.phase = "start"
    <3>1. eng'.pc = "running" /\ eng'.phase = "try" /\ ~manifest.commit
      <4>1. eng'.pc = "running" /\ eng'.phase = "try"
        BY <2>1, <2>2, <2>5, StartPasses
      <4>2. ~manifest.commit
        BY <1>0, <2>2, <2>4, <2>5 DEF Lineage, EnginePending, Unjudged, Earned
      <4> QED BY <4>1, <4>2
    <3> QED BY <2>2, <2>3, <3>1 DEF EngineCommit, Earned
  <2>6. CASE e.phase # "start"
    <3>1. eng'.pc # "running" /\ ~(eng'.pc = "conclude" /\ eng'.phase = "try")
      BY <2>1, <2>2, <2>6, AfterPersistPlace, AfterPersistConcludes
    <3> QED BY <1>0, <1>a, <2>2, <2>3, <2>4, <3>1, EngineEarned
  <2> QED BY <2>5, <2>6
<1> QED BY <1>1, <1>2, <1>3, <1>4, <1>5, <1>6, <1>7, <1>8, <1>9 DEF EngineSteps

LEMMA NextCommits ==
  ASSUME TypeOK, Lineage, Commits, [Next]_vars
  PROVE  Commits'
<1>1. Onward
  BY NextLineage
<1>2. \A m : Earned(m) => Earned(m)'
  BY <1>1 DEF Earned, Onward
<1>3. CASE EngineSteps
  <2>1. EngineMoved /\ out' = out
    BY <1>3, EngineMoves, EngineKeepsOutcome
  <2>2. EngineCommit'
    BY <1>3, EngineStepsCommit
  <2>3. Earned(manifest)'
    <3>1. CASE ~EngineWritesManifest
      <4>1. manifest' \in {manifest, eng.snap, eng.result}
        BY <1>3, <3>1 DEF EngineSteps, AddWorktrees, DraftVerdict, Conclude, EngineFails, PersistReads,
           EngineWrites, EngineHashes, EngineSeals, EngineReloads, EngineTimesOut, CleanUp,
           RecordSubstitutions
      <4> QED BY <1>1, <4>1 DEF Commits, Saved, Earned, Onward
    <3>2. CASE EngineWritesManifest
      <4>1. manifest' = eng.man /\ Earned(eng.man)
        BY <3>2, PendingFew DEF EngineWritesManifest, Commits, EngineCommit, Awaits
      <4> QED BY <1>1, <4>1 DEF Earned, Onward
    <3> QED BY <3>1, <3>2
  <2>4. Snapshot.commit = manifest.commit
    BY DEF Snapshot, TypeOK, Manifest
  <2>5. manifest # None
    BY NoneAssumption DEF TypeOK
  <2>6. Earned(eng.snap)'
    BY <1>1, <2>1, <2>4, <2>5 DEF Commits, Saved, Earned, Onward, EngineMoved
  <2>7. Earned(eng.result)'
    BY <1>1, <2>1 DEF Commits, Saved, Earned, Onward, EngineMoved
  <2>8. \A o \in Outcome : (Earned(out[o].man) /\ Earned(out[o].snap))'
    BY <1>1, <2>1 DEF Commits, Saved, Earned, Onward
  <2> QED BY <2>2, <2>3, <2>6, <2>7, <2>8 DEF Commits, Saved
<1>4. CASE \E o \in Outcome : OutcomeSteps(o)
  <2>1. PICK o \in Outcome : OutcomeSteps(o)
    BY <1>4
  <2>2. /\ Moved(o, out'[o]) /\ \A q \in Outcome : q # o => out'[q] = out[q]
        /\ UNCHANGED eng
    <3>1. eng' = eng
      BY <2>1, ZenonT(60) DEF OutcomeSteps, Load, ReadLineage, Begin, OutcomeWritesFile, Commit, Learn,
         OutcomeHashes, OutcomeSeals, OutcomeTimesOut
    <3> QED BY <2>1, <3>1, CommandMoves, SMTT(30)
  <2>3. manifest' \in {manifest, out[o].man, out[o].snap}
    BY <2>1 DEF OutcomeSteps, Load, ReadLineage, Begin, OutcomeWritesFile, Commit, Learn,
       OutcomeHashes, OutcomeSeals, OutcomeTimesOut
  <2>4. Earned(manifest)'
    BY <1>1, <2>3 DEF Commits, Saved, Earned, Onward
  <2>5. (Earned(eng.snap) /\ Earned(eng.result))'
    BY <1>1, <2>2 DEF Commits, Saved, Earned, Onward
  <2>6. EngineCommit'
    BY <1>1, <2>2 DEF Commits, EngineCommit, Earned, Onward, Awaits, Pending
  <2>7. Earned(out[o].man)'
    BY <1>1, <2>2 DEF Moved, Commits, Saved, Earned, Onward
  <2>8. Earned(out[o].snap)'
    <3>1. OutcomeHashes(o) => out'[o].snap = Snapshot
      BY OutcomeTyped DEF OutcomeHashes, OutcomeRecord
    <3>2. Snapshot.commit = manifest.commit /\ manifest # None
      BY NoneAssumption DEF Snapshot, TypeOK, Manifest
    <3> QED BY <1>1, <2>2, <3>1, <3>2 DEF Moved, Commits, Saved, Earned, Onward
  <2>9. \A q \in Outcome : q # o => (Earned(out[q].man) /\ Earned(out[q].snap))'
    BY <1>1, <2>2 DEF Commits, Saved, Earned, Onward
  <2> QED BY <2>4, <2>5, <2>6, <2>7, <2>8, <2>9 DEF Commits, Saved
<1>5. CASE UNCHANGED <<art, manifest, eng, out>>
  BY <1>5 DEF Commits, EngineCommit, Saved, Earned, Awaits, Pending
<1>6. CASE \E p \in Reader : ApplySteps(p) \/ RegradeSteps(p)
  BY <1>5, <1>6, ReadersOnlyRead DEF Others
<1>7. CASE Crash
  <2>1. CASE /\ EngineLive /\ UNCHANGED <<art, manifest, out>>
             /\ eng' = [Over(eng, "crashed") EXCEPT !.result = None]
    <3>1. eng'.man = None /\ eng'.snap = None /\ eng'.result = None /\ eng'.pc = "crashed"
      BY <2>1, EngineTyped DEF Over, EngineRecord
    <3> QED BY <2>1, <3>1 DEF Commits, EngineCommit, Saved, Earned
  <2>2. CASE /\ UNCHANGED <<art, manifest, eng>>
             /\ \E o \in Outcome : out' = [out EXCEPT ![o] = Over(@, "crashed")]
    <3>1. PICK o \in Outcome : out' = [out EXCEPT ![o] = Over(@, "crashed")]
      BY <2>2
    <3>2. out'[o] = Over(out[o], "crashed") /\ \A q \in Outcome : q # o => out'[q] = out[q]
      BY <3>1, OutcomeTyped
    <3>3. "crashed" \in OutcomePC /\ out[o] \in OutcomeRecord
      BY OutcomeTyped DEF OutcomePC
    <3>4. out'[o].man = None /\ out'[o].snap = None
      BY <3>2, <3>3, OverIs
    <3>5. EngineCommit'
      BY <2>2 DEF Commits, EngineCommit, Earned, Awaits, Pending
    <3> QED BY <2>2, <3>2, <3>4, <3>5 DEF Commits, Saved, Earned
  <2> QED BY <1>7, <2>1, <2>2 DEF Crash
<1>8. CASE UNCHANGED vars
  BY <1>5, <1>8 DEF vars
<1> QED BY <1>3, <1>4, <1>6, <1>7, <1>8 DEF Next

LEMMA InitCommits == ASSUME Init PROVE Commits
<1>1. ~manifest.commit /\ eng.man = manifest /\ eng.snap = None /\ eng.result = None
      /\ eng.pc = "seal" /\ eng.phase = "start"
  BY DEF Init
<1>2. \A o \in Outcome : out[o].man = None /\ out[o].snap = None
  BY DEF Init
<1> QED BY <1>1, <1>2 DEF Commits, EngineCommit, Saved, Earned

LEMMA CommitsHold == Spec => []Commits
<1>1. TypeOK /\ Lineage /\ Commits /\ [Next]_vars => Commits'
  BY NextCommits
<1>2. Init => Commits
  BY InitCommits
<1> QED BY <1>1, <1>2, LineageHolds, PTL DEF Spec

\* A commit in the manifest on disk stands for a run that was judged: verdict, certificate,
\* taint and genealogy were all written before the manifest that carries the commit
\* (protocols.py:443-610), whatever crashed, timed out or was saved twice.
THEOREM CommitIsJudged ==
  Spec => [](manifest.commit => /\ art.verdict # None /\ art.certificate # None
                                /\ art.taint # None /\ art.genealogy # None)
<1>1. TypeOK /\ Lineage /\ Commits =>
        (manifest.commit => /\ art.verdict # None /\ art.certificate # None
                            /\ art.taint # None /\ art.genealogy # None)
  BY NoneAssumption DEF TypeOK, Lineage, Files, Commits, Saved, Earned
<1> QED BY <1>1, LineageHolds, CommitsHold, PTL

-----------------------------------------------------------------------------
(***************************************************************************)
(* What an unsealed manifest stands for.  The engine seals its first       *)
(* manifest before it goes to work, but a command that loaded it earlier   *)
(* can put it back unsealed.                                               *)
(***************************************************************************)

\* A copy of the manifest that nobody had sealed.
Unsealed(m) == m # None /\ m.seal = None

\* The engine has not gone to work, or never will, and nothing is judged.
Unstarted == art.genealogy = None /\ (eng.phase = "start" \/ eng.pc = "failed")

FreshCopy(m) == Unsealed(m) => early \/ Unstarted

\* The inductive invariant that an unsealed manifest is an early or an empty run's.
Fresh ==
  /\ FreshCopy(manifest) /\ FreshCopy(eng.man)
  /\ \A o \in Outcome : out[o].pc # "idle" => FreshCopy(out[o].man)
  /\ Unsealed(eng.result) => early
  /\ eng.pc = "reload" /\ Unsealed(manifest) => early
  /\ ~Unsealed(eng.snap) /\ \A o \in Outcome : ~Unsealed(out[o].snap)

LEMMA SnapshotSealed == ASSUME TypeOK PROVE ~Unsealed(Snapshot)
BY SnapshotSeal, NoneAssumption DEF TypeOK, Unsealed

\* The first persist_manifest, up to the work or the end.
LEMMA StartFresh ==
  ASSUME TypeOK, Lineage, Alone, Fresh, EngineSteps, eng.phase = "start", ~early
  PROVE  Fresh'
<1>1. /\ eng \in EngineRecord /\ manifest \in Manifest /\ manifest # None
      /\ out' = out /\ early' = early /\ EngineLive /\ \A o \in Outcome : out[o].pc = "idle"
  BY EngineTyped, EngineKeepsOutcome, EngineIsLive, NoneAssumption DEF Alone, TypeOK
<1>2. eng.pc \in {"seal", "sealing", "reload"} /\ art.genealogy = None
  BY <1>1 DEF Lineage, EnginePending, Unjudged, EngineLive, Finished
<1>3. ~Unsealed(eng.result)
  BY DEF Fresh
<1>4. CASE EngineHashes
  <2>1. /\ eng' = [eng EXCEPT !.pc = "sealing", !.snap = Snapshot]
        /\ UNCHANGED <<art, manifest>>
    BY <1>4 DEF EngineHashes
  <2>2. /\ eng'.phase = "start" /\ eng'.pc = "sealing" /\ eng'.snap = Snapshot
        /\ eng'.result = eng.result
    BY <1>1, <2>1 DEF EngineRecord
  <2> QED BY <1>1, <1>2, <1>3, <2>1, <2>2, SnapshotSealed
          DEF Fresh, FreshCopy, Unstarted, Unsealed
<1>5. CASE EngineSeals
  <2>1. /\ eng' = [eng EXCEPT !.pc = "reload", !.snap = None]
        /\ manifest' = eng.snap /\ art' = art
    BY <1>5 DEF EngineSeals
  <2>2. /\ eng'.phase = "start" /\ eng'.pc = "reload" /\ eng'.snap = None
        /\ eng'.result = eng.result
    BY <1>1, <2>1 DEF EngineRecord
  <2> QED BY <1>1, <1>2, <1>3, <2>1, <2>2 DEF Fresh, FreshCopy, Unstarted, Unsealed
<1>6. CASE EngineReloads
  <2> DEFINE e == [eng EXCEPT !.man = manifest,
                              !.result = IF eng.phase = "try" THEN manifest ELSE @]
  <2>1. PICK replay \in Replays : eng' = AfterPersist(e, FALSE, replay)
    BY <1>6 DEF EngineReloads
  <2>2. /\ e \in EngineRecord /\ replay \in BOOLEAN /\ e.phase = "start"
        /\ e.man = manifest /\ e.snap = eng.snap /\ e.result = eng.result
    BY <1>1, ModesAssumption DEF EngineRecord
  <2> HIDE DEF e
  <2>3. /\ eng'.pc = "running" /\ eng'.man = manifest /\ eng'.snap = eng.snap
        /\ eng'.result = eng.result
    BY <2>1, <2>2, StartPasses, ZenonT(60)
  <2>4. UNCHANGED <<art, manifest>> /\ ~Unsealed(manifest)
    BY <1>6 DEF EngineReloads, Fresh
  <2> QED BY <1>1, <1>3, <2>3, <2>4 DEF Fresh, FreshCopy, Unsealed
<1>7. CASE EngineTimesOut
  <2>1. eng' = AfterPersist(eng, TRUE, FALSE) /\ UNCHANGED <<art, manifest>>
    BY <1>7 DEF EngineTimesOut
  <2>2. eng'.pc = "failed" /\ eng'.snap = eng.snap /\ eng'.result = eng.result
    <3>1. /\ eng \in EngineRecord /\ eng.phase = "start"
          /\ eng' = AfterPersist(eng, TRUE, FALSE)
      BY <1>1, <2>1
    <3> QED BY ONLY <3>1, StartFails
  <2> QED BY <1>1, <1>2, <1>3, <2>1, <2>2 DEF Fresh, FreshCopy, Unstarted, Unsealed
<1> QED BY <1>2, <1>4, <1>5, <1>6, <1>7 DEF EngineSteps, AddWorktrees, DraftVerdict, Conclude,
        EngineFails, PersistReads, EngineWrites, EngineWritesManifest, CleanUp,
        RecordSubstitutions

LEMMA EngineStepsFresh ==
  ASSUME TypeOK, Lineage, Alone, Fresh, EngineSteps
  PROVE  Fresh'
<1>1. /\ EngineMoved /\ out' = out /\ early' = early /\ EngineLive
      /\ manifest \in Manifest /\ manifest # None /\ eng.man # None
  BY EngineMoves, EngineKeepsOutcome, EngineIsLive, EngineTyped, NoneAssumption
  DEF EngineLive, Finished, TypeOK
<1>2. ~Unsealed(eng'.snap) /\ \A o \in Outcome : ~Unsealed(out'[o].snap)
  BY <1>1, SnapshotSealed DEF EngineMoved, Fresh, Unsealed
<1>3. CASE early
  BY <1>1, <1>2, <1>3 DEF Fresh, FreshCopy, Unsealed
<1>4. CASE ~early /\ eng.phase # "start"
  <2>1. \A o \in Outcome : out[o].pc = "idle"
    BY <1>1, <1>4 DEF Alone
  <2>2. manifest.seal # None /\ eng.man.seal # None /\ ~Unsealed(eng.result)
    BY <1>1, <1>4 DEF Fresh, FreshCopy, Unsealed, Unstarted, EngineLive, Finished
  <2>3. ~Unsealed(manifest') /\ ~Unsealed(eng'.man) /\ ~Unsealed(eng'.result)
    BY <1>1, <2>2 DEF EngineMoved, Fresh, Unsealed
  <2> QED BY <1>1, <1>2, <2>1, <2>3 DEF Fresh, FreshCopy, Unsealed
<1> QED BY <1>3, <1>4, StartFresh

\* A command judges no lineage that the engine has not judged.
LEMMA OutcomeJudgesNothing ==
  ASSUME TypeOK, Lineage, NEW o \in Outcome, OutcomeSteps(o), art.genealogy = None
  PROVE  art'.genealogy = None
<1>1. CASE OutcomeWritesFile(o)
  <2> DEFINE w == Head(out[o].todo)
  <2>1. /\ out[o].todo \in Seq(AnyWrite) /\ out[o].todo # <<>> /\ art' = Put(art, w)
        /\ out[o].pc \in {"write", "events"} /\ art \in FileContent
    BY <1>1, OutcomeTyped, EngineTyped DEF OutcomeWritesFile, OutcomeRecord
  <2>2. w \in AnyWrite /\ w \in Pending(out[o].todo)
    BY <2>1, PendingTail
  <2> HIDE DEF w
  <2>3. w[1] # "genealogy"
    BY <2>1, <2>2, SMTT(30) DEF Lineage, OutcomePending
  <2> QED BY <2>1, <2>2, <2>3, PutFields
<1>2. CASE ~OutcomeWritesFile(o)
  BY <1>2 DEF OutcomeSteps, Load, ReadLineage, Begin, Commit, Learn, OutcomeHashes,
     OutcomeSeals, OutcomeTimesOut
<1> QED BY <1>1, <1>2

LEMMA OutcomeStepsFresh ==
  ASSUME TypeOK, Lineage, Alone, Fresh, NEW o \in Outcome, OutcomeSteps(o)
  PROVE  Fresh'
<1>1. /\ Moved(o, out'[o]) /\ \A q \in Outcome : q # o => out'[q] = out[q]
      /\ UNCHANGED eng /\ (early => early') /\ (early' \/ ~EngineLive)
  BY CommandMoves, OutcomeIsEarly
<1>2. \A m : FreshCopy(m) => FreshCopy(m)'
  BY <1>1, OutcomeJudgesNothing, SMTT(30) DEF FreshCopy, Unstarted, Unsealed
<1>3. manifest' \in {manifest, out[o].man, out[o].snap}
      /\ (manifest' = manifest \/ out[o].pc # "idle")
  BY DEF OutcomeSteps, Load, ReadLineage, Begin, OutcomeWritesFile, Commit, Learn,
     OutcomeHashes, OutcomeSeals, OutcomeTimesOut
<1>4. FreshCopy(manifest)'
  BY <1>1, <1>2, <1>3 DEF Fresh, FreshCopy, Unstarted, Unsealed
<1>5. FreshCopy(eng.man)' /\ (Unsealed(eng.result) => early)' /\ ~Unsealed(eng.snap)'
  BY <1>1, <1>2 DEF Fresh, FreshCopy, Unstarted, Unsealed
<1>6. (eng.pc = "reload" => early)'
  BY <1>1 DEF EngineLive, Finished
<1>7. FreshCopy(out[o].man)'
  <2>1. CASE out[o].pc = "idle"
    <3>1. Load(o)
      BY <2>1 DEF OutcomeSteps, ReadLineage, Begin, OutcomeWritesFile, Commit, Learn,
         OutcomeHashes, OutcomeSeals, OutcomeTimesOut
    <3>2. out'[o].man \in {None, manifest}
      <4>1. PICK invalid \in Invalidation :
              out' = [out EXCEPT ![o] =
                 IF art.outcome = None
                 THEN [@ EXCEPT !.pc = "lineage", !.man = manifest, !.invalid = invalid]
                 ELSE Over(@, "refused")]
        BY <3>1 DEF Load
      <4>2. CASE art.outcome = None
        <5>1. out'[o] = [out[o] EXCEPT !.pc = "lineage", !.man = manifest,
                                       !.invalid = invalid]
          BY <4>1, <4>2, OutcomeTyped
        <5> QED BY <5>1, OutcomeTyped DEF OutcomeRecord
      <4>3. CASE art.outcome # None
        <5>1. out'[o] = Over(out[o], "refused")
          BY <4>1, <4>3, OutcomeTyped
        <5>2. "refused" \in OutcomePC
          BY DEF OutcomePC
        <5> QED BY <5>1, <5>2, OutcomeTyped, OverIs
      <4> QED BY <4>2, <4>3
    <3> QED BY <1>1, <1>2, <3>2 DEF Fresh, FreshCopy, Unstarted, Unsealed
  <2>2. CASE out[o].pc # "idle"
    BY <1>1, <1>2, <2>2 DEF Moved, Fresh, FreshCopy, Unstarted, Unsealed
  <2> QED BY <2>1, <2>2
<1>8. ~Unsealed(out[o].snap)'
  <2>1. CASE OutcomeHashes(o)
    <3>1. out'[o].snap = Snapshot
      BY <2>1, OutcomeTyped DEF OutcomeHashes, OutcomeRecord
    <3> QED BY <3>1, SnapshotSealed DEF Unsealed
  <2>2. CASE ~OutcomeHashes(o)
    BY <1>1, <2>2 DEF Moved, Fresh, Unsealed
  <2> QED BY <2>1, <2>2
<1>9. \A q \in Outcome : q # o =>
        ((out[q].pc # "idle" => FreshCopy(out[q].man)) /\ ~Unsealed(out[q].snap))'
  BY <1>1, <1>2 DEF Fresh, FreshCopy, Unstarted, Unsealed
<1> QED BY <1>4, <1>5, <1>6, <1>7, <1>8, <1>9 DEF Fresh

LEMMA NextFresh ==
  ASSUME TypeOK, Lineage, Alone, Fresh, [Next]_vars
  PROVE  Fresh'
<1>1. CASE UNCHANGED <<art, manifest, eng, out, early>>
  BY <1>1 DEF Fresh, FreshCopy, Unstarted, Unsealed
<1>2. CASE Crash
  <2>1. CASE /\ EngineLive /\ out' = out
             /\ eng' = [Over(eng, "crashed") EXCEPT !.result = None]
    <3>1. /\ eng'.man = None /\ eng'.snap = None /\ eng'.result = None
          /\ eng'.pc = "crashed" /\ eng'.phase = eng.phase
      BY <2>1, EngineTyped DEF Over, EngineRecord
    <3>2. UNCHANGED <<art, manifest, early>>
      BY <1>2 DEF Crash
    <3>3. Unstarted => Unstarted'
      BY <2>1, <3>1, <3>2 DEF Unstarted, EngineLive, Finished
    <3> QED BY <2>1, <3>1, <3>2, <3>3 DEF Fresh, FreshCopy, Unsealed
  <2>2. CASE eng' = eng /\ \E o \in Outcome : out' = [out EXCEPT ![o] = Over(@, "crashed")]
    <3>1. PICK o \in Outcome : out' = [out EXCEPT ![o] = Over(@, "crashed")]
      BY <2>2
    <3>2. out'[o] = Over(out[o], "crashed") /\ \A q \in Outcome : q # o => out'[q] = out[q]
      BY <3>1, OutcomeTyped
    <3>3. "crashed" \in OutcomePC /\ out[o] \in OutcomeRecord
      BY OutcomeTyped DEF OutcomePC
    <3>4. out'[o].man = None /\ out'[o].snap = None
      BY <3>2, <3>3, OverIs
    <3>5. UNCHANGED <<art, manifest, eng, early>>
      BY <1>2, <2>2 DEF Crash
    <3> QED BY <3>2, <3>4, <3>5 DEF Fresh, FreshCopy, Unstarted, Unsealed
  <2> QED BY <1>2, <2>1, <2>2 DEF Crash
<1>3. CASE \E p \in Reader : ApplySteps(p) \/ RegradeSteps(p)
  BY <1>1, <1>3, ReadersOnlyRead DEF Others
<1>4. CASE UNCHANGED vars
  BY <1>1, <1>4 DEF vars
<1> QED BY <1>2, <1>3, <1>4, EngineStepsFresh, OutcomeStepsFresh DEF Next

LEMMA FreshHolds == Spec => []Fresh
<1>1. Init => Fresh
  BY DEF Init, Fresh, FreshCopy, Unstarted, Unsealed
<1>2. TypeOK /\ Lineage /\ QuietInv /\ Fresh /\ [Next]_vars => Fresh'
  BY NextFresh DEF QuietInv
<1> QED BY <1>1, <1>2, LineageHolds, QuietHolds, PTL DEF Spec

\* A judged run whose manifest is unsealed is one that an outcome command loaded before
\* it ended: whatever else crashes or times out, the engine seals its manifest before it
\* goes to work (protocols.py:2232, git_worker.py:1380) and nobody unseals it.
THEOREM UnsealedIsEarly ==
  Spec => [](manifest.seal = None /\ art.genealogy # None => early)
<1>1. TypeOK /\ Fresh => (manifest.seal = None /\ art.genealogy # None => early)
  BY NoneAssumption DEF TypeOK, Fresh, FreshCopy, Unsealed, Unstarted
<1> QED BY <1>1, FreshHolds, TypeCorrect, PTL

-----------------------------------------------------------------------------
(***************************************************************************)
(* What apply relies on.  The files it reads one after the other may change in*)
(* between, but only onward.                                               *)
(***************************************************************************)

\* What a reader may rely on once it has read it.
Steady ==
  /\ Onward
  /\ mode' = mode
  /\ early => early'
  /\ art.genealogy # None => eng'.seeds = eng.seeds
  /\ InvalidatedOnDisk => InvalidatedOnDisk'

\* Once the genealogy is written the engine decides nothing more about taint.
LEMMA EngineSeeds ==
  ASSUME TypeOK, Lineage, EngineSteps, art.genealogy # None
  PROVE  eng'.seeds = eng.seeds
<1>0. eng \in EngineRecord
  BY EngineTyped
<1>1. CASE Conclude
  BY <1>1 DEF Conclude, Lineage, EnginePending, Unjudged
<1>2. CASE EngineFails
  BY <1>0, <1>2, FailedIs DEF EngineFails
<1>3. CASE PersistReads
  BY <1>3, PersistReadsMemory
<1>4. CASE EngineTimesOut
  <2>1. eng' = AfterPersist(eng, TRUE, FALSE)
    BY <1>4 DEF EngineTimesOut
  <2> QED BY <1>0, <2>1, AfterPersistMemory
<1>5. CASE EngineReloads
  <2> DEFINE e == [eng EXCEPT !.man = manifest,
                              !.result = IF eng.phase = "try" THEN manifest ELSE @]
  <2>1. PICK replay \in Replays : eng' = AfterPersist(e, FALSE, replay)
    BY <1>5 DEF EngineReloads
  <2>2. e \in EngineRecord /\ replay \in BOOLEAN /\ e.seeds = eng.seeds
    BY <1>0, EngineTyped, ModesAssumption DEF EngineRecord
  <2> HIDE DEF e
  <2>3. eng'.seeds = e.seeds
    BY <2>1, <2>2, AfterPersistMemory
  <2> QED BY <2>2, <2>3
<1>6. CASE \/ AddWorktrees \/ DraftVerdict \/ EngineWrites \/ EngineWritesManifest
           \/ EngineHashes \/ EngineSeals \/ CleanUp \/ RecordSubstitutions
  BY <1>0, <1>6 DEF AddWorktrees, DraftVerdict, EngineWrites, EngineWritesManifest, EngineHashes,
     EngineSeals, CleanUp, RecordSubstitutions, EngineRecord
<1> QED BY <1>1, <1>2, <1>3, <1>4, <1>5, <1>6 DEF EngineSteps

\* An invalidation on disk is never taken back.
LEMMA InvalidationStays ==
  ASSUME TypeOK, Fence, Progresses, [Next]_vars, InvalidatedOnDisk
  PROVE  InvalidatedOnDisk'
<1> DEFINE o == art.outcome
<1>1. o \in Outcome /\ o # None /\ out[o].pc # "idle" /\ out[o].invalid # {}
  BY DEF InvalidatedOnDisk, TypeOK, FileContent, Progresses, Past
<1>2. art'.outcome = o
  BY <1>1, NextFence DEF OutcomeKept
<1>3. out'[o].invalid = out[o].invalid
  <2>1. CASE out' = out
    BY <2>1
  <2>2. CASE EngineSteps
    BY <2>1, <2>2, EngineKeepsOutcome
  <2>3. CASE \E q \in Outcome : OutcomeSteps(q)
    <3>1. PICK q \in Outcome : OutcomeSteps(q)
      BY <2>3
    <3>2. Moved(q, out'[q]) /\ (q # o => out'[o] = out[o])
      BY <1>1, <3>1, CommandMoves
    <3> QED BY <1>1, <3>2 DEF Moved
  <2>4. CASE \E p \in Reader : ApplySteps(p) \/ RegradeSteps(p)
    BY <2>1, <2>4, ReadersOnlyRead DEF Others
  <2>5. CASE \E q \in Outcome : out' = [out EXCEPT ![q] = Over(@, "crashed")]
    <3>1. PICK q \in Outcome : out' = [out EXCEPT ![q] = Over(@, "crashed")]
      BY <2>5
    <3>2. Moved(q, out'[q]) /\ (q # o => out'[o] = out[o])
      BY <1>1, <3>1, OverMoved
    <3> QED BY <1>1, <3>2 DEF Moved
  <2>6. CASE UNCHANGED vars
    BY <2>1, <2>6 DEF vars
  <2> QED BY <2>1, <2>2, <2>3, <2>4, <2>5, <2>6 DEF Next, Crash
<1> HIDE DEF o
<1> QED BY <1>1, <1>2, <1>3 DEF InvalidatedOnDisk

LEMMA NextSteady ==
  ASSUME TypeOK, Fence, Lineage, QuietInv, Sealed, [Next]_vars
  PROVE  Steady
<1>1. Onward
  BY NextLineage
<1>2. InvalidatedOnDisk => InvalidatedOnDisk'
  BY InvalidationStays DEF Sealed
<1>3. mode' = mode /\ (early => early')
  <2>1. CASE EngineSteps
    BY <2>1, EngineIsLive
  <2>2. CASE \E o \in Outcome : OutcomeSteps(o)
    BY <2>2, OutcomeIsEarly DEF QuietInv
  <2>3. CASE \E p \in Reader : ApplySteps(p) \/ RegradeSteps(p)
    BY <2>3, ReadersOnlyRead DEF Others
  <2>4. CASE Crash \/ UNCHANGED vars
    BY <2>4 DEF Crash, vars
  <2> QED BY <2>1, <2>2, <2>3, <2>4 DEF Next
<1>4. art.genealogy # None => eng'.seeds = eng.seeds
  <2>1. CASE EngineSteps
    BY <2>1, EngineSeeds
  <2>2. CASE \E o \in Outcome : OutcomeSteps(o)
    BY <2>2, OutcomeIsEarly DEF QuietInv
  <2>3. CASE \E p \in Reader : ApplySteps(p) \/ RegradeSteps(p)
    BY <2>3, ReadersOnlyRead DEF Others
  <2>4. CASE Crash
    <3>1. ([Over(eng, "crashed") EXCEPT !.result = None]).seeds = eng.seeds
      BY EngineTyped DEF Over, EngineRecord
    <3> QED BY <2>4, <3>1 DEF Crash
  <2>5. CASE UNCHANGED vars
    BY <2>5 DEF vars
  <2> QED BY <2>1, <2>2, <2>3, <2>4, <2>5 DEF Next
<1> QED BY <1>1, <1>2, <1>3, <1>4 DEF Steady

\* What an apply command knows for each check it passed.
ApplyInv(p) ==
  LET r == reader[p]
  IN  /\ r.ready => art.genealogy # None
      /\ r.pc = "verify" /\ r.known => InvalidatedOnDisk
      /\ r.pc = "verdict" /\ r.known /\ r.ready => early \/ art.verdict.finality = "abort"
      /\ r.pc \in {"certificate", "taint", "pick", "applied"} =>
           mode = "implement" /\ (r.ready /\ r.known => early)
      /\ r.pc \in {"taint", "pick", "applied"} /\ r.ready => art.verdict.unresolved = {}
      /\ r.pc \in {"pick", "applied"} /\ r.ready => eng.seeds = {}
      /\ r.pc = "applied" => r.ready

\* Where an apply command is.
ApplyPC == {"verify", "verdict", "certificate", "taint", "pick", "applied"}

\* What an apply command knows stays true while others act.
LEMMA ApplyFrame ==
  ASSUME Lineage, NEW p \in Reader, ApplyInv(p), Steady, reader'[p] = reader[p]
  PROVE  ApplyInv(p)'
<1>1. art.genealogy # None =>
        /\ art'.genealogy # None
        /\ art'.verdict.unresolved = art.verdict.unresolved
        /\ art.verdict.finality = "abort" => art'.verdict.finality = "abort"
        /\ eng'.seeds = eng.seeds
  BY DEF Steady, Onward, Unjudged
<1>2. (reader[p].ready => art.genealogy # None)'
  BY <1>1 DEF ApplyInv
<1>3. (reader[p].pc = "verify" /\ reader[p].known => InvalidatedOnDisk)'
  BY DEF ApplyInv, Steady
<1>4. (reader[p].pc = "verdict" /\ reader[p].known /\ reader[p].ready =>
         early \/ art.verdict.finality = "abort")'
  BY <1>1 DEF ApplyInv, Steady
<1>5. (reader[p].pc \in {"certificate", "taint", "pick", "applied"} =>
         mode = "implement" /\ (reader[p].ready /\ reader[p].known => early))'
  BY DEF ApplyInv, Steady
<1>6. (reader[p].pc \in {"taint", "pick", "applied"} /\ reader[p].ready =>
         art.verdict.unresolved = {})'
  BY <1>1 DEF ApplyInv
<1>7. (reader[p].pc \in {"pick", "applied"} /\ reader[p].ready => eng.seeds = {})'
  BY <1>1 DEF ApplyInv
<1>8. (reader[p].pc = "applied" => reader[p].ready)'
  BY DEF ApplyInv
<1> QED BY <1>2, <1>3, <1>4, <1>5, <1>6, <1>7, <1>8 DEF ApplyInv

\* A reader that is not an apply command.
LEMMA NotApply ==
  ASSUME NEW p \in Reader, reader'[p].pc \notin ApplyPC, reader'[p].ready = FALSE
  PROVE  ApplyInv(p)'
BY DEF ApplyInv, ApplyPC

LEMMA ApplyLoadsRead ==
  ASSUME TypeOK, Commits, NEW p \in Reader, ApplyLoads(p)
  PROVE  ApplyInv(p)'
<1> DEFINE known == InvalidatedOnDisk
           ready == manifest.commit /\ manifest.status = "completed"
           r == [reader[p] EXCEPT !.pc = "verify", !.ready = ready,
                                  !.known = known, !.live = EngineLive]
<1>1. reader[p] \in ReaderRecord /\ reader' = [reader EXCEPT ![p] = r]
  BY DEF TypeOK, ApplyLoads
<1>2. r.pc = "verify" /\ r.ready = ready /\ r.known = known
  BY <1>1 DEF ReaderRecord
<1>3. reader'[p] = r
  BY <1>1 DEF TypeOK
<1> HIDE DEF r
<1>4. ready => art.genealogy # None
  BY NoneAssumption DEF Commits, Saved, Earned, TypeOK
<1>5. known' = known /\ art' = art
  BY DEF ApplyLoads, Others, InvalidatedOnDisk
<1> QED BY <1>2, <1>3, <1>4, <1>5 DEF ApplyInv

\* A check that is passed, and one that is not.
LEMMA CheckIs ==
  ASSUME TypeOK, NEW p \in Reader, NEW at, NEW passes \in BOOLEAN, NEW next,
         Check(p, at, passes, next)
  PROVE  /\ UNCHANGED Others /\ reader[p].pc = at
         /\ \/ /\ passes
               /\ reader'[p].pc = next /\ reader'[p].ready = reader[p].ready
               /\ reader'[p].known = reader[p].known
            \/ reader'[p].pc = "refused" /\ reader'[p].ready = FALSE
<1>1. reader[p] \in ReaderRecord /\ DOMAIN reader = Reader
  BY DEF TypeOK
<1>2. CASE passes
  <2>1. reader'[p] = [reader[p] EXCEPT !.pc = next]
    BY <1>1, <1>2 DEF Check
  <2> QED BY <1>1, <1>2, <2>1 DEF Check, ReaderRecord
<1>3. CASE ~passes
  <2>1. reader'[p] = [Idle EXCEPT !.pc = "refused"]
    BY <1>1, <1>3 DEF Check
  <2>2. reader'[p].pc = "refused" /\ reader'[p].ready = FALSE
    BY <2>1 DEF Idle
  <2> QED BY <1>3, <2>2 DEF Check
<1> QED BY <1>2, <1>3

\* Each check that is passed tells the command what it needs for the next.
LEMMA ApplyStepsRead ==
  ASSUME TypeOK, Lineage, Sealed, Commits, Fresh, NEW p \in Reader, ApplyInv(p),
         ApplySteps(p)
  PROVE  ApplyInv(p)'
<1> DEFINE r == reader[p]
           s == reader'[p]
           Same == s.ready = r.ready /\ s.known = r.known
           Refused == s.pc = "refused" /\ s.ready = FALSE
<1>1. CASE ApplyLoads(p)
  BY <1>1, ApplyLoadsRead
<1>2. CASE Refused
  BY <1>2, NotApply DEF ApplyPC
<1>3. CASE ApplyVerifies(p) /\ ~Refused
  <2>1. /\ UNCHANGED Others /\ r.pc = "verify" /\ manifest.seal \in {None, art}
        /\ s.pc = "verdict" /\ Same
    <3> DEFINE passes == manifest.seal \in {None, art}
    <3>1. Check(p, "verify", passes, "verdict") /\ passes \in BOOLEAN
      BY <1>3 DEF ApplyVerifies
    <3> HIDE DEF passes
    <3>2. /\ UNCHANGED Others /\ r.pc = "verify" /\ passes /\ s.pc = "verdict" /\ Same
      BY <1>3, <3>1, CheckIs, ZenonT(180)
    <3> QED BY <3>2 DEF passes
  <2>2. r.ready /\ r.known => early \/ art.verdict.finality = "abort"
    <3>1. CASE manifest.seal = art
      BY <2>1, <3>1, SealedTells DEF ApplyInv, InvalidationComplete
    <3>2. CASE manifest.seal = None
      BY <3>2, NoneAssumption
      DEF ApplyInv, TypeOK, Fresh, FreshCopy, Unsealed, Unstarted
    <3> QED BY <2>1, <3>1, <3>2
  <2> QED BY <2>1, <2>2 DEF ApplyInv, Others
<1>4. CASE ApplyReadsVerdict(p) /\ ~Refused
  <2>1. /\ UNCHANGED Others /\ r.pc = "verdict"
        /\ art.verdict # None /\ art.verdict.finality = "semantic_commit"
        /\ s.pc = "certificate" /\ Same
    BY <1>4, CheckIs DEF ApplyReadsVerdict
  <2>2. mode = "implement"
    BY <2>1 DEF Lineage, Files
  <2>3. r.ready /\ r.known => early
    BY <2>1 DEF ApplyInv
  <2> QED BY <2>1, <2>2, <2>3 DEF ApplyInv, Others
<1>5. CASE ApplyReadsCertificate(p) /\ ~Refused
  <2>1. /\ UNCHANGED Others /\ r.pc = "certificate"
        /\ art.certificate # None /\ art.certificate.unresolved = {}
        /\ s.pc = "taint" /\ Same
    BY <1>5, CheckIs DEF ApplyReadsCertificate
  <2>2. art.verdict.unresolved = {}
    BY <2>1 DEF Lineage, Files, Resolves
  <2> QED BY <2>1, <2>2 DEF ApplyInv, Others
<1>6. CASE ApplyReadsTaint(p) /\ ~Refused
  <2>1. /\ UNCHANGED Others /\ r.pc = "taint" /\ art.taint \in {None, {}}
        /\ s.pc = "pick" /\ Same
    <3> DEFINE passes == art.taint \in {None, {}}
    <3>1. Check(p, "taint", passes, "pick") /\ passes \in BOOLEAN
      BY <1>6 DEF ApplyReadsTaint
    <3> HIDE DEF passes
    <3>2. /\ UNCHANGED Others /\ r.pc = "taint" /\ passes /\ s.pc = "pick" /\ Same
      BY <1>6, <3>1, CheckIs, ZenonT(180)
    <3> QED BY <3>2 DEF passes
  <2>2. r.ready => art.taint # None /\ Clean(art.taint)
    BY DEF ApplyInv, Lineage, Files
  <2>3. r.ready => eng.seeds = {}
    BY <2>1, <2>2 DEF Clean
  <2> QED BY <2>1, <2>3 DEF ApplyInv, Others
<1>7. CASE CherryPick(p) /\ ~Refused
  <2>1. UNCHANGED Others /\ r.pc = "pick" /\ r.ready /\ s.pc = "applied" /\ Same
    <3>1. Check(p, "pick", r.ready, "applied") /\ r.ready \in BOOLEAN
      BY <1>7 DEF CherryPick, TypeOK, ReaderRecord
    <3> QED BY <1>7, <3>1, CheckIs, ZenonT(60)
  <2> QED BY <2>1 DEF ApplyInv, Others
<1> QED BY <1>1, <1>2, <1>3, <1>4, <1>5, <1>6, <1>7 DEF ApplySteps

\* A regrade command is not an apply command.
LEMMA RegradeIsNotApply ==
  ASSUME TypeOK, NEW p \in Reader, RegradeSteps(p),
         reader[p].pc \notin ApplyPC => reader[p].ready = FALSE
  PROVE  ApplyInv(p)' /\ reader'[p].ready = FALSE
<1>1. reader[p] \in ReaderRecord /\ DOMAIN reader = Reader
  BY DEF TypeOK
<1>2. reader[p].pc \notin ApplyPC
  BY DEF RegradeSteps, RegradeLoads, PreserveCertificate, PreserveVerdict, ViewVerdict,
     ViewCertificate, ApplyPC
<1>3. CASE reader' = [reader EXCEPT ![p] = [Idle EXCEPT !.pc = "refused"]]
  <2>1. reader'[p] = [Idle EXCEPT !.pc = "refused"]
    BY <1>1, <1>3
  <2>2. reader'[p].pc = "refused" /\ reader'[p].ready = FALSE
    BY <2>1 DEF Idle
  <2> QED BY <2>2, NotApply DEF ApplyPC
<1>4. CASE /\ reader'[p].ready = reader[p].ready
           /\ reader'[p].pc \in {"preserve certificate", "preserve verdict", "view verdict",
                                  "view certificate", "regraded"}
  BY <1>2, <1>4, NotApply DEF ApplyPC
<1>5. CASE RegradeLoads(p)
  BY <1>1, <1>4, <1>5 DEF RegradeLoads, ReaderRecord
<1>6. CASE PreserveCertificate(p)
  BY <1>1, <1>4, <1>6 DEF PreserveCertificate, ReaderRecord
<1>7. CASE PreserveVerdict(p)
  BY <1>1, <1>4, <1>7 DEF PreserveVerdict, ReaderRecord
<1>8. CASE ViewVerdict(p)
  <2>1. CASE art.verdict = None
    BY <1>3, <1>8, <2>1 DEF ViewVerdict
  <2>2. CASE art.verdict # None
    <3>1. reader' = [reader EXCEPT ![p] = [@ EXCEPT !.pc = "view certificate",
                                                   !.child.verdict = FinalityOf(art.verdict)]]
      BY <1>8, <2>2 DEF ViewVerdict
    <3> QED BY <1>1, <1>4, <3>1 DEF ReaderRecord
  <2> QED BY <2>1, <2>2
<1>9. CASE ViewCertificate(p)
  <2>1. CASE art.certificate = None
    BY <1>3, <1>9, <2>1 DEF ViewCertificate
  <2>2. CASE art.certificate # None
    <3>1. reader' = [reader EXCEPT ![p] = [@ EXCEPT
            !.pc = "regraded", !.child.certificate = FinalityOf(art.certificate)]]
      BY <1>9, <2>2 DEF ViewCertificate
    <3> QED BY <1>1, <1>4, <3>1 DEF ReaderRecord
  <2> QED BY <2>1, <2>2
<1> QED BY <1>5, <1>6, <1>7, <1>8, <1>9 DEF RegradeSteps

\* What every reader knows; one that is no apply command has no commit at hand.
Knowing == \A p \in Reader : /\ ApplyInv(p)
                             /\ reader[p].pc \notin ApplyPC => reader[p].ready = FALSE

\* A reader has a memory of its own.
LEMMA ReaderAlone ==
  ASSUME TypeOK, NEW p \in Reader, ApplySteps(p) \/ RegradeSteps(p)
  PROVE  \A q \in Reader : q # p => reader'[q] = reader[q]
<1>1. DOMAIN reader = Reader
  BY DEF TypeOK
<1> QED
  BY <1>1 DEF ApplySteps, RegradeSteps, ApplyLoads, ApplyVerifies, ApplyReadsVerdict,
     ApplyReadsCertificate, ApplyReadsTaint, CherryPick, Check, RegradeLoads,
     PreserveCertificate, PreserveVerdict, ViewVerdict, ViewCertificate

\* An apply command goes on to its next check or refuses.
LEMMA ApplyStays ==
  ASSUME TypeOK, NEW p \in Reader, ApplySteps(p)
  PROVE  \/ reader'[p].pc \in ApplyPC
         \/ reader'[p].pc = "refused" /\ reader'[p].ready = FALSE
<1>1. reader[p] \in ReaderRecord /\ DOMAIN reader = Reader
  BY DEF TypeOK
<1>2. CASE ApplyLoads(p)
  BY <1>1, <1>2 DEF ApplyLoads, ReaderRecord, ApplyPC
<1>3. ASSUME NEW at, NEW passes, NEW next \in ApplyPC, Check(p, at, passes, next)
      PROVE  \/ reader'[p].pc \in ApplyPC
             \/ reader'[p].pc = "refused" /\ reader'[p].ready = FALSE
  <2>1. CASE reader' = [reader EXCEPT ![p] = [@ EXCEPT !.pc = next]]
    BY <1>1, <1>3, <2>1 DEF ReaderRecord
  <2>2. CASE reader' = [reader EXCEPT ![p] = [Idle EXCEPT !.pc = "refused"]]
    BY <1>1, <2>2 DEF Idle
  <2> QED BY <1>3, <2>1, <2>2 DEF Check
<1>4. \E at, passes : \E next \in ApplyPC : ApplyLoads(p) \/ Check(p, at, passes, next)
  <2>1. /\ "verdict" \in ApplyPC /\ "certificate" \in ApplyPC /\ "taint" \in ApplyPC
        /\ "pick" \in ApplyPC /\ "applied" \in ApplyPC
    BY DEF ApplyPC
  <2> QED
    BY <2>1, ZenonT(60) DEF ApplySteps, ApplyVerifies, ApplyReadsVerdict, ApplyReadsCertificate,
       ApplyReadsTaint, CherryPick
<1> QED BY <1>2, <1>3, <1>4

LEMMA NextKnowing ==
  ASSUME TypeOK, Fence, Lineage, QuietInv, Sealed, Commits, Fresh, Knowing, [Next]_vars
  PROVE  Knowing'
<1>1. Steady
  BY NextSteady
<1> SUFFICES ASSUME NEW p \in Reader
             PROVE  ApplyInv(p)' /\ (reader'[p].pc \notin ApplyPC => reader'[p].ready = FALSE)
  BY DEF Knowing
<1>2. ApplyInv(p) /\ (reader[p].pc \notin ApplyPC => reader[p].ready = FALSE)
  BY DEF Knowing
<1>3. CASE reader'[p] = reader[p]
  BY <1>1, <1>2, <1>3, ApplyFrame
<1>4. CASE ApplySteps(p)
  BY <1>2, <1>4, ApplyStepsRead, ApplyStays
<1>5. CASE RegradeSteps(p)
  BY <1>2, <1>5, RegradeIsNotApply
<1>6. CASE EngineSteps
  BY <1>3, <1>6, EngineIsLive
<1>7. CASE \E o \in Outcome : OutcomeSteps(o)
  BY <1>3, <1>7 DEF OutcomeSteps, Load, ReadLineage, Begin, OutcomeWritesFile, Commit, Learn,
     OutcomeHashes, OutcomeSeals, OutcomeTimesOut
<1>8. CASE \E q \in Reader : ApplySteps(q) \/ RegradeSteps(q)
  BY <1>3, <1>4, <1>5, <1>8, ReaderAlone
<1>9. CASE Crash \/ UNCHANGED vars
  BY <1>3, <1>9 DEF Crash, vars
<1> QED BY <1>6, <1>7, <1>8, <1>9 DEF Next

LEMMA InitKnowing == ASSUME Init PROVE Knowing
<1> SUFFICES ASSUME NEW p \in Reader PROVE ApplyInv(p) /\ reader[p].ready = FALSE
  BY DEF Knowing
<1>1. reader[p].pc = "idle" /\ reader[p].ready = FALSE
  BY DEF Init, Idle
<1> QED BY <1>1 DEF ApplyInv

\* apply (git_worker.py:1843-1904) cherry-picks only the commit of a completed
\* implementation whose lineage the engine found clean and resolved, and which no outcome
\* on disk when apply started had invalidated.
THEOREM ApplyIsSound == Spec => []ApplySound
<1>1. Init => Knowing
  BY InitKnowing
<1>2. /\ TypeOK /\ Fence /\ Lineage /\ QuietInv /\ Sealed /\ Commits /\ Fresh /\ Knowing
      /\ [Next]_vars
      => Knowing'
  BY NextKnowing
<1>3. Knowing => ApplySound
  <2> SUFFICES ASSUME Knowing, NEW p \in Reader, reader[p].pc = "applied"
               PROVE  /\ mode = "implement" /\ eng.seeds = {} /\ art.verdict.unresolved = {}
                      /\ reader[p].known => early
    BY DEF ApplySound
  <2>1. ApplyInv(p)
    BY DEF Knowing
  <2>2. reader[p].ready
    BY <2>1 DEF ApplyInv
  <2> QED BY <2>1, <2>2 DEF ApplyInv
<1> QED BY <1>1, <1>2, <1>3, SealedHolds, CommitsHold, FreshHolds, PTL DEF Spec

-----------------------------------------------------------------------------
(* What regrade relies on.                                                 *)

\* An outcome that invalidates lineage is on disk, and its transaction is over.
Standing == Recorded /\ InvalidatedOnDisk /\ art.genealogy # None

\* Where a regrade command is.
RegradePC == {"preserve certificate", "preserve verdict", "view verdict", "view certificate",
              "regraded"}

\* What a regrade command has copied is this certificate and this verdict.
Copied(r, certificate, verdict) ==
  /\ r.pc \in {"preserve verdict", "view verdict", "view certificate", "regraded"} =>
       r.child.keptCertificate = certificate
  /\ r.pc \in {"view verdict", "view certificate", "regraded"} => r.child.keptVerdict = verdict
  /\ r.pc \in {"view certificate", "regraded"} => r.child.verdict = verdict
  /\ r.pc = "regraded" => r.child.certificate = certificate

\* What a regrade command knows: its copies are those of the files as they stand, unless
\* the engine was at work or an outcome came meanwhile.
RegradeInv(p) ==
  LET r == reader[p]
  IN  r.pc \in RegradePC =>
        /\ ~r.live => ~EngineLive
        /\ r.known => Standing
        /\ r.known /\ ~early => ~r.live
        /\ ~r.live /\ (art.outcome = None \/ r.known) =>
             Copied(r, FinalityOf(art.certificate), FinalityOf(art.verdict))

\* A complete invalidation stays complete.
LEMMA StandingStays ==
  ASSUME TypeOK, Fence, Lineage, QuietInv, Sealed, Standing, [Next]_vars
  PROVE  Standing'
<1>1. Recorded'
  BY RecordedStays DEF Standing, QuietInv
<1>2. InvalidatedOnDisk'
  BY InvalidationStays DEF Standing, Sealed
<1>3. art'.genealogy # None
  BY NextLineage, SMTT(30) DEF Standing, Onward
<1> QED BY <1>1, <1>2, <1>3 DEF Standing

\* An engine that is over stays over.
LEMMA EngineStaysOver ==
  ASSUME TypeOK, [Next]_vars, ~EngineLive
  PROVE  eng' = eng
BY EngineIsLive, ReadersOnlyRead DEF Next, Crash, vars, Others, OutcomeSteps, Load, ReadLineage,
   Begin, OutcomeWritesFile, Commit, Learn, OutcomeHashes, OutcomeSeals, OutcomeTimesOut

\* No file changes without an engine at work, before the first outcome is on disk and
\* after its transaction.
LEMMA FilesSettled ==
  ASSUME TypeOK, Fence, Lineage, [Next]_vars, ~EngineLive, art'.outcome = None \/ Recorded
  PROVE  FilesKept
<1>1. CASE art' = art
  BY <1>1 DEF FilesKept
<1>2. CASE \E o \in Outcome : OutcomeSteps(o)
  <2>1. PICK o \in Outcome : OutcomeSteps(o)
    BY <1>2
  <2>2. CASE Recorded \/ ~OutcomeWritesFile(o) \/ out[o].pc # "write"
    BY <2>1, <2>2, OutcomeKeepsFiles DEF Recorded
  <2>3. CASE art'.outcome = None /\ OutcomeWritesFile(o) /\ out[o].pc = "write"
    <3>1. art.outcome = None
      BY <2>3, NextFence DEF OutcomeKept
    <3>2. Armed(o) /\ o # None
      BY <2>3, <3>1, NamesAssumption DEF Fence, FenceOf
    <3>3. <<"outcome", o>> \in AnyWrite /\ art' = Put(art, <<"outcome", o>>)
      BY <2>3, <3>2 DEF AnyWrite, OutcomeWritesFile, Armed
    <3>4. art'.outcome = o
      BY <3>3 DEF Put, TypeOK, FileContent
    <3> QED BY <2>3, <3>2, <3>4
  <2> QED BY <2>2, <2>3
<1>3. CASE \E p \in Reader : ApplySteps(p) \/ RegradeSteps(p)
  BY <1>1, <1>3, ReadersOnlyRead DEF Others
<1>4. CASE Crash \/ UNCHANGED vars
  BY <1>1, <1>4 DEF Crash, vars
<1> QED BY <1>2, <1>3, <1>4, EngineIsLive DEF Next

\* What a regrade command knows stays true while others act.
LEMMA RegradeFrame ==
  ASSUME TypeOK, Fence, Lineage, QuietInv, Sealed, [Next]_vars,
         NEW p \in Reader, RegradeInv(p), reader'[p] = reader[p]
  PROVE  RegradeInv(p)'
<1> DEFINE r == reader[p]
<1> SUFFICES ASSUME r.pc \in RegradePC
             PROVE  /\ ~r.live => ~EngineLive'
                    /\ r.known => Standing'
                    /\ r.known /\ ~early' => ~r.live
                    /\ ~r.live /\ (art'.outcome = None \/ r.known) =>
                         Copied(r, FinalityOf(art.certificate)', FinalityOf(art.verdict)')
  BY DEF RegradeInv
<1>1. /\ ~r.live => ~EngineLive
      /\ r.known => Standing
      /\ r.known /\ ~early => ~r.live
      /\ ~r.live /\ (art.outcome = None \/ r.known) =>
           Copied(r, FinalityOf(art.certificate), FinalityOf(art.verdict))
  BY DEF RegradeInv
<1>2. ~r.live => ~EngineLive'
  BY <1>1, EngineStaysOver DEF EngineLive
<1>3. r.known => Standing'
  BY <1>1, StandingStays
<1>4. r.known /\ ~early' => ~r.live
  BY <1>1, NextSteady DEF Steady
<1>5. ASSUME ~r.live, art'.outcome = None \/ r.known
      PROVE  Copied(r, FinalityOf(art.certificate)', FinalityOf(art.verdict)')
  <2>1. FilesKept
    BY <1>1, <1>5, FilesSettled DEF Standing
  <2>2. /\ FinalityOf(art.certificate)' = FinalityOf(art.certificate)
        /\ FinalityOf(art.verdict)' = FinalityOf(art.verdict)
        /\ art'.outcome = art.outcome
    BY <2>1 DEF FilesKept, FinalityOf
  <2> QED BY <1>1, <1>5, <2>2
<1> QED BY <1>2, <1>3, <1>4, <1>5

\* A reader that has copied this much more of files that stay as they are.
LEMMA RegradeCopies ==
  ASSUME NEW p \in Reader, RegradeInv(p), reader[p].pc \in RegradePC, UNCHANGED Others,
         reader'[p].known = reader[p].known, reader'[p].live = reader[p].live,
         Copied(reader[p], FinalityOf(art.certificate), FinalityOf(art.verdict)) =>
           Copied(reader'[p], FinalityOf(art.certificate), FinalityOf(art.verdict))
  PROVE  RegradeInv(p)'
<1>1. /\ EngineLive' = EngineLive /\ FinalityOf(art.certificate)' = FinalityOf(art.certificate)
      /\ FinalityOf(art.verdict)' = FinalityOf(art.verdict) /\ early' = early
      /\ art'.outcome = art.outcome
  BY DEF Others, EngineLive, FinalityOf
<1>2. Standing => Standing'
  BY DEF Standing, Recorded, Told, Invalidates, VerdictTold, CertificateTold, TaintTold,
     GenealogyTold, AbortsFor, RevokesFor, TaintOf, InvalidatedOnDisk, Others
<1> QED BY <1>1, <1>2 DEF RegradeInv

\* A reader that is no regrade command.
LEMMA NotRegrade ==
  ASSUME NEW p \in Reader, reader'[p].pc \notin RegradePC
  PROVE  RegradeInv(p)'
BY DEF RegradeInv

\* A seal that verifies stands for a complete invalidation.
LEMMA RegradeLoadsRead ==
  ASSUME TypeOK, QuietInv, Sealed, NEW p \in Reader, RegradeLoads(p)
  PROVE  RegradeInv(p)'
<1> DEFINE known == /\ InvalidatedOnDisk /\ art.genealogy # None
                    /\ manifest.seal = art
           r == [reader[p] EXCEPT !.pc = "preserve certificate", !.live = EngineLive,
                                  !.known = known]
<1>1. reader[p] \in ReaderRecord /\ reader' = [reader EXCEPT ![p] = r]
  BY DEF TypeOK, RegradeLoads
<1>2. r.pc = "preserve certificate" /\ r.known = known /\ r.live = EngineLive
  BY <1>1 DEF ReaderRecord
<1>3. reader'[p] = r
  BY <1>1 DEF TypeOK
<1> HIDE DEF r
<1>4. known => Standing
  BY SealedTells DEF Standing
<1>5. known /\ ~early => ~EngineLive
  BY DEF InvalidatedOnDisk, QuietInv, Alone
<1> HIDE DEF known
<1>6. EngineLive' = EngineLive /\ early' = early
  BY DEF RegradeLoads, Others, EngineLive
<1>7. Standing => Standing'
  BY DEF Standing, Recorded, Told, Invalidates, VerdictTold, CertificateTold, TaintTold,
     GenealogyTold, AbortsFor, RevokesFor, TaintOf, InvalidatedOnDisk, RegradeLoads, Others
<1>8. Copied(r, FinalityOf(art.certificate)', FinalityOf(art.verdict)')
  BY <1>2 DEF Copied
<1> QED BY <1>2, <1>3, <1>4, <1>5, <1>6, <1>7, <1>8 DEF RegradeInv

\* Each copy is one of the files as they stand.
LEMMA RegradeStepsRead ==
  ASSUME TypeOK, QuietInv, Sealed, NEW p \in Reader, RegradeInv(p), RegradeSteps(p)
  PROVE  RegradeInv(p)'
<1>1. reader[p] \in ReaderRecord /\ DOMAIN reader = Reader
  BY DEF TypeOK
<1>2. CASE RegradeLoads(p)
  BY <1>2, RegradeLoadsRead
<1>3. CASE PreserveCertificate(p)
  <2> DEFINE r == [reader[p] EXCEPT !.pc = "preserve verdict",
                                    !.child.keptCertificate = FinalityOf(art.certificate)]
  <2>1. reader'[p] = r /\ UNCHANGED Others /\ reader[p].pc = "preserve certificate"
    BY <1>1, <1>3 DEF PreserveCertificate
  <2>2. /\ r.pc = "preserve verdict" /\ r.known = reader[p].known /\ r.live = reader[p].live
        /\ r.child.keptCertificate = FinalityOf(art.certificate)
    BY <1>1 DEF ReaderRecord, Child
  <2> HIDE DEF r
  <2>3. Copied(r, FinalityOf(art.certificate), FinalityOf(art.verdict))
    BY <2>2 DEF Copied
  <2> QED BY <2>1, <2>2, <2>3, RegradeCopies DEF RegradePC
<1>4. CASE PreserveVerdict(p)
  <2> DEFINE r == [reader[p] EXCEPT !.pc = "view verdict",
                                    !.child.keptVerdict = FinalityOf(art.verdict)]
  <2>1. reader'[p] = r /\ UNCHANGED Others /\ reader[p].pc = "preserve verdict"
    BY <1>1, <1>4 DEF PreserveVerdict
  <2>2. /\ r.pc = "view verdict" /\ r.known = reader[p].known /\ r.live = reader[p].live
        /\ r.child.keptVerdict = FinalityOf(art.verdict)
        /\ r.child.keptCertificate = reader[p].child.keptCertificate
    BY <1>1 DEF ReaderRecord, Child
  <2> HIDE DEF r
  <2>3. Copied(reader[p], FinalityOf(art.certificate), FinalityOf(art.verdict)) =>
          Copied(r, FinalityOf(art.certificate), FinalityOf(art.verdict))
    BY <2>1, <2>2 DEF Copied
  <2> QED BY <2>1, <2>2, <2>3, RegradeCopies DEF RegradePC
<1>5. CASE ViewVerdict(p) /\ art.verdict # None
  <2> DEFINE r == [reader[p] EXCEPT !.pc = "view certificate",
                                    !.child.verdict = FinalityOf(art.verdict)]
  <2>1. reader'[p] = r /\ UNCHANGED Others /\ reader[p].pc = "view verdict"
    BY <1>1, <1>5 DEF ViewVerdict
  <2>2. /\ r.pc = "view certificate" /\ r.known = reader[p].known /\ r.live = reader[p].live
        /\ r.child.verdict = FinalityOf(art.verdict)
        /\ r.child.keptVerdict = reader[p].child.keptVerdict
        /\ r.child.keptCertificate = reader[p].child.keptCertificate
    BY <1>1 DEF ReaderRecord, Child
  <2> HIDE DEF r
  <2>3. Copied(reader[p], FinalityOf(art.certificate), FinalityOf(art.verdict)) =>
          Copied(r, FinalityOf(art.certificate), FinalityOf(art.verdict))
    BY <2>1, <2>2 DEF Copied
  <2> QED BY <2>1, <2>2, <2>3, RegradeCopies DEF RegradePC
<1>6. CASE ViewCertificate(p) /\ art.certificate # None
  <2> DEFINE r == [reader[p] EXCEPT !.pc = "regraded",
                                    !.child.certificate = FinalityOf(art.certificate)]
  <2>1. reader'[p] = r /\ UNCHANGED Others /\ reader[p].pc = "view certificate"
    BY <1>1, <1>6 DEF ViewCertificate
  <2>2. /\ r.pc = "regraded" /\ r.known = reader[p].known /\ r.live = reader[p].live
        /\ r.child.certificate = FinalityOf(art.certificate)
        /\ r.child.verdict = reader[p].child.verdict
        /\ r.child.keptVerdict = reader[p].child.keptVerdict
        /\ r.child.keptCertificate = reader[p].child.keptCertificate
    BY <1>1 DEF ReaderRecord, Child
  <2> HIDE DEF r
  <2>3. Copied(reader[p], FinalityOf(art.certificate), FinalityOf(art.verdict)) =>
          Copied(r, FinalityOf(art.certificate), FinalityOf(art.verdict))
    BY <2>1, <2>2 DEF Copied
  <2> QED BY <2>1, <2>2, <2>3, RegradeCopies DEF RegradePC
<1>7. CASE \/ ViewVerdict(p) /\ art.verdict = None
           \/ ViewCertificate(p) /\ art.certificate = None
  <2>1. reader'[p] = [Idle EXCEPT !.pc = "refused"]
    BY <1>1, <1>7 DEF ViewVerdict, ViewCertificate
  <2>2. reader'[p].pc = "refused"
    BY <2>1 DEF Idle
  <2> QED BY <2>2, NotRegrade DEF RegradePC
<1> QED BY <1>2, <1>3, <1>4, <1>5, <1>6, <1>7 DEF RegradeSteps

LEMMA NextRegrade ==
  ASSUME TypeOK, Fence, Lineage, QuietInv, Sealed, \A p \in Reader : RegradeInv(p), [Next]_vars
  PROVE  \A p \in Reader : RegradeInv(p)'
<1> SUFFICES ASSUME NEW p \in Reader PROVE RegradeInv(p)'
  OBVIOUS
<1>1. CASE reader'[p] = reader[p]
  BY <1>1, RegradeFrame
<1>2. CASE ApplySteps(p)
  BY <1>2, ApplyStays, NotRegrade DEF RegradePC, ApplyPC
<1>3. CASE RegradeSteps(p)
  BY <1>3, RegradeStepsRead
<1>4. CASE EngineSteps
  BY <1>1, <1>4, EngineIsLive, SMTT(30)
<1>5. CASE \E o \in Outcome : OutcomeSteps(o)
  BY <1>1, <1>5 DEF OutcomeSteps, Load, ReadLineage, Begin, OutcomeWritesFile, Commit, Learn,
     OutcomeHashes, OutcomeSeals, OutcomeTimesOut
<1>6. CASE \E q \in Reader : ApplySteps(q) \/ RegradeSteps(q)
  BY <1>1, <1>2, <1>3, <1>6, ReaderAlone
<1>7. CASE Crash \/ UNCHANGED vars
  BY <1>1, <1>7 DEF Crash, vars
<1> QED BY <1>4, <1>5, <1>6, <1>7 DEF Next

LEMMA InitRegrade == ASSUME Init PROVE \A p \in Reader : RegradeInv(p)
<1>1. \A p \in Reader : reader[p].pc = "idle"
  BY DEF Init, Idle
<1> QED BY <1>1 DEF RegradeInv, RegradePC

\* A regraded child (reason_assembly.py:505-587) is no way around an invalidation that was
\* sealed when regrade started, and contradicts what it preserved only if the engine was at
\* work or an outcome came between two reads.
THEOREM RegradeIsHonest == Spec => []RegradeHonest
<1> DEFINE I == \A p \in Reader : RegradeInv(p)
<1>1. Init => I
  BY InitRegrade
<1>2. TypeOK /\ Fence /\ Lineage /\ QuietInv /\ Sealed /\ I /\ [Next]_vars => I'
  BY NextRegrade
<1>3. TypeOK /\ I => RegradeHonest
  <2> SUFFICES ASSUME TypeOK, I, NEW p \in Reader, reader[p].pc = "regraded"
               PROVE  LET child == reader[p].child
                      IN  /\ reader[p].known =>
                               early \/ \A f \in DOMAIN child : child[f] = "abort"
                          /\ \/ child.keptVerdict # child.verdict
                             \/ child.keptCertificate # child.certificate
                             => \/ reader[p].live
                                \/ art.outcome # None /\ ~reader[p].known
    BY DEF RegradeHonest
  <2> DEFINE r == reader[p]
             child == r.child
             c == FinalityOf(art.certificate)
             v == FinalityOf(art.verdict)
  <2>1. child \in Child
    BY DEF TypeOK, ReaderRecord
  <2>2. /\ r.known => Standing
        /\ r.known /\ ~early => ~r.live
        /\ ~r.live /\ (art.outcome = None \/ r.known) => Copied(r, c, v)
    BY DEF RegradeInv, RegradePC
  <2>3. Copied(r, c, v) => /\ child.keptCertificate = c /\ child.certificate = c
                           /\ child.keptVerdict = v /\ child.verdict = v
    BY DEF Copied
  <2>4. Standing /\ ~early => c = "abort" /\ v = "abort"
    BY DEF Standing, Recorded, InvalidatedOnDisk, Told, Invalidates, VerdictTold,
       CertificateTold, AbortsFor, RevokesFor, FinalityOf
  <2> HIDE DEF c, v
  <2>5. r.known => early \/ \A f \in DOMAIN child : child[f] = "abort"
    <3>1. DOMAIN child = {"keptCertificate", "keptVerdict", "verdict", "certificate"}
      BY <2>1 DEF Child
    <3> QED BY <2>2, <2>3, <2>4, <3>1
  <2> QED BY <2>2, <2>3, <2>5
<1> QED BY <1>1, <1>2, <1>3, SealedHolds, PTL DEF Spec
=============================================================================
