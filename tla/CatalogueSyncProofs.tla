------------------------ MODULE CatalogueSyncProofs ------------------------
(***************************************************************************)
(* What synchronisations do to the aliases, for any number of them, any    *)
(* models and any changes of the surroundings.  The argument: an answer    *)
(* that is kept was the gateway's list at some time since its process      *)
(* began; and what a process has read under the lock is what the file      *)
(* says until it is edited by hand, since nobody else may prune.           *)
(***************************************************************************)
EXTENDS CatalogueSync, TLAPS

Live == {"fetch", "fetched", "prune", "locked", "parsed", "replaced", "report"}

\* What a process with record r has been told was so at some time since it
\* began, which s remembers.
Told(r, s) ==
  /\ r.pc = "start" => r.raw = Down /\ r.meta = Down /\ r.chosen = {}
  /\ r.pc \in Live =>
       /\ Model \ listed \subseteq s.absent
       /\ listed \subseteq s.listed
       /\ described \subseteq s.described
       /\ r.raw # Down => Model \ r.raw \subseteq s.absent /\ r.raw \subseteq s.listed
       /\ r.meta # Down => r.meta \subseteq s.described
       /\ r.chosen \subseteq s.listed \cap s.described

\* What it knows of the configuration.
Knows(r, s) ==
  /\ r.pc \in {"prune", "locked", "parsed", "replaced"} => r.raw # Down
  /\ r.pc \in {"prune", "locked", "parsed", "replaced", "report"} =>
       r.warned \/ r.raw = r.chosen
  /\ r.pc = "parsed" /\ ~s.edited => r.read = config
  /\ r.pruned => r.pc \in {"report", "done"}
  /\ r.pc = "report" /\ (r.raw = Down \/ ~r.pruned) => r.warned
  /\ r.pc \in {"report", "done"} /\ r.pruned /\ ~s.edited =>
       \A a \in Alias : config[a] \subseteq r.raw
  /\ r.pc = "done" /\ r.status = "ok" => r.raw = r.chosen /\ r.pruned

LocalInv == \A p \in Sync : Told(sync[p], since[p]) /\ Knows(sync[p], since[p])

\* If the file was edited after its reader read it, it was edited after all who
\* are through with it.
EditedInv ==
  \A p, q \in Sync :
    sync[p].pc = "parsed" /\ since[p].edited
      /\ sync[q].pc \in {"report", "done"} /\ sync[q].pruned
        => since[q].edited

IInv == TypeOK /\ LocalInv /\ EditedInv

-----------------------------------------------------------------------------
(* A step of one process.                                                  *)

\* A step of p gives p a new record and may take or free the lock.
LEMMA StepTyped ==
  ASSUME TypeOK, NEW p \in Sync, NEW r \in SyncRecord, NEW s \in SinceRecord,
         Goto(p, r), since' = [since EXCEPT ![p] = s],
         listed' = listed, described' = described, changes' = changes, edits' = edits,
         config' \in [Alias -> SUBSET Model],
         lock' \in {lock, p, Nobody},
         lock' = p <=> r.pc \in Holding,
         lock' # lock => lock \in {p, Nobody}
  PROVE  TypeOK'
<1>1. sync' \in [Sync -> SyncRecord] /\ since' \in [Sync -> SinceRecord]
  BY DEF TypeOK, Goto
<1>2. lock' \in Sync \cup {Nobody}
  BY DEF TypeOK
<1>3. \A q \in Sync : lock' = q <=> sync'[q].pc \in Holding
  BY SyncAssumption DEF TypeOK, Goto
<1> QED BY <1>1, <1>2, <1>3 DEF TypeOK

\* If p leaves the configuration alone, only its own record is to be looked at.
LEMMA StepInv ==
  ASSUME IInv, NEW p \in Sync, NEW r \in SyncRecord, NEW s \in SinceRecord,
         Goto(p, r), since' = [since EXCEPT ![p] = s],
         listed' = listed, described' = described, config' = config,
         Told(r, s), Knows(r, s),
         r.pc = "parsed" => ~s.edited,
         r.pc \in {"report", "done"} /\ r.pruned /\ ~s.edited =>
           \A q \in Sync : sync[q].pc = "parsed" /\ since[q].edited => q = p
  PROVE  LocalInv' /\ EditedInv'
<1>1. sync'[p] = r /\ since'[p] = s
  BY DEF IInv, TypeOK, Goto
<1>2. \A q \in Sync : q # p => sync'[q] = sync[q] /\ since'[q] = since[q]
  BY DEF IInv, TypeOK, Goto
<1>3. LocalInv'
  <2> SUFFICES ASSUME NEW q \in Sync
               PROVE  (Told(sync[q], since[q]) /\ Knows(sync[q], since[q]))'
    BY DEF LocalInv
  <2>1. CASE q = p
    BY <1>1, <2>1 DEF Told, Knows
  <2>2. CASE q # p
    BY <1>2, <2>2 DEF IInv, LocalInv, Told, Knows
  <2> QED BY <2>1, <2>2
<1>4. EditedInv'
  BY <1>1, <1>2 DEF IInv, EditedInv
<1> QED BY <1>3, <1>4

LEMMA RecordTyped ==
  ASSUME IInv, NEW p \in Sync
  PROVE  /\ sync[p] \in SyncRecord /\ since[p] \in SinceRecord
         /\ lock = p <=> sync[p].pc \in Holding
         /\ since' = since => since' = [since EXCEPT ![p] = since[p]]
         /\ Told(sync[p], since[p]) /\ Knows(sync[p], since[p])
BY DEF IInv, TypeOK, LocalInv

LEMMA NothingTyped == Nothing \in [Alias -> SUBSET Model]
BY DEF Nothing

LEMMA FreshTyped == Fresh \in SyncRecord /\ Never \in SinceRecord
BY NothingTyped DEF Fresh, SyncRecord, Never, SinceRecord

LEMMA InspectInv ==
  ASSUME IInv, NEW p \in Sync, Inspect(p)
  PROVE  IInv'
<1>1. PICK failed \in BOOLEAN :
        Goto(p, [sync[p] EXCEPT !.pc = "fetch", !.warned = failed])
  BY DEF Inspect
<1> DEFINE r == [sync[p] EXCEPT !.pc = "fetch", !.warned = failed]
<1>2. /\ r \in SyncRecord /\ r.pc = "fetch"
      /\ r.raw = Down /\ r.meta = Down /\ r.chosen = {} /\ ~r.pruned
  BY RecordTyped DEF SyncRecord, Inspect, Told, Knows
<1>3. Now \in SinceRecord
  BY DEF IInv, TypeOK, Now, SinceRecord
<1>4. Told(r, Now) /\ Knows(r, Now)
  BY <1>2 DEF Told, Knows, Now
<1> HIDE DEF r
<1>5. TypeOK'
  BY <1>1, <1>2, <1>3, RecordTyped, StepTyped DEF Inspect, Holding, IInv, TypeOK, r
<1>6. LocalInv' /\ EditedInv'
  BY <1>1, <1>2, <1>3, <1>4, StepInv DEF Inspect, r
<1> QED BY <1>5, <1>6 DEF IInv

LEMMA FetchInv ==
  ASSUME IInv, NEW p \in Sync, Fetch(p)
  PROVE  IInv'
<1> DEFINE N(pc, try, raw, meta) ==
             [sync[p] EXCEPT !.pc = pc, !.try = try, !.raw = raw, !.meta = meta]
<1>1. PICK pc \in {"fetch", "fetched"}, try \in {1, 2},
           raw \in {listed, sync[p].raw}, meta \in {described, sync[p].meta} :
        Goto(p, N(pc, try, raw, meta))
  BY DEF Fetch
<1> DEFINE r == N(pc, try, raw, meta)
<1>2. /\ raw \in (SUBSET Model) \cup {Down}
      /\ meta \in (SUBSET Model) \cup {Down}
      /\ try \in 1..2
  BY RecordTyped DEF SyncRecord, IInv, TypeOK
<1>3. /\ r \in SyncRecord /\ r.pc \in {"fetch", "fetched"}
      /\ r.raw = raw /\ r.meta = meta
      /\ r.chosen = sync[p].chosen /\ r.pruned = sync[p].pruned
  <2>1. sync[p] \in SyncRecord
    BY RecordTyped
  <2>2. /\ r.pc = pc /\ r.try = try /\ r.raw = raw /\ r.meta = meta
        /\ r.chosen = sync[p].chosen /\ r.pruned = sync[p].pruned
    BY <2>1 DEF SyncRecord
  <2>3. r \in SyncRecord
    BY <1>2, <2>1 DEF SyncRecord
  <2> QED BY <2>2, <2>3
<1>4. Told(r, since[p]) /\ Knows(r, since[p])
  BY <1>3, RecordTyped DEF Fetch, Told, Knows, Live
<1>5. Goto(p, r)
  BY <1>1
<1> HIDE DEF r
<1>6. TypeOK'
  BY <1>3, <1>5, RecordTyped, StepTyped DEF Fetch, Holding, IInv, TypeOK
<1>7. LocalInv' /\ EditedInv'
  BY <1>3, <1>4, <1>5, RecordTyped, StepInv DEF Fetch
<1> QED BY <1>6, <1>7 DEF IInv

LEMMA UnavailableInv ==
  ASSUME IInv, NEW p \in Sync, Unavailable(p)
  PROVE  IInv'
<1> DEFINE r == [sync[p] EXCEPT !.pc = "report", !.warned = TRUE]
<1>1. Goto(p, r)
  BY DEF Unavailable
<1>2. /\ r \in SyncRecord /\ r.pc = "report" /\ r.warned
      /\ r.raw = sync[p].raw /\ r.meta = sync[p].meta
      /\ r.chosen = sync[p].chosen /\ r.pruned = sync[p].pruned
  BY RecordTyped DEF SyncRecord
<1>3. Told(r, since[p]) /\ Knows(r, since[p]) /\ ~r.pruned
  BY <1>2, RecordTyped DEF Unavailable, Told, Knows, Live
<1> HIDE DEF r
<1>4. TypeOK'
  BY <1>1, <1>2, RecordTyped, StepTyped DEF Unavailable, Holding, IInv, TypeOK
<1>5. LocalInv' /\ EditedInv'
  BY <1>1, <1>2, <1>3, RecordTyped, StepInv DEF Unavailable
<1> QED BY <1>4, <1>5 DEF IInv

LEMMA BuildInv ==
  ASSUME IInv, NEW p \in Sync, Build(p)
  PROVE  IInv'
<1> DEFINE described_by == IF sync[p].meta = Down THEN {} ELSE sync[p].meta
<1> DEFINE N(rejected) ==
             [sync[p] EXCEPT
                !.pc = "prune", !.meta = Down,
                !.chosen = Eligible(sync[p].raw, IF rejected THEN {} ELSE described_by),
                !.warned = @ \/ rejected \/ sync[p].meta = Down
                             \/ described_by # sync[p].raw]
<1>1. PICK rejected \in BOOLEAN : Goto(p, N(rejected))
  BY DEF Build
<1> DEFINE r == N(rejected)
<1>2. sync[p].raw \in SUBSET Model /\ described_by \in SUBSET Model
  BY RecordTyped DEF Build, SyncRecord
<1>3. /\ r \in SyncRecord /\ r.pc = "prune"
      /\ r.raw = sync[p].raw /\ r.meta = Down /\ r.pruned = sync[p].pruned
      /\ r.chosen = Eligible(sync[p].raw, IF rejected THEN {} ELSE described_by)
      /\ r.warned = (sync[p].warned \/ rejected \/ sync[p].meta = Down
                       \/ described_by # sync[p].raw)
  BY <1>2, RecordTyped DEF SyncRecord, Eligible
<1>4. r.chosen \subseteq sync[p].raw \cap described_by
  BY <1>3 DEF Eligible
<1>5. Told(r, since[p])
  BY <1>3, <1>4, RecordTyped DEF Build, Told, Live
<1>6. r.warned \/ r.raw = r.chosen
  BY <1>3 DEF Eligible
<1>7. Knows(r, since[p])
  BY <1>3, <1>6, RecordTyped DEF Build, Knows
<1>8. Goto(p, r)
  BY <1>1
<1> HIDE DEF r
<1>9. TypeOK'
  BY <1>3, <1>8, RecordTyped, StepTyped DEF Build, Holding, IInv, TypeOK
<1>10. LocalInv' /\ EditedInv'
  BY <1>3, <1>5, <1>7, <1>8, RecordTyped, StepInv DEF Build
<1> QED BY <1>9, <1>10 DEF IInv

LEMMA CannotLockInv ==
  ASSUME IInv, NEW p \in Sync, CannotLock(p)
  PROVE  IInv'
<1> DEFINE r == [sync[p] EXCEPT !.pc = "report", !.warned = TRUE]
<1>1. Goto(p, r)
  BY DEF CannotLock
<1>2. /\ r \in SyncRecord /\ r.pc = "report" /\ r.warned
      /\ r.raw = sync[p].raw /\ r.meta = sync[p].meta
      /\ r.chosen = sync[p].chosen /\ r.pruned = sync[p].pruned
  BY RecordTyped DEF SyncRecord
<1>3. Told(r, since[p]) /\ Knows(r, since[p]) /\ ~r.pruned
  BY <1>2, RecordTyped DEF CannotLock, Told, Knows, Live
<1> HIDE DEF r
<1>4. TypeOK'
  BY <1>1, <1>2, RecordTyped, StepTyped DEF CannotLock, Holding, IInv, TypeOK
<1>5. LocalInv' /\ EditedInv'
  BY <1>1, <1>2, <1>3, RecordTyped, StepInv DEF CannotLock
<1> QED BY <1>4, <1>5 DEF IInv

LEMMA LockInv ==
  ASSUME IInv, NEW p \in Sync, Lock(p)
  PROVE  IInv'
<1> DEFINE r == [sync[p] EXCEPT !.pc = "locked"]
<1>1. Goto(p, r)
  BY DEF Lock
<1>2. /\ r \in SyncRecord /\ r.pc = "locked"
      /\ r.raw = sync[p].raw /\ r.meta = sync[p].meta
      /\ r.chosen = sync[p].chosen /\ r.pruned = sync[p].pruned
      /\ r.warned = sync[p].warned
  BY RecordTyped DEF SyncRecord, Holding
<1>3. Told(r, since[p]) /\ Knows(r, since[p])
  BY <1>2, RecordTyped DEF Lock, Told, Knows, Live
<1> HIDE DEF r
<1>4. TypeOK'
  BY <1>1, <1>2, RecordTyped, StepTyped, SyncAssumption
     DEF Lock, Holding, IInv, TypeOK
<1>5. LocalInv' /\ EditedInv'
  BY <1>1, <1>2, <1>3, RecordTyped, StepInv DEF Lock
<1> QED BY <1>4, <1>5 DEF IInv

LEMMA ParseInv ==
  ASSUME IInv, NEW p \in Sync, Parse(p)
  PROVE  IInv'
<1> DEFINE r == [sync[p] EXCEPT !.pc = "parsed", !.read = config]
<1> DEFINE s == [since[p] EXCEPT !.edited = FALSE]
<1>1. Goto(p, r) /\ since' = [since EXCEPT ![p] = s]
  BY DEF Parse
<1>2. config \in [Alias -> SUBSET Model]
  BY DEF IInv, TypeOK
<1>3. /\ r \in SyncRecord /\ r.pc = "parsed" /\ r.read = config
      /\ r.raw = sync[p].raw /\ r.meta = sync[p].meta
      /\ r.chosen = sync[p].chosen /\ r.pruned = sync[p].pruned
      /\ r.warned = sync[p].warned
  BY <1>2, RecordTyped DEF SyncRecord, Holding
<1>4. /\ s \in SinceRecord /\ ~s.edited
      /\ s.absent = since[p].absent /\ s.listed = since[p].listed
      /\ s.described = since[p].described
  BY RecordTyped DEF SinceRecord
<1> HIDE DEF r, s
<1>5. Told(r, s) /\ Knows(r, s)
  <2>1. sync[p].pc = "locked" /\ Told(sync[p], since[p]) /\ Knows(sync[p], since[p])
    BY RecordTyped DEF Parse
  <2>2. Told(r, s)
    BY <1>3, <1>4, <2>1 DEF Told, Live
  <2>3. Knows(r, s)
    BY <1>3, <1>4, <2>1 DEF Knows
  <2> QED BY <2>2, <2>3
<1>6. TypeOK'
  BY <1>1, <1>3, <1>4, RecordTyped, StepTyped DEF Parse, Holding, IInv, TypeOK
<1>7. LocalInv' /\ EditedInv'
  BY <1>1, <1>3, <1>4, <1>5, RecordTyped, StepInv DEF Parse
<1> QED BY <1>6, <1>7 DEF IInv

\* Leaving with a result needs that the candidates are listed ones.
LEMMA LeaveInv ==
  ASSUME IInv, NEW p \in Sync, NEW done \in BOOLEAN, Leave(p, done),
         sync[p].pc \in Holding,
         UNCHANGED <<listed, described, config, since, changes, edits>>,
         done /\ ~since[p].edited => \A a \in Alias : config[a] \subseteq sync[p].raw
  PROVE  IInv'
<1> DEFINE warned == sync[p].warned \/ ~done \/ \E a \in Alias : Pruned(p)[a] = {}
<1> DEFINE r == [sync[p] EXCEPT !.pc = "report", !.pruned = done, !.read = Nothing,
                                !.warned = warned]
<1>1. Goto(p, r)
  BY DEF Leave
<1>2. /\ r \in SyncRecord /\ r.pc = "report" /\ r.warned = warned
      /\ r.raw = sync[p].raw /\ r.meta = sync[p].meta
      /\ r.chosen = sync[p].chosen /\ r.pruned = done
  BY NothingTyped, RecordTyped DEF SyncRecord
<1>3. /\ sync[p].raw # Down
      /\ warned \/ sync[p].raw = sync[p].chosen
      /\ ~done => warned
  BY RecordTyped DEF Knows, Holding
<1> HIDE DEF warned
<1>4. Told(r, since[p]) /\ Knows(r, since[p])
  BY <1>2, <1>3, RecordTyped DEF Told, Knows, Live, Holding
<1> HIDE DEF r
<1>5. TypeOK'
  BY <1>1, <1>2, RecordTyped, StepTyped, SyncAssumption
     DEF Leave, Holding, IInv, TypeOK
<1>6. \A q \in Sync : sync[q].pc = "parsed" => q = p
  BY DEF IInv, TypeOK, Holding
<1>7. LocalInv' /\ EditedInv'
  BY <1>1, <1>2, <1>4, <1>6, RecordTyped, StepInv
<1> QED BY <1>5, <1>7 DEF IInv

LEMMA NothingMissingInv ==
  ASSUME IInv, NEW p \in Sync, NothingMissing(p)
  PROVE  IInv'
<1>1. ~since[p].edited => \A a \in Alias : config[a] \subseteq sync[p].raw
  BY RecordTyped DEF NothingMissing, Missing, Knows
<1> QED BY <1>1, LeaveInv DEF NothingMissing, Holding

LEMMA RefuseInv ==
  ASSUME IInv, NEW p \in Sync, Refuse(p)
  PROVE  IInv'
BY LeaveInv DEF Refuse, Holding

LEMMA VerifyInv ==
  ASSUME IInv, NEW p \in Sync, Verify(p)
  PROVE  IInv'
<1>1. \A a \in Alias : config[a] \subseteq sync[p].raw
  BY DEF Verify, Pruned
<1> QED BY <1>1, LeaveInv DEF Verify, Holding

LEMMA ReportInv ==
  ASSUME IInv, NEW p \in Sync, Report(p)
  PROVE  IInv'
<1> DEFINE N(failed) ==
             [sync[p] EXCEPT
                !.pc = "done",
                !.status = IF sync[p].raw = Down THEN "failed"
                           ELSE IF sync[p].warned \/ failed THEN "degraded" ELSE "ok"]
<1> DEFINE s == [Never EXCEPT !.edited = since[p].edited]
<1>1. PICK failed \in BOOLEAN : Goto(p, N(failed))
  BY DEF Report
<1> DEFINE r == N(failed)
<1>2. /\ r \in SyncRecord /\ r.pc = "done"
      /\ r.raw = sync[p].raw /\ r.chosen = sync[p].chosen /\ r.pruned = sync[p].pruned
      /\ r.status = "ok" => ~sync[p].warned
  BY RecordTyped DEF SyncRecord
<1>3. s \in SinceRecord /\ s.edited = since[p].edited
  BY RecordTyped DEF SinceRecord, Never
<1>4. Told(r, s) /\ Knows(r, s)
  BY <1>2, <1>3, RecordTyped DEF Report, Told, Knows, Live
<1>5. Goto(p, r) /\ since' = [since EXCEPT ![p] = s]
  BY <1>1 DEF Report
<1>6. r.pruned /\ ~s.edited =>
        \A q \in Sync : sync[q].pc = "parsed" /\ since[q].edited => q = p
  BY <1>2, <1>3 DEF Report, IInv, EditedInv
<1> HIDE DEF r, s
<1>7. TypeOK'
  BY <1>2, <1>3, <1>5, RecordTyped, StepTyped DEF Report, Holding, IInv, TypeOK
<1>8. LocalInv' /\ EditedInv'
  BY <1>2, <1>3, <1>4, <1>5, <1>6, StepInv DEF Report
<1> QED BY <1>7, <1>8 DEF IInv

LEMMA CrashInv ==
  ASSUME IInv, NEW p \in Sync, Crash(p)
  PROVE  IInv'
<1> DEFINE r == [Fresh EXCEPT !.pc = "crashed"]
<1>1. Goto(p, r) /\ since' = [since EXCEPT ![p] = Never]
  BY DEF Crash
<1>2. r \in SyncRecord /\ r.pc = "crashed" /\ ~r.pruned
  BY FreshTyped DEF Fresh, SyncRecord
<1>3. Told(r, Never) /\ Knows(r, Never)
  BY <1>2 DEF Told, Knows, Live
<1> HIDE DEF r
<1>4. TypeOK'
  BY <1>1, <1>2, FreshTyped, RecordTyped, StepTyped, SyncAssumption
     DEF Crash, Holding, IInv, TypeOK
<1>5. LocalInv' /\ EditedInv'
  BY <1>1, <1>2, <1>3, FreshTyped, StepInv DEF Crash
<1> QED BY <1>4, <1>5 DEF IInv

-----------------------------------------------------------------------------
(* Steps that change what all processes see.                               *)

\* os.replace by the holder of the lock.  Whoever is through with the file finds
\* fewer candidates in it, if nobody edited it since.
LEMMA ReplaceInv ==
  ASSUME IInv, NEW p \in Sync, Replace(p)
  PROVE  IInv'
<1> DEFINE r == [sync[p] EXCEPT !.pc = "replaced"]
<1>1. Goto(p, r) /\ since' = since
  BY DEF Replace
<1>2. /\ r \in SyncRecord /\ r.pc = "replaced"
      /\ r.raw = sync[p].raw /\ r.meta = sync[p].meta
      /\ r.chosen = sync[p].chosen /\ r.pruned = sync[p].pruned
      /\ r.warned = sync[p].warned
  BY RecordTyped DEF SyncRecord, Holding
<1> HIDE DEF r
<1>3. Pruned(p) \in [Alias -> SUBSET Model]
  BY DEF IInv, TypeOK, SyncRecord, Pruned
<1>4. TypeOK'
  BY <1>1, <1>2, <1>3, RecordTyped, StepTyped DEF Replace, Holding, IInv, TypeOK
<1>5. sync'[p] = r /\ \A q \in Sync : q # p => sync'[q] = sync[q]
  BY <1>1 DEF IInv, TypeOK, Goto
<1>6. \A q \in Sync : q # p => sync[q].pc \notin Holding
  BY DEF Replace, IInv, TypeOK, Holding
<1>7. \A q \in Sync : sync'[q].pc # "parsed"
  BY <1>2, <1>5, <1>6 DEF Holding
<1>8. EditedInv'
  BY <1>7 DEF EditedInv
<1>9. ASSUME NEW q \in Sync PROVE Told(sync[q], since[q])'
  <2>1. Told(sync[q], since[q])
    BY RecordTyped
  <2>2. CASE q = p
    BY <1>1, <1>2, <1>5, <2>1, <2>2 DEF Replace, Told, Live
  <2>3. CASE q # p
    BY <1>1, <1>5, <2>1, <2>3 DEF Replace, Told
  <2> QED BY <2>2, <2>3
<1>10. ASSUME NEW q \in Sync PROVE Knows(sync[q], since[q])'
  <2>1. Knows(sync[q], since[q])
    BY RecordTyped
  <2>2. CASE q = p
    BY <1>1, <1>2, <1>5, <2>1, <2>2 DEF Replace, Knows
  <2>3. CASE q # p
    <3>1. ASSUME sync[q].pc \in {"report", "done"}, sync[q].pruned, ~since[q].edited,
                 NEW a \in Alias
          PROVE  config'[a] \subseteq sync[q].raw
      <4>1. ~since[p].edited
        BY <3>1 DEF Replace, IInv, EditedInv
      <4>2. sync[p].read = config
        BY <4>1, RecordTyped DEF Replace, Knows
      <4>3. config[a] \subseteq sync[q].raw
        BY <2>1, <3>1 DEF Knows
      <4> QED BY <4>2, <4>3 DEF Replace, Pruned
    <3>2. sync'[q] = sync[q] /\ since'[q] = since[q] /\ sync[q].pc \notin Holding
      BY <1>1, <1>5, <1>6, <2>3
    <3> QED BY <2>1, <3>1, <3>2 DEF Knows, Holding
  <2> QED BY <2>2, <2>3
<1> QED BY <1>4, <1>8, <1>9, <1>10 DEF IInv, LocalInv

LEMMA GatewayInv ==
  ASSUME IInv, GatewayChanges
  PROVE  IInv'
<1>1. \A q \in Sync : /\ since'[q] \in SinceRecord
                      /\ since'[q].edited = since[q].edited
                      /\ since[q].absent \subseteq since'[q].absent
                      /\ since[q].listed \subseteq since'[q].listed
                      /\ since[q].described \subseteq since'[q].described
  BY DEF GatewayChanges, IInv, TypeOK, SinceRecord
<1>2. TypeOK'
  <2>1. since' \in [Sync -> SinceRecord]
    BY <1>1 DEF GatewayChanges
  <2>2. changes' \in 0..MaxChanges
    <3>1. changes \in 0..MaxChanges
      BY DEF IInv, TypeOK
    <3>2. changes < MaxChanges /\ changes' = changes + 1
      BY DEF GatewayChanges
    <3> QED BY <3>1, <3>2, SyncAssumption
  <2> QED BY <2>1, <2>2 DEF GatewayChanges, IInv, TypeOK
<1>3. \A q \in Sync : sync[q].pc \in Live => /\ Model \ listed' \subseteq since'[q].absent
                                             /\ listed' \subseteq since'[q].listed
                                             /\ described' \subseteq since'[q].described
  BY DEF GatewayChanges, Over, Live, IInv, TypeOK, SinceRecord
<1>4. ASSUME NEW q \in Sync PROVE (Told(sync[q], since[q]) /\ Knows(sync[q], since[q]))'
  <2>1. Told(sync[q], since[q]) /\ Knows(sync[q], since[q])
    BY RecordTyped
  <2>2. sync' = sync /\ config' = config
    BY DEF GatewayChanges
  <2>3. Told(sync[q], since[q])'
    BY <1>1, <1>3, <2>1, <2>2 DEF Told
  <2>4. Knows(sync[q], since[q])'
    BY <1>1, <2>1, <2>2 DEF Knows
  <2> QED BY <2>3, <2>4
<1>5. EditedInv'
  BY <1>1 DEF GatewayChanges, IInv, EditedInv
<1> QED BY <1>2, <1>4, <1>5 DEF IInv, LocalInv

LEMMA EditInv ==
  ASSUME IInv, Edit
  PROVE  IInv'
<1>1. \A q \in Sync : /\ since'[q] \in SinceRecord
                      /\ sync[q].pc # "crashed" => since'[q].edited
                      /\ since[q].absent = since'[q].absent
                      /\ since[q].listed = since'[q].listed
                      /\ since[q].described = since'[q].described
  BY DEF Edit, IInv, TypeOK, SinceRecord
<1>2. TypeOK'
  <2>1. since' \in [Sync -> SinceRecord]
    BY <1>1 DEF Edit
  <2>2. edits' \in 0..MaxEdits
    BY SyncAssumption DEF Edit, IInv, TypeOK
  <2>3. config' \in [Alias -> SUBSET Model]
    BY DEF Edit, IInv, TypeOK
  <2> QED BY <2>1, <2>2, <2>3 DEF Edit, IInv, TypeOK
<1>3. ASSUME NEW q \in Sync PROVE (Told(sync[q], since[q]) /\ Knows(sync[q], since[q]))'
  <2>1. Told(sync[q], since[q]) /\ Knows(sync[q], since[q])
    BY RecordTyped
  <2>2. sync' = sync /\ listed' = listed /\ described' = described
    BY DEF Edit
  <2>3. Told(sync[q], since[q])'
    BY <1>1, <2>1, <2>2 DEF Told
  <2>4. Knows(sync[q], since[q])'
    BY <1>1, <2>1, <2>2 DEF Knows
  <2> QED BY <2>3, <2>4
<1>4. EditedInv'
  BY <1>1 DEF Edit, EditedInv
<1> QED BY <1>2, <1>3, <1>4 DEF IInv, LocalInv

-----------------------------------------------------------------------------
(* The theorems.                                                           *)

THEOREM Inductive == Spec => []IInv
<1>1. Init => IInv
  <2> SUFFICES ASSUME Init PROVE IInv
    OBVIOUS
  <2>1. \A p \in Sync : sync[p] = Fresh /\ since[p] = Never
    BY DEF Init
  <2>2. TypeOK
    <3>1. sync \in [Sync -> SyncRecord] /\ since \in [Sync -> SinceRecord]
      BY FreshTyped DEF Init
    <3>2. config \in [Alias -> SUBSET Model]
      BY DEF Init
    <3>3. changes \in 0..MaxChanges /\ edits \in 0..MaxEdits
      BY SyncAssumption DEF Init
    <3>4. \A p \in Sync : lock # p /\ sync[p].pc \notin Holding
      BY SyncAssumption DEF Init, Fresh, Holding
    <3> QED BY <3>1, <3>2, <3>3, <3>4, SyncAssumption DEF Init, TypeOK
  <2>3. Told(Fresh, Never) /\ Knows(Fresh, Never)
    BY DEF Told, Knows, Fresh, Live
  <2> QED BY <2>1, <2>2, <2>3 DEF IInv, LocalInv, EditedInv, Fresh
<1>2. IInv /\ [Next]_vars => IInv'
  <2> SUFFICES ASSUME IInv, [Next]_vars PROVE IInv'
    OBVIOUS
  <2>1. CASE UNCHANGED vars
    BY <2>1 DEF vars, IInv, TypeOK, LocalInv, Told, Knows, EditedInv
  <2>2. ASSUME NEW p \in Sync, Step(p) PROVE IInv'
    BY <2>2, InspectInv, FetchInv, UnavailableInv, BuildInv, LockInv,
       ParseInv, NothingMissingInv, RefuseInv, ReplaceInv, VerifyInv, ReportInv DEF Step
  <2> QED BY <2>1, <2>2, CannotLockInv, CrashInv, GatewayInv, EditInv DEF Next
<1> QED BY <1>1, <1>2, PTL DEF Spec

\* Types, and that the lock is held exactly from flock to its release, also by
\* processes that are killed.
THEOREM TypeCorrect == Spec => []TypeOK
<1>1. IInv => TypeOK
  BY DEF IInv
<1> QED BY <1>1, Inductive, PTL

\* "ok" means that the aliases hold listed candidates only, and stay so.
THEOREM OkIsPruned == Spec => []OkMeansPruned
<1>1. IInv => OkMeansPruned
  BY DEF IInv, LocalInv, Knows, OkMeansPruned
<1> QED BY <1>1, Inductive, PTL

\* Nothing can be chosen that was not listed and described.
THEOREM SelectionIsListed == Spec => []SelectsOnlyListed
<1>1. IInv => SelectsOnlyListed
  <2> SUFFICES ASSUME IInv, NEW p \in Sync, ~Over(p)
               PROVE  sync[p].chosen \subseteq since[p].listed \cap since[p].described
    BY DEF SelectsOnlyListed
  <2>1. Told(sync[p], since[p]) /\ sync[p] \in SyncRecord
    BY RecordTyped
  <2>2. sync[p].pc = "start" \/ sync[p].pc \in Live
    BY <2>1 DEF Over, Live, SyncRecord, Holding
  <2> QED BY <2>1, <2>2 DEF Told
<1> QED BY <1>1, Inductive, PTL

\* Only Replace takes a process to "replaced".
LEMMA OnlyReplace ==
  ASSUME IInv, [Next]_vars, NEW p \in Sync,
         sync[p].pc = "parsed", sync'[p].pc = "replaced"
  PROVE  Replace(p)
<1>1. sync' # sync
  OBVIOUS
<1>2. PICK q \in Sync : Step(q) \/ CannotLock(q) \/ Crash(q)
  BY <1>1 DEF Next, vars, GatewayChanges, Edit
<1>3. sync \in [Sync -> SyncRecord]
  BY DEF IInv, TypeOK
<1>4. CASE Replace(q)
  <2>1. q = p
    BY <1>3, <1>4 DEF Replace, Goto
  <2> QED BY <1>4, <2>1
<1>5. CASE Inspect(q)
  BY <1>3, <1>5 DEF Inspect, Goto, SyncRecord
<1>6. CASE Fetch(q)
  BY <1>3, <1>6 DEF Fetch, Goto, SyncRecord
<1>7. CASE Unavailable(q)
  BY <1>3, <1>7 DEF Unavailable, Goto, SyncRecord
<1>8. CASE Build(q)
  BY <1>3, <1>8 DEF Build, Goto, SyncRecord
<1>9. CASE Lock(q)
  BY <1>3, <1>9 DEF Lock, Goto, SyncRecord
<1>10. CASE CannotLock(q)
  BY <1>3, <1>10 DEF CannotLock, Goto, SyncRecord
<1>11. CASE Parse(q)
  BY <1>3, <1>11 DEF Parse, Goto, SyncRecord
<1>12. ASSUME NEW done, Leave(q, done) PROVE FALSE
  BY <1>3, <1>12 DEF Leave, Goto, SyncRecord
<1>13. CASE Report(q)
  BY <1>3, <1>13 DEF Report, Goto, SyncRecord
<1>14. CASE Crash(q)
  BY <1>3, <1>14 DEF Crash, Goto, Fresh
<1> QED BY <1>2, <1>4, <1>5, <1>6, <1>7, <1>8, <1>9, <1>10, <1>11, <1>12, <1>13,
           <1>14
        DEF Step, NothingMissing, Refuse, Verify

\* What is removed was missing, and nothing is brought back.
THEOREM PruningIsExact == Spec => PrunesOnlyMissing
<1>1. ASSUME IInv, NEW p \in Sync, Replace(p), ~since[p].edited, NEW a \in Alias
      PROVE  /\ config'[a] \subseteq config[a]
             /\ config[a] \ config'[a] \subseteq since[p].absent
  <2>1. sync[p].read = config /\ Model \ sync[p].raw \subseteq since[p].absent
    BY <1>1, RecordTyped DEF Replace, Knows, Told, Live
  <2>2. config'[a] = config[a] \cap sync[p].raw
    BY <1>1, <2>1 DEF Replace, Pruned
  <2>3. config[a] \subseteq Model
    BY <1>1 DEF IInv, TypeOK
  <2> QED BY <2>1, <2>2, <2>3
<1>2. IInv /\ [Next]_vars =>
        [\A p \in Sync :
           sync[p].pc = "parsed" /\ sync'[p].pc = "replaced" /\ ~since[p].edited
             => \A a \in Alias : /\ config'[a] \subseteq config[a]
                                 /\ config[a] \ config'[a] \subseteq since[p].absent]_vars
  BY <1>1, OnlyReplace
<1> QED BY <1>2, Inductive, PTL DEF Spec, PrunesOnlyMissing
=============================================================================
