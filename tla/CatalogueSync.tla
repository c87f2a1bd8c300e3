--------------------------- MODULE CatalogueSync ---------------------------
(***************************************************************************)
(* Catalogue synchronisation: synchronize_catalogue (catalogue_sync.py),   *)
(* which every catalogue read of a run, of `doctor` and of `sync` goes     *)
(* through (transport.py:456-474).  A synchronisation asks the gateway for *)
(* the list of models and for their capabilities, builds the catalogue the *)
(* council chooses from, and takes the models that are no longer listed    *)
(* out of the smart aliases of the proxy configuration, under a lock that  *)
(* only synchronisations take: the gateway and whoever edits the           *)
(* configuration go their own way meanwhile.                               *)
(***************************************************************************)
EXTENDS Naturals

CONSTANTS
  Sync,     \* processes that synchronise, once each
  Model,    \* model ids
  Offered,  \* what the gateway offers at first
  Alias,    \* smart aliases of the configuration
  Down,     \* no answer: a GET failed
  Nobody,   \* the lock is free
  MaxChanges, \* bound: changes of what the gateway offers
  MaxEdits  \* bound: edits of the configuration

ASSUME SyncAssumption ==
  /\ Offered \subseteq Model
  /\ Nobody \notin Sync
  /\ \A S \in SUBSET Model : S # Down
  /\ MaxChanges \in Nat /\ MaxEdits \in Nat

VARIABLES
  listed,    \* ids GET /v1/models would answer now
  described, \* ids the capability endpoint would answer now
  config,    \* alias -> its candidates, in the configuration file
  lock,      \* holder of catalogue-sync.lock
  sync,      \* process -> its local state
  since,     \* history: process -> what was true at some time while it ran
  changes,   \* changes of the gateway so far
  edits      \* edits so far

vars == <<listed, described, config, lock, sync, since, changes, edits>>

Nothing == [a \in Alias |-> {}]

Fresh ==
  [pc |-> "start", raw |-> Down, meta |-> Down, try |-> 1, chosen |-> {},
   read |-> Nothing, pruned |-> FALSE, warned |-> FALSE, status |-> "none"]

\* The ids that were not listed, were listed, were described at some time; and
\* whether the configuration was edited since this process read it.
Now == [absent |-> Model \ listed, listed |-> listed, described |-> described,
        edited |-> FALSE]

Never == [absent |-> {}, listed |-> {}, described |-> {}, edited |-> FALSE]

Init ==
  /\ listed = Offered
  /\ described = Offered
  /\ config = [a \in Alias |-> Model]
  /\ lock = Nobody
  /\ sync = [p \in Sync |-> Fresh]
  /\ since = [p \in Sync |-> Never]
  /\ changes = 0
  /\ edits = 0

Goto(p, r) == sync' = [sync EXCEPT ![p] = r]

-----------------------------------------------------------------------------
(* Fetching.                                                               *)

\* The aliases are read for the report; if that fails, a warning remains.
Inspect(p) ==
  /\ sync[p].pc = "start"
  /\ \E failed \in BOOLEAN :
       Goto(p, [sync[p] EXCEPT !.pc = "fetch", !.warned = failed])
  /\ since' = [since EXCEPT ![p] = Now]
  /\ UNCHANGED <<listed, described, config, lock, changes, edits>>

\* An attempt: both GETs.  The second attempt follows when a GET of the first
\* failed or the ids differ; its answers take the place of the first ones, its
\* failures do not.  What the gateway changes between the two GETs of an attempt
\* is the same to the process as two changes before them.
Fetch(p) ==
  /\ sync[p].pc = "fetch"
  /\ \E raw \in {listed, Down}, meta \in {described, Down} :
       LET again == sync[p].try = 1 /\ (Down \in {raw, meta} \/ raw # meta)
       IN Goto(p, [sync[p] EXCEPT
            !.pc = IF again THEN "fetch" ELSE "fetched",
            !.try = IF again THEN 2 ELSE 1,
            !.raw = IF raw = Down THEN @ ELSE raw,
            !.meta = IF meta = Down THEN @ ELSE meta])
  /\ UNCHANGED <<listed, described, config, lock, since, changes, edits>>

\* No list of models: no catalogue, and the aliases are left alone.
Unavailable(p) ==
  /\ sync[p].pc = "fetched" /\ sync[p].raw = Down
  /\ Goto(p, [sync[p] EXCEPT !.pc = "report", !.warned = TRUE])
  /\ UNCHANGED <<listed, described, config, lock, since, changes, edits>>

\* Bug: ids known from the metadata alone are kept.
EligibleFromEither(raw, meta) == raw \cup meta

\* merge_catalogues: only an id that is listed and described can be chosen.
Eligible(raw, meta) == raw \cap meta

\* The catalogue.  If the builder rejects the metadata, it goes without.
Build(p) ==
  /\ sync[p].pc = "fetched" /\ sync[p].raw # Down
  /\ \E rejected \in BOOLEAN :
       LET meta == IF sync[p].meta = Down THEN {} ELSE sync[p].meta
       IN Goto(p, [sync[p] EXCEPT
            !.pc = "prune", !.meta = Down,
            !.chosen = Eligible(sync[p].raw, IF rejected THEN {} ELSE meta),
            !.warned = @ \/ rejected \/ sync[p].meta = Down \/ meta # sync[p].raw])
  /\ UNCHANGED <<listed, described, config, lock, since, changes, edits>>

-----------------------------------------------------------------------------
(* prune_smart_aliases.                                                    *)

\* Bug: pruning does without the lock.
LockIgnored(p) ==
  /\ sync[p].pc = "prune"
  /\ lock' = p
  /\ Goto(p, [sync[p] EXCEPT !.pc = "locked"])
  /\ UNCHANGED <<listed, described, config, since, changes, edits>>

\* flock waits as long as it takes.
Lock(p) ==
  /\ sync[p].pc = "prune"
  /\ lock = Nobody
  /\ lock' = p
  /\ Goto(p, [sync[p] EXCEPT !.pc = "locked"])
  /\ UNCHANGED <<listed, described, config, since, changes, edits>>

\* An exception before that: no such configuration, no lock file.
CannotLock(p) ==
  /\ sync[p].pc = "prune"
  /\ Goto(p, [sync[p] EXCEPT !.pc = "report", !.warned = TRUE])
  /\ UNCHANGED <<listed, described, config, lock, since, changes, edits>>

Parse(p) ==
  /\ sync[p].pc = "locked"
  /\ Goto(p, [sync[p] EXCEPT !.pc = "parsed", !.read = config])
  /\ since' = [since EXCEPT ![p].edited = FALSE]
  /\ UNCHANGED <<listed, described, config, lock, changes, edits>>

Missing(p, a) == sync[p].read[a] \ sync[p].raw

Pruned(p) == [a \in Alias |-> sync[p].read[a] \cap sync[p].raw]

\* Bug: a failure to prune is not reported.
LeaveSilently(p, done) ==
  /\ lock' = Nobody
  /\ Goto(p, [sync[p] EXCEPT !.pc = "report", !.pruned = done, !.read = Nothing])

\* The end of pruning, with a result or with an exception: the lock is freed.
\* An exception becomes a warning, and so does an alias without candidates.
Leave(p, done) ==
  /\ lock' = Nobody
  /\ Goto(p, [sync[p] EXCEPT
       !.pc = "report", !.pruned = done, !.read = Nothing,
       !.warned = @ \/ ~done \/ \E a \in Alias : Pruned(p)[a] = {}])

NothingMissing(p) ==
  /\ sync[p].pc = "parsed"
  /\ \A a \in Alias : Missing(p, a) = {}
  /\ Leave(p, TRUE)
  /\ UNCHANGED <<listed, described, config, since, changes, edits>>

\* An exception: the file cannot be read, parsed or written, a candidate to
\* remove is on a line with others; or, after os.replace, the file is not found
\* to be what was written.
Refuse(p) ==
  /\ sync[p].pc \in {"locked", "parsed", "replaced"}
  /\ Leave(p, FALSE)
  /\ UNCHANGED <<listed, described, config, since, changes, edits>>

\* os.replace: the whole file at once, as it was read but for what is missing.
Replace(p) ==
  /\ sync[p].pc = "parsed"
  /\ \E a \in Alias : Missing(p, a) # {}
  /\ config' = Pruned(p)
  /\ Goto(p, [sync[p] EXCEPT !.pc = "replaced"])
  /\ UNCHANGED <<listed, described, lock, since, changes, edits>>

\* The file is read back.
Verify(p) ==
  /\ sync[p].pc = "replaced"
  /\ config = Pruned(p)
  /\ Leave(p, TRUE)
  /\ UNCHANGED <<listed, described, config, since, changes, edits>>

\* The report and its receipts; if those cannot be written, it is not "ok".
Report(p) ==
  /\ sync[p].pc = "report"
  /\ \E failed \in BOOLEAN :
       Goto(p, [sync[p] EXCEPT
         !.pc = "done",
         !.status = IF sync[p].raw = Down THEN "failed"
                    ELSE IF sync[p].warned \/ failed THEN "degraded" ELSE "ok"])
  /\ since' = [since EXCEPT ![p] = [Never EXCEPT !.edited = since[p].edited]]
  /\ UNCHANGED <<listed, described, config, lock, changes, edits>>

Over(p) == sync[p].pc \in {"done", "crashed"}

\* Bug: the lock outlives its process.
CrashKeepsLock(p) ==
  /\ ~Over(p)
  /\ Goto(p, [Fresh EXCEPT !.pc = "crashed"])
  /\ since' = [since EXCEPT ![p] = Never]
  /\ UNCHANGED <<listed, described, config, lock, changes, edits>>

\* A process is killed: the kernel drops its lock.
Crash(p) ==
  /\ ~Over(p)
  /\ Goto(p, [Fresh EXCEPT !.pc = "crashed"])
  /\ lock' = IF lock = p THEN Nobody ELSE lock
  /\ since' = [since EXCEPT ![p] = Never]
  /\ UNCHANGED <<listed, described, config, changes, edits>>

-----------------------------------------------------------------------------
(* The surroundings.                                                       *)

\* The gateway comes to list, or to describe, other models.
GatewayChanges ==
  /\ changes < MaxChanges
  /\ changes' = changes + 1
  /\ \/ listed' \in SUBSET Model /\ UNCHANGED described
     \/ described' \in SUBSET Model /\ UNCHANGED listed
  /\ since' = [p \in Sync |->
                 IF sync[p].pc = "start" \/ Over(p) THEN since[p]
                 ELSE [since[p] EXCEPT !.absent = @ \cup (Model \ listed'),
                                       !.listed = @ \cup listed',
                                       !.described = @ \cup described']]
  /\ UNCHANGED <<config, lock, sync, edits>>

\* Somebody edits the configuration, and does not ask for the lock.
Edit ==
  /\ edits < MaxEdits
  /\ edits' = edits + 1
  /\ \E a \in Alias, ids \in SUBSET Model : config' = [config EXCEPT ![a] = ids]
  /\ since' = [p \in Sync |-> IF sync[p].pc = "crashed" THEN since[p]
                            ELSE [since[p] EXCEPT !.edited = TRUE]]
  /\ UNCHANGED <<listed, described, lock, sync, changes>>

Step(p) ==
  \/ Inspect(p) \/ Fetch(p) \/ Unavailable(p) \/ Build(p)
  \/ Lock(p) \/ Parse(p)
  \/ NothingMissing(p) \/ Refuse(p) \/ Replace(p) \/ Verify(p)
  \/ Report(p)

Next ==
  \/ \E p \in Sync : Step(p) \/ CannotLock(p) \/ Crash(p)
  \/ GatewayChanges
  \/ Edit

\* A process that is not killed goes on; a GET ends, by the client's time-out.  No
\* exception has to come to the aid of one that waits for the lock.
Spec == Init /\ [][Next]_vars /\ \A p \in Sync : WF_vars(Step(p))

-----------------------------------------------------------------------------
(* Properties.                                                             *)

Holding == {"locked", "parsed", "replaced"}

SyncRecord ==
  [pc : Holding \cup {"start", "fetch", "fetched", "prune", "report", "done",
                      "crashed"},
   raw : (SUBSET Model) \cup {Down}, meta : (SUBSET Model) \cup {Down},
   try : 1..2, chosen : SUBSET Model,
   read : [Alias -> SUBSET Model], pruned : BOOLEAN, warned : BOOLEAN,
   status : {"none", "ok", "degraded", "failed"}]

SinceRecord ==
  [absent : SUBSET Model, listed : SUBSET Model, described : SUBSET Model,
   edited : BOOLEAN]

\* Types, and that the lock is held exactly from flock to its release.
TypeOK ==
  /\ listed \in SUBSET Model /\ described \in SUBSET Model
  /\ config \in [Alias -> SUBSET Model]
  /\ lock \in Sync \cup {Nobody}
  /\ sync \in [Sync -> SyncRecord]
  /\ since \in [Sync -> SinceRecord]
  /\ changes \in 0..MaxChanges /\ edits \in 0..MaxEdits
  /\ \A p \in Sync : lock = p <=> sync[p].pc \in Holding

\* A synchronisation removes a candidate from an alias only if the gateway did
\* not list it at some time since that synchronisation began, and it never
\* brings back one that another has removed: whatever the gateway does between
\* the two attempts and the lock, and whichever synchronisations overlap.  Only
\* an edit between its read and its os.replace is beyond it (SKILL.md:41-43).
PrunesOnlyMissing ==
  [][\A p \in Sync :
       sync[p].pc = "parsed" /\ sync'[p].pc = "replaced" /\ ~since[p].edited
         => \A a \in Alias : /\ config'[a] \subseteq config[a]
                             /\ config[a] \ config'[a] \subseteq since[p].absent]_vars

\* "ok" is said only when the two catalogues agreed and the aliases were left
\* with listed candidates only; and unless somebody edits them, they stay so
\* under the other synchronisations (catalogue_sync.py:763-769).
OkMeansPruned ==
  \A p \in Sync :
    sync[p].pc = "done" /\ sync[p].status = "ok" =>
      /\ sync[p].raw = sync[p].chosen /\ sync[p].pruned
      /\ since[p].edited \/ \A a \in Alias : config[a] \subseteq sync[p].raw

\* What the council may choose from was listed, and was described, while the
\* synchronisation ran, also when the answers it puts together are of different
\* attempts (SKILL.md:35-39).
SelectsOnlyListed ==
  \A p \in Sync :
    ~Over(p) => sync[p].chosen \subseteq since[p].listed \cap since[p].described

\* Every synchronisation ends: whatever becomes of the others, the lock it waits
\* for is released, also by one that is killed while it holds it.
SyncsEnd == <>\A p \in Sync : Over(p)
=============================================================================
