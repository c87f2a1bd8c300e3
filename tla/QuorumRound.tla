---------------------------- MODULE QuorumRound ----------------------------
(***************************************************************************)
(* A round of anonymous proposals: gather_with_quorum (routing.py:445-486) *)
(* and its one caller, CouncilEngine.hypotheses (protocols.py:1378-1425).  *)
(* One task per call runs on the event loop; the gathering coroutine waits *)
(* for the first to finish, again and again, and once enough families have *)
(* answered gives the others a grace period and cancels them.  Code from   *)
(* one await to the next is one step.  Time is abstract: the deadline may  *)
(* pass at any moment after it is set.                                     *)
(***************************************************************************)
EXTENDS Naturals, FiniteSets

CONSTANTS
  Call,      \* the labels of the calls of the round
  FamilyOf   \* call -> the family of its route

ASSUME CallAssumption == IsFiniteSet(Call) /\ Call # {}
ASSUME FamilyAssumption == DOMAIN FamilyOf = Call

VARIABLES
  task,      \* call -> its asyncio task
  pending,   \* the tasks the coroutine still waits for
  results,   \* calls whose answer it holds ...
  failures,  \* ... whose exception it holds ...
  cancelled, \* ... and which it has cancelled
  deadline,  \* "none", "set", "passed"
  pc         \* "wait" and "reap" (its two awaits); "returned"; then what the
             \* caller makes of it, "rows" or "below"; "abandoned": cancelled itself

vars == <<task, pending, results, failures, cancelled, deadline, pc>>

Families(S) == {FamilyOf[c] : c \in S}
Fewer(m, n) == IF m < n THEN m ELSE n
Required == Fewer(2, Cardinality(Call))

Finished == {"answered", "failed"}
Ready == {c \in pending : task[c] \in Finished}

Init ==
  /\ task = [c \in Call |-> "running"]
  /\ pending = Call
  /\ results = {} /\ failures = {} /\ cancelled = {}
  /\ deadline = "none"
  /\ pc = "wait"

-----------------------------------------------------------------------------
(* The tasks.  A task that was cancelled ends without an answer.           *)

TaskEnds(c, from, to) ==
  /\ task[c] = from
  /\ task' = [task EXCEPT ![c] = to]
  /\ UNCHANGED <<pending, results, failures, cancelled, deadline, pc>>

Answer(c) == TaskEnds(c, "running", "answered")
Fail(c) == TaskEnds(c, "running", "failed")
EndCancelled(c) == TaskEnds(c, "cancelling", "cancelled")

DeadlinePasses ==
  /\ deadline = "set"
  /\ deadline' = "passed"
  /\ UNCHANGED <<task, pending, results, failures, cancelled, pc>>

-----------------------------------------------------------------------------
(* The coroutine.                                                          *)

\* Bug: what is left is cancelled but not awaited.
LeaveAtOnce(left) ==
  /\ pending' = left
  /\ cancelled' = left
  /\ task' = [c \in Call |-> IF c \in left THEN "cancelling" ELSE task[c]]
  /\ pc' = "returned"

\* Out of the loop: what is left is cancelled, and awaited if there is any.
Leave(left) ==
  /\ pending' = left
  /\ cancelled' = left
  /\ task' = [c \in Call |-> IF c \in left THEN "cancelling" ELSE task[c]]
  /\ pc' = IF left = {} THEN "returned" ELSE "reap"

\* Bug: answers are counted, not their families.
DeadlineByCount(answered) ==
  IF deadline = "set" \/ (deadline = "none" /\ Cardinality(answered) >= Required)
  THEN {"set", "passed"} ELSE {deadline}

\* The deadline is set once, when the required families have answered; the
\* grace may be nothing, or be over when the head of the loop looks at it.
NextDeadline(answered) ==
  IF deadline = "set" \/ (deadline = "none" /\ Cardinality(Families(answered)) >= Required)
  THEN {"set", "passed"} ELSE {deadline}

\* Bug: the loop does not notice that nothing is left.
CollectForever ==
  /\ pc = "wait" /\ Ready # {}
  /\ results' = results \cup {c \in Ready : task[c] = "answered"}
  /\ failures' = failures \cup {c \in Ready : task[c] = "failed"}
  /\ deadline' \in NextDeadline(results')
  /\ IF deadline' = "passed"
     THEN Leave(pending \ Ready)
     ELSE /\ pending' = pending \ Ready
          /\ UNCHANGED <<task, cancelled, pc>>

\* asyncio.wait returns with some tasks finished.
Collect ==
  /\ pc = "wait" /\ Ready # {}
  /\ results' = results \cup {c \in Ready : task[c] = "answered"}
  /\ failures' = failures \cup {c \in Ready : task[c] = "failed"}
  /\ deadline' \in NextDeadline(results')
  /\ IF pending \ Ready = {} \/ deadline' = "passed"
     THEN Leave(pending \ Ready)
     ELSE /\ pending' = pending \ Ready
          /\ UNCHANGED <<task, cancelled, pc>>

\* Bug: asyncio.wait is given no time-out.
TimeOutNever ==
  /\ pc = "wait" /\ pending = {} /\ deadline = "passed"
  /\ Leave(pending)
  /\ UNCHANGED <<results, failures, deadline>>

\* asyncio.wait times out with nothing finished.
TimeOut ==
  /\ pc = "wait" /\ Ready = {} /\ deadline = "passed"
  /\ Leave(pending)
  /\ UNCHANGED <<results, failures, deadline>>

\* asyncio.gather of the cancelled tasks.
Reap ==
  /\ pc = "reap"
  /\ \A c \in pending : task[c] = "cancelled"
  /\ pc' = "returned"
  /\ UNCHANGED <<task, pending, results, failures, cancelled, deadline>>

\* The round needs two families if it has two routes.
Conclude ==
  /\ pc = "returned"
  /\ pc' = IF Cardinality(Call) >= 2 /\ Cardinality(Families(results)) < 2
           THEN "below" ELSE "rows"
  /\ UNCHANGED <<task, pending, results, failures, cancelled, deadline>>

\* The coroutine itself is cancelled at an await: asyncio.wait leaves its
\* tasks alone, asyncio.gather cancels them (they are being cancelled).
Abandon ==
  /\ pc \in {"wait", "reap"}
  /\ pc' = "abandoned"
  /\ UNCHANGED <<task, pending, results, failures, cancelled, deadline>>

Over == {"rows", "below", "abandoned"}

CallNext == \E c \in Call : Answer(c) \/ Fail(c) \/ EndCancelled(c)
GatherNext == Collect \/ TimeOut \/ Reap \/ Conclude
Next == CallNext \/ DeadlinePasses \/ GatherNext \/ Abandon

\* The loop runs what is ready and time passes; a cancelled task ends.  A call
\* need not ever answer (its time-outs are not relied on).
Spec == Init /\ [][Next]_vars
FairSpec ==
  /\ Spec
  /\ WF_vars(GatherNext) /\ WF_vars(DeadlinePasses)
  /\ \A c \in Call : WF_vars(EndCancelled(c))

-----------------------------------------------------------------------------
(* Properties.                                                             *)

\* Types; and asyncio.wait, which refuses an empty set, is never given one.
TypeOK ==
  /\ task \in [Call -> Finished \cup {"running", "cancelling", "cancelled"}]
  /\ pending \subseteq Call /\ results \subseteq Call
  /\ failures \subseteq Call /\ cancelled \subseteq Call
  /\ deadline \in {"none", "set", "passed"}
  /\ pc \in Over \cup {"wait", "reap", "returned"}
  /\ pc = "wait" => pending # {}

\* What is returned accounts for every call exactly once, by how its task
\* ended: no answer that was there is thrown away, and no task still runs
\* (routing.py:470-486).
Accounted ==
  pc \in {"returned", "rows", "below"} =>
    /\ results = {c \in Call : task[c] = "answered"}
    /\ failures = {c \in Call : task[c] = "failed"}
    /\ cancelled = {c \in Call : task[c] = "cancelled"}
    /\ results \cup failures \cup cancelled = Call

\* Nobody is cancelled before the required families have answered
\* (routing.py:476-480); hence a round that fails below quorum has waited for
\* every call (protocols.py:1420-1424).
CancelledAfterQuorum ==
  /\ cancelled # {} => Cardinality(Families(results)) >= Required
  /\ pc = "below" => cancelled = {}

\* Once the required families have answered the round ends, even if some call
\* never does (routing.py:461-469).
GraceEnds ==
  Cardinality(Families(results)) >= Required ~> pc \in Over
=============================================================================
