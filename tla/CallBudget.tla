----------------------------- MODULE CallBudget -----------------------------
(***************************************************************************)
(* The call ceiling of a run (transport.py: CallBudget, ProxyTransport.ask)*)
(* The coroutines of one event loop share one CallBudget: code between two *)
(* awaits is atomic, so a step here is what runs from one await to the     *)
(* next: the ceiling is looked at before the first post, and the call is   *)
(* charged when a good answer is back.  Callers ask again and again        *)
(* (protocols.py), up to MaxAsks times here.                               *)
(***************************************************************************)
EXTENDS Naturals, FiniteSets

CONSTANTS
  Caller,       \* coroutines that share the budget
  Cap,          \* CallBudget.cap
  MaxAttempts,  \* RetryPolicy.max_attempts
  MaxAsks       \* bound on the asks of one caller

ASSUME CallerAssumption == IsFiniteSet(Caller)
ASSUME CapAssumption == Cap \in Nat \ {0}          \* transport.py:136-137
ASSUME AttemptsAssumption == MaxAttempts \in Nat \ {0}
ASSUME AsksAssumption == MaxAsks \in Nat

VARIABLES
  used,      \* CallBudget.used
  dropped,   \* good answers thrown away because the ceiling was reached
  pc,        \* caller -> "idle", or the await it is suspended at: "answer"
             \* (client.post), "delay" (asyncio.sleep), "repack" (the callback)
  attempt,   \* caller -> the local `attempt`
  repacked,  \* caller -> the local `context_repacked`
  posts,     \* caller -> requests sent by its current or last ask
  answers,   \* caller -> answers its asks have returned
  asks       \* caller -> asks begun

vars == <<used, dropped, pc, attempt, repacked, posts, answers, asks>>

Init ==
  /\ used = 0
  /\ dropped = 0
  /\ pc = [c \in Caller |-> "idle"]
  /\ attempt = [c \in Caller |-> 0]
  /\ repacked = [c \in Caller |-> FALSE]
  /\ posts = [c \in Caller |-> 0]
  /\ answers = [c \in Caller |-> 0]
  /\ asks = [c \in Caller |-> 0]

\* The head of the loop: one more attempt, one more request.
Post(c) ==
  /\ pc' = [pc EXCEPT ![c] = "answer"]
  /\ attempt' = [attempt EXCEPT ![c] = @ + 1]
  /\ posts' = [posts EXCEPT ![c] = @ + 1]

Suspend(c, at) ==
  /\ pc' = [pc EXCEPT ![c] = at]
  /\ UNCHANGED <<attempt, repacked, posts>>

Return(c) == Suspend(c, "idle")

\* Bug: the check before the first request forgotten.
AskUnchecked(c) ==
  /\ pc[c] = "idle" /\ asks[c] < MaxAsks
  /\ asks' = [asks EXCEPT ![c] = @ + 1]
  /\ repacked' = [repacked EXCEPT ![c] = FALSE]
  /\ pc' = [pc EXCEPT ![c] = "answer"]
  /\ attempt' = [attempt EXCEPT ![c] = 1]
  /\ posts' = [posts EXCEPT ![c] = 1]
  /\ UNCHANGED <<used, dropped, answers>>

\* ask() up to its first await: ensure_available, or CallBudgetExceeded.
Ask(c) ==
  /\ pc[c] = "idle"
  /\ asks[c] < MaxAsks
  /\ asks' = [asks EXCEPT ![c] = @ + 1]
  /\ repacked' = [repacked EXCEPT ![c] = FALSE]
  /\ IF used < Cap
     THEN /\ pc' = [pc EXCEPT ![c] = "answer"]
          /\ attempt' = [attempt EXCEPT ![c] = 1]
          /\ posts' = [posts EXCEPT ![c] = 1]
     ELSE /\ attempt' = [attempt EXCEPT ![c] = 0]
          /\ posts' = [posts EXCEPT ![c] = 0]
          /\ UNCHANGED pc
  /\ UNCHANGED <<used, dropped, answers>>

\* A good answer: consume() charges it, or raises and the answer is lost.
Consume(c) ==
  /\ pc[c] = "answer"
  /\ IF used < Cap
     THEN /\ used' = used + 1
          /\ answers' = [answers EXCEPT ![c] = @ + 1]
          /\ UNCHANGED dropped
     ELSE /\ dropped' = dropped + 1
          /\ UNCHANGED <<used, answers>>
  /\ Return(c)
  /\ UNCHANGED asks

\* 400 for the context length: repack the prompt, once, without counting the attempt.
ContextTooLong(c) ==
  /\ pc[c] = "answer"
  /\ ~repacked[c]
  /\ pc' = [pc EXCEPT ![c] = "repack"]
  /\ repacked' = [repacked EXCEPT ![c] = TRUE]
  /\ attempt' = [attempt EXCEPT ![c] = @ - 1]
  /\ UNCHANGED <<posts, used, dropped, answers, asks>>

\* Bug: `<=` for `<` in the retry condition.
TryOnceTooOften(c) ==
  /\ pc[c] = "answer" /\ attempt[c] <= MaxAttempts
  /\ Suspend(c, "delay")
  /\ UNCHANGED <<used, dropped, answers, asks>>

\* A timeout, a broken connection, a 5xx: wait and try again, MaxAttempts in all.
TryLater(c) ==
  /\ pc[c] = "answer"
  /\ attempt[c] < MaxAttempts
  /\ Suspend(c, "delay")
  /\ UNCHANGED <<used, dropped, answers, asks>>

\* Bug: a coroutine that finds the ceiling reached after its delay is forgotten.
PostAgainIfAvailable(c) ==
  /\ pc[c] \in {"delay", "repack"} /\ used < Cap
  /\ Post(c)
  /\ UNCHANGED <<repacked, used, dropped, answers, asks>>

\* The delay or the repacking is over; the ceiling is not looked at again.
PostAgain(c) ==
  /\ pc[c] \in {"delay", "repack"}
  /\ Post(c)
  /\ UNCHANGED <<repacked, used, dropped, answers, asks>>

\* An error that is final: 429, another 4xx, a second context error, the last
\* attempt failed.
FinalError(c) ==
  /\ pc[c] = "answer"
  /\ Return(c)
  /\ UNCHANGED <<used, dropped, answers, asks>>

\* The caller cancels the coroutine (gather_with_quorum, bounded) at an await.
Cancel(c) ==
  /\ pc[c] # "idle"
  /\ Return(c)
  /\ UNCHANGED <<used, dropped, answers, asks>>

Step(c) == Consume(c) \/ ContextTooLong(c) \/ TryLater(c) \/ PostAgain(c) \/ FinalError(c)

Next == \E c \in Caller : Ask(c) \/ Step(c) \/ Cancel(c)

\* The client's timeout (120 s) ends every request, and delays end: a suspended
\* coroutine is resumed.  Nobody has to ask, or to cancel.
Spec == Init /\ [][Next]_vars /\ \A c \in Caller : WF_vars(Step(c))

-----------------------------------------------------------------------------
InFlight == {c \in Caller : pc[c] # "idle"}

\* Types of CallBudget and of the locals of ask (transport.py:134-165, 476-556).
TypeOK ==
  /\ used \in Nat /\ dropped \in Nat
  /\ pc \in [Caller -> {"idle", "answer", "delay", "repack"}]
  /\ attempt \in [Caller -> 0..MaxAttempts]
  /\ repacked \in [Caller -> BOOLEAN]
  /\ posts \in [Caller -> Nat]
  /\ answers \in [Caller -> Nat]
  /\ asks \in [Caller -> Nat]

\* The ledger is honest: never more charges than the ceiling, and an answer is
\* dropped only when the ceiling was really reached (transport.py:143-165).
Charged == used <= Cap /\ (dropped > 0 => used = Cap)

\* Concurrent asks that all passed the check before the ceiling was reached can
\* still be answered and paid for; but only those: what is over the ceiling, plus
\* what may still come, is less than the number of callers.
OvershootBounded ==
  used = Cap => dropped + Cardinality(InFlight) < Cardinality(Caller)

\* One ask sends at most MaxAttempts requests and one more after a repack, though
\* the repack takes back an attempt (transport.py:525-532).
PostsBounded ==
  \A c \in Caller : posts[c] <= MaxAttempts + 1

\* Every ask ends.
AsksEnd == \A c \in Caller : pc[c] # "idle" ~> pc[c] = "idle"
=============================================================================
