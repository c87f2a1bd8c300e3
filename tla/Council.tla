------------------------------ MODULE Council ------------------------------
(***************************************************************************)
(* One council run (protocols.py: CouncilEngine.run): from the preflight   *)
(* through hypotheses, the adaptive operations, the judges' ballots and    *)
(* the validation of a risky verdict to the finality certificate.  What a  *)
(* model answers is a choice; what the engine makes of the answers is not. *)
(* A step is a stage.  A stage pays one call for an answer, a second one   *)
(* when the answer had to be repaired; any stage may raise instead (Fail). *)
(* A claim stands for its stable id: of the labels behind it only how many *)
(* there are matters, and of those only none, one and more.                *)
(***************************************************************************)
EXTENDS Naturals, FiniteSets

CONSTANTS
  Claim,        \* what hypotheses may claim
  LoadBearing,  \* Claim.load_bearing
  Testable,     \* Claim.testable
  Cited,        \* claims with evidence_refs
  Admissible,   \* _claim_has_admissible_evidence
  Criteria,     \* criterion -> the claims that cover it
  Family,       \* provider families of the healthy routes
  JudgeFamily,  \* judge_route.family
  Alternates,   \* bound on len(alternate_routes)
  Repairs,      \* calls that repairing an answer may cost: 1
  Members,      \* seats of the council: 2 if quick, else 3
  Cap,          \* CallBudget.cap
  OperationCap, \* OPERATION_CAPS of the budget
  Choice,       \* (action, selected_candidate) of a ballot
  Request,      \* the requests that are looked at
  None          \* no claim, no operation

Kind == {"objective_answer", "review", "subjective_tradeoff", "safety_gate",
         "evidence_synthesis", "implementation"}
Operation == {"direct_judgment", "ranked_pairs", "higher_order_aggregate",
              "verify", "minority_defense", "sample", "targeted_rebuttal",
              "synthesize", "safety_validate", "blocked_escalation"}
\* Operations that add hypotheses, and those that end the deliberation.
Critics == {"targeted_rebuttal", "synthesize"}
Enough == {"direct_judgment", "ranked_pairs", "higher_order_aggregate"}

ASSUME ClaimAssumption == IsFiniteSet(Claim) /\ None \notin Claim \cup Operation
ASSUME AttributeAssumption ==
  /\ LoadBearing \subseteq Claim
  /\ Testable \subseteq Claim
  /\ Cited \subseteq Claim
  /\ Admissible \subseteq Cited
ASSUME CriteriaAssumption == \A k \in DOMAIN Criteria : Criteria[k] \subseteq Claim
ASSUME MembersAssumption == Members \in 2..3 /\ Alternates \in Nat
ASSUME RepairsAssumption == Repairs \in Nat
ASSUME CapAssumption == Cap \in Nat \ {0}
ASSUME OperationCapAssumption == OperationCap \in Nat

\* redTeam: mode red-team; calibrated: the calibration store holds enough
\* examples; learned: the operation with the best learned utility, or None;
\* commands: how many verification commands the user authorised.
RequestType ==
  [kind: Kind, redTeam: BOOLEAN, high: BOOLEAN, calibrated: BOOLEAN,
   learned: Operation \cup {None}, commands: Nat]
ASSUME RequestAssumption == Request \subseteq RequestType

VARIABLES
  request,     \* CouncilRequest with its TaskContract
  pc,          \* the stage the run is about to begin
  left,        \* remaining_calls()
  round,       \* operations_used
  alternates,  \* len(alternate_routes)
  stance,      \* claim -> how many labels support it, oppose it, are uncertain
  ledger,      \* ClaimLedger: unresolved, load_bearing_unresolved (flagged),
               \* blockers by what raised them, verification_status
  receipts,    \* verification receipts: what claim and its status; all are
               \* deterministic or of two verifiers' families
  votes,       \* the judges' ballots: how many, whether one had blockers, the
               \* latest ballot, the final one
  consistent,  \* JudgmentAssessment.consistent
  validation,  \* validate_high_risk: the validators, whether the verdict was
               \* revised, and who found no blocker in which of the two
  verdict      \* status, finality and what the certificate grants

vars == <<request, pc, left, round, alternates, stance, ledger, receipts,
          votes, consistent, validation, verdict>>

Blocker == {"reported", "falsified", "escalated", "no_route", "unverified",
            "generation", "coverage", "unresolved"}
Checked == {"supported", "falsified", "inconclusive"}
Stances == [support: 0..2, oppose: 0..1, uncertain: 0..1]
\* The claims that a ballot accepts and its scores are left to chance.
Ballot == [choice: Choice, blocked: BOOLEAN]
Ledger == [unresolved: SUBSET Claim, flagged: SUBSET LoadBearing,
           blockers: SUBSET Blocker, status: [Claim -> Checked \cup {"not_checked"}]]

----------------------------------------------------------------------------
\* The claim ledger.

Few(n, most) == IF n < most THEN n ELSE most

\* What n more hypotheses may say of one claim.
Said(n) == {s \in Stances : s.support + s.oppose + s.uncertain <= n}

Joined(s, t) ==
  [support |-> Few(s.support + t.support, 2),
   oppose |-> Few(s.oppose + t.oppose, 1),
   uncertain |-> Few(s.uncertain + t.uncertain, 1)]

Raised(s) == {c \in Claim : s[c].support + s[c].oppose + s[c].uncertain > 0}
Conflicts == {c \in Claim : stance[c].support > 0 /\ stance[c].oppose > 0}
Missing == Raised(stance) \ Cited

\* build_claim_ledger: from the hypotheses alone.
Built(s, reported) ==
  LET open == {c \in Claim : \/ s[c].support > 0 /\ s[c].oppose > 0
                             \/ s[c].uncertain > 0}
  IN [unresolved |-> open,
      flagged |-> open \cap LoadBearing,
      blockers |-> IF reported THEN {"reported"} ELSE {},
      status |-> [c \in Claim |-> "not_checked"]]

\* Bug: the blocker of a falsified claim forgotten.
AppliedMildly(l, result) ==
  LET open == (l.unresolved \ DOMAIN result)
                \cup {c \in DOMAIN result : result[c] = "inconclusive"}
  IN [unresolved |-> open,
      flagged |-> open \cap LoadBearing,
      blockers |-> l.blockers,
      status |-> [c \in Claim |-> IF c \in DOMAIN result THEN result[c]
                                  ELSE l.status[c]]]

\* apply_receipts: the ledger l after one receipt for each claim of result.
Applied(l, result) ==
  LET open == (l.unresolved \ DOMAIN result)
                \cup {c \in DOMAIN result : result[c] = "inconclusive"}
  IN [unresolved |-> open,
      flagged |-> open \cap LoadBearing,
      blockers |-> l.blockers \cup
        {"falsified" : c \in {d \in DOMAIN result \cap LoadBearing :
                                result[d] = "falsified"}},
      status |-> [c \in Claim |-> IF c \in DOMAIN result THEN result[c]
                                  ELSE l.status[c]]]

\* build_verification_plan: cited claims that nobody can test get no step.
Steps(claims) == {c \in claims : c \in Testable \/ c \notin Cited}

Receipt(c, status) == [claim |-> c, status |-> status]
Verified == {r.claim : r \in {q \in receipts : q.status = "supported"}}
Structural ==
  {c \in Raised(stance) \cap Admissible :
     stance[c].support > 0 /\ stance[c].oppose = 0}

----------------------------------------------------------------------------
\* Calls.

\* A stage of `asked` calls of which at least `answers` are answered leaves l.
After(l, answers, asked) ==
  {n \in 0..l : l - n \in answers..(asked + asked * Repairs)}

\* hypotheses, then normalize_claims, which is skipped when fewer than four
\* calls are left or there is no utility route, and falls back when it fails.
AfterHypotheses(l, rows, asked) ==
  UNION {After(n, 0, IF n >= 4 THEN 1 ELSE 0) : n \in After(l, rows, asked)}

\* Bug: the ledger takes blockers from the new hypotheses only.
AddHypothesesAlone(n) ==
  \E more \in [Claim -> Said(n)], reported \in BOOLEAN :
    /\ n = 0 => ~reported
    /\ stance' = [c \in Claim |-> Joined(stance[c], more[c])]
    /\ ledger' = Built(stance', reported)

\* hypotheses of n labels join the others, with blockers of their own or none,
\* and the ledger is built again.
AddHypotheses(n) ==
  \E more \in [Claim -> Said(n)], reported \in BOOLEAN :
    /\ n = 0 => ~reported
    /\ stance' = [c \in Claim |-> Joined(stance[c], more[c])]
    /\ ledger' = Built(stance', reported \/ "reported" \in ledger.blockers)

\* model_verifications of the steps of `claims`, applied to the ledger l when
\* n calls are left.  The engine decides a step by itself, or two verifiers
\* vote on it if there are two families and calls enough for all the votes
\* and two more; else the step has no receipt.  A vote may fail.
Verification(claims, l, n) ==
  \E engine \in SUBSET Steps(claims) :
    LET open == Cardinality(Steps(claims) \ engine)
    IN \E voted \in SUBSET (Steps(claims) \ engine) :
         /\ voted # {} => /\ n >= 4
                          /\ Cardinality(voted) = Few(open, (n - 2) \div 2)
         /\ \E result \in [engine \cup voted -> Checked] :
              LET decided == {c \in voted : result[c] # "inconclusive"}
              IN /\ left' \in After(n, 2 * Cardinality(decided),
                                    2 * Cardinality(voted))
                 /\ ledger' = Applied(l, result)
                 /\ receipts' = receipts \cup
                      {Receipt(c, result[c]) : c \in engine \cup voted}

----------------------------------------------------------------------------
\* From the preflight to the first ledger.

Mandatory == IF request.high THEN 4 ELSE 2
NoBallots == [count |-> 0, vetoed |-> FALSE, latest |-> None, final |-> None]

Init ==
  /\ request \in Request
  /\ pc = "preflight"
  /\ left = Cap
  /\ round = 0
  /\ alternates = 0
  /\ stance = [c \in Claim |-> [support |-> 0, oppose |-> 0, uncertain |-> 0]]
  /\ ledger = Built(stance, FALSE)
  /\ receipts = {}
  /\ votes = NoBallots
  /\ consistent = FALSE
  /\ validation = [validators |-> {}, passed |-> {}, revised |-> FALSE]
  /\ verdict = [status |-> "running", finality |-> "none", certificate |-> "none"]

Stage(now, next) == pc = now /\ pc' = next
Judged == <<votes, consistent, validation, verdict>>

\* preflight asks every candidate, the judge and the utility route whether
\* they are healthy; an unhealthy one costs nothing, and two families must be
\* left.  Then the task contract and, for sources, the evidence extraction.
Prepare ==
  /\ Stage("preflight", "hypotheses")
  /\ alternates' \in 0..Alternates
  /\ left' \in After(left, Members + alternates', Members + alternates' + 4)
  /\ UNCHANGED <<request, round, stance, ledger, receipts, Judged>>

\* The independent hypotheses; fewer than two families raise.
Propose ==
  /\ Stage("hypotheses", IF request.redTeam THEN "attacks" ELSE "commands")
  /\ \E n \in 2..Members : AddHypotheses(n) /\ left' \in AfterHypotheses(left, n, Members)
  /\ UNCHANGED <<request, round, alternates, receipts, Judged>>

\* Red-team: attacks, then defences; one ledger is built from all of them.
RedTeam ==
  /\ \/ Stage("attacks", "defenses")
     \/ Stage("defenses", "commands")
  /\ \E n \in 2..Members : AddHypotheses(n) /\ left' \in AfterHypotheses(left, n, Members)
  /\ UNCHANGED <<request, round, alternates, receipts, Judged>>

\* The user's commands: one for each claim that needs a step, in the order of
\* the ids; the commands that are left over verify no claim.  A command that
\* fails is no falsification, unless its output has the claim's falsifier.
Commands ==
  /\ Stage("commands", "operation")
  /\ LET eligible == Steps(Raised(stance)) IN
     \E covered \in SUBSET eligible :
       /\ Cardinality(covered) = Few(Cardinality(eligible), request.commands)
       /\ \E result \in [covered -> Checked], spare \in SUBSET {"supported", "inconclusive"} :
            /\ (spare # {}) <=> (request.commands > Cardinality(eligible))
            /\ ledger' = IF request.commands > 0 THEN Applied(ledger, result) ELSE ledger
            /\ receipts' = {Receipt(c, result[c]) : c \in covered} \cup
                           {Receipt(None, status) : status \in spare}
  /\ UNCHANGED <<request, left, round, alternates, stance, Judged>>

----------------------------------------------------------------------------
\* The adaptive operations.

Minority ==
  {c \in LoadBearing \cap ledger.unresolved : stance[c].support = 1}

\* choose_operation before it looks at learned effects: the first rule that
\* applies, given whether the approaches collapsed into one, whether there is
\* a healthy verifier, and whether the judge's route is unreliable.
ColdStart(collapsed, verifier, unreliable) ==
  LET material == \/ ledger.blockers # {} \/ Conflicts # {}
                  \/ ledger.flagged # {} \/ Missing # {}
      reserved == left <= Mandatory + 2
      testable == ledger.unresolved \cap Testable # {}
      rules == <<
        <<reserved /\ material, "blocked_escalation">>,
        <<reserved, "direct_judgment">>,
        <<testable /\ verifier, "verify">>,
        <<Minority # {}, "minority_defense">>,
        <<collapsed, "sample">>,
        <<request.kind = "subjective_tradeoff" /\ Conflicts # {}, "ranked_pairs">>,
        <<request.kind = "evidence_synthesis" /\ Conflicts # {}, "synthesize">>,
        <<request.kind = "safety_gate" /\ (ledger.blockers # {} \/ Conflicts # {}),
          "safety_validate">>,
        <<unreliable /\ Conflicts # {}, "higher_order_aggregate">>,
        <<Conflicts # {} /\ ~testable, "targeted_rebuttal">>,
        <<Missing # {} /\ verifier, "verify">>,
        <<Conflicts # {} \/ Missing # {}, "targeted_rebuttal">>,
        <<TRUE, "direct_judgment">> >>
      first == CHOOSE i \in DOMAIN rules :
                 rules[i][1] /\ \A j \in 1..(i - 1) : ~rules[j][1]
  IN rules[first][2]

\* A learned operation replaces the rules, the reserve included.
Operations ==
  IF request.learned # None THEN {request.learned}
  ELSE {ColdStart(collapsed, verifier, unreliable) :
          collapsed, verifier, unreliable \in BOOLEAN}

\* The loop has operations left; red-team has none.
MayOperate == round < (IF request.redTeam THEN 0 ELSE OperationCap)

Operate(operation, next) ==
  /\ Stage("operation", next)
  /\ MayOperate
  /\ operation \in Operations
  /\ round' = round + 1
  /\ UNCHANGED <<request, Judged>>

Escalate ==
  /\ Operate("blocked_escalation", "ballots")
  /\ ledger' = [ledger EXCEPT !.blockers = @ \cup {"escalated"}]
  /\ UNCHANGED <<left, alternates, stance, receipts>>

\* What ends the deliberation: an operation that calls for the judge, or no
\* operation left.
Suffice ==
  /\ \/ \E operation \in Enough : Operate(operation, "ballots")
     \/ /\ Stage("operation", "ballots")
        /\ ~MayOperate
        /\ UNCHANGED <<request, round, Judged>>
  /\ UNCHANGED <<left, alternates, stance, ledger, receipts>>

Verify ==
  /\ Operate("verify", "operation")
  /\ Verification(ledger.unresolved, ledger, left)
  /\ UNCHANGED <<alternates, stance>>

\* minority_defense: an advocate pleads, one of the majority names what would
\* refute it, and a claim that is not given up is verified.
Defend ==
  /\ Operate("minority_defense", "operation")
  /\ \/ UNCHANGED <<left, ledger, receipts>>
     \/ /\ left >= 3
        /\ \E c \in Minority, n \in After(left, 1, 2) :
             \/ /\ left' = n
                /\ ledger' = [ledger EXCEPT !.status[c] = "falsified"]
                /\ UNCHANGED receipts
             \/ LET kept == [ledger EXCEPT !.unresolved = @ \cup {c},
                                           !.flagged = @ \cup {c}]
                IN IF Steps({c}) = {}
                   THEN left' = n /\ ledger' = kept /\ UNCHANGED receipts
                   ELSE Verification({c}, kept, n)
  /\ UNCHANGED <<alternates, stance>>

\* One more hypothesis from an alternate route; it may fail.
Sample ==
  /\ Operate("sample", "operation")
  /\ alternates > 0
  /\ alternates' = alternates - 1
  /\ \E n \in 0..1 : AddHypotheses(n) /\ left' \in AfterHypotheses(left, n, 1)
  /\ UNCHANGED receipts

SampleNobody ==
  /\ Operate("sample", "ballots")
  /\ alternates = 0
  /\ ledger' = [ledger EXCEPT !.blockers = @ \cup {"no_route"}]
  /\ UNCHANGED <<left, alternates, stance, receipts>>

\* A risk analyst, if there is one, has the last word before the judge.
AnalyseRisk ==
  /\ Operate("safety_validate", "ballots")
  /\ \/ UNCHANGED <<left, stance, ledger>>
     \/ \E n \in 0..1 : AddHypotheses(n) /\ left' \in AfterHypotheses(left, n, 1)
  /\ UNCHANGED <<alternates, receipts>>

\* One critic, who may fail, or two, who both have to answer.
Criticise ==
  /\ \E operation \in Critics : Operate(operation, "operation")
  /\ \/ \E n \in 0..1 : AddHypotheses(n) /\ left' \in AfterHypotheses(left, n, 1)
     \/ AddHypotheses(2) /\ left' \in AfterHypotheses(left, 2, 2)
  /\ UNCHANGED <<alternates, receipts>>

----------------------------------------------------------------------------
\* Judgment.

\* judgment_assessment of two ballots: the scores of a criterion, or the
\* load-bearing claims they accept, may differ as well.
Assessments(b, d) == {FALSE, b = d}

Voted(b, final) ==
  [count |-> votes.count + 1, vetoed |-> votes.vetoed \/ b.blocked,
   latest |-> b, final |-> final]

Undecided == <<request, round, alternates, stance, ledger, receipts,
               validation, verdict>>

\* maybe_run_route_anchor, which may spend one call over the mandatory ones once
\* twenty are used, then the judge's ballots on the candidates in one order and
\* in reverse.
Mirror ==
  /\ Stage("ballots", "tiebreak")
  /\ \E first \in Ballot, second \in Ballot,
        n \in {left} \cup
              {l \in 0..left : l = left - 1 /\ left > Mandatory /\ Cap - left >= 20} :
       /\ left' \in After(n, 2, 2)
       /\ votes' = [count |-> 2, vetoed |-> first.blocked \/ second.blocked,
                    latest |-> second, final |-> first]
       /\ consistent' \in Assessments(first.choice, second.choice)
  /\ UNCHANGED Undecided

\* A judge of another family joins either ballot, or none.
Tiebreak ==
  /\ Stage("tiebreak", "adaptive")
  /\ ~consistent
  /\ left >= 2
  /\ left' \in After(left, 1, 1)
  /\ \E tie \in Ballot :
       LET second == tie.choice = votes.latest.choice
           first == tie.choice = votes.final.choice
       IN /\ votes' = Voted(tie, IF second /\ ~first THEN votes.latest ELSE votes.final)
          /\ consistent' = (first \/ second)
  /\ UNCHANGED Undecided

\* Bug: the limit of six ballots forgotten.
AdaptForever ==
  /\ Stage("adaptive", "adaptive")
  /\ ~consistent
  /\ left >= 2
  /\ left' \in After(left, 1, 1)
  /\ \E b \in Ballot : /\ votes' = Voted(b, votes.final)
                       /\ consistent' \in Assessments(votes.latest.choice, b.choice)
  /\ UNCHANGED Undecided

\* Ballots on the least certain pair until two in a row agree; the final
\* ballot stays what it was.
Adapt ==
  /\ Stage("adaptive", "adaptive")
  /\ ~consistent
  /\ votes.count < 6
  /\ left >= 2
  /\ left' \in After(left, 1, 1)
  /\ \E b \in Ballot : /\ votes' = Voted(b, votes.final)
                       /\ consistent' \in Assessments(votes.latest.choice, b.choice)
  /\ UNCHANGED Undecided

\* A ballot on a close pair is final whatever it says.
ClosePair ==
  /\ Stage("pair", "diagnosis")
  /\ votes.count < 6
  /\ left >= 2
  /\ left' \in After(left, 1, 1)
  /\ \E b \in Ballot : votes' = Voted(b, b)
  /\ UNCHANGED <<consistent, Undecided>>

\* No further ballot is called for, or nobody is there to give it.
Skip ==
  /\ \/ Stage("tiebreak", "adaptive")
     \/ Stage("adaptive", "pair")
     \/ Stage("pair", "diagnosis")
  /\ UNCHANGED <<left, votes, consistent, Undecided>>

\* aggregate_ballots, as far as blockers go; it has no eye for them where
\* preferences are ranked.
Aggregated ==
  LET blocked == /\ request.kind # "subjective_tradeoff"
                 /\ votes.vetoed \/ ledger.blockers # {}
  IN [votes EXCEPT !.final.blocked = @ \/ blocked]

Standing == LoadBearing \cap Raised(stance)
Unsupported == Standing \ (Verified \cup Structural)
Covered == \A k \in DOMAIN Criteria : Criteria[k] \cap Raised(stance) # {}

\* The blockers that follow from diagnose_failure_mode, from incomplete evidence
\* and from claims that neither a receipt nor a stance supports, given whether
\* the ballot left out all that was verified, and what it accepts.
Lacking(discarded, chosen) ==
  LET unverified == ~discarded /\ chosen \cap Unsupported # {}
      ungenerated == /\ ~discarded /\ ~unverified
                     /\ Standing \subseteq Unsupported /\ ~Covered
      complete == Covered /\ Standing # {} /\ Standing \subseteq Admissible
  IN {b \in {"unverified", "generation", "coverage", "unresolved"} :
        \/ b = "unverified" /\ unverified
        \/ b = "generation" /\ ungenerated
        \/ b = "coverage" /\ ~complete
        \/ b = "unresolved" /\ Unsupported # {}}

\* Bug: claims without support of any kind do not block.
DiagnoseMildly ==
  /\ Stage("diagnosis", IF request.high THEN "validators" ELSE "verdict")
  /\ votes' = Aggregated
  /\ UNCHANGED <<request, left, round, alternates, stance, ledger, receipts,
                 consistent, validation, verdict>>

Diagnose ==
  /\ Stage("diagnosis", IF request.high THEN "validators" ELSE "verdict")
  /\ votes' = Aggregated
  /\ \E discarded \in {FALSE, Verified # {}}, chosen \in SUBSET Raised(stance) :
       ledger' = [ledger EXCEPT !.flagged = @ \cup Unsupported,
                                !.blockers = @ \cup Lacking(discarded, chosen)]
  /\ UNCHANGED <<request, left, round, alternates, stance, receipts,
                 consistent, validation, verdict>>

----------------------------------------------------------------------------
\* Validation of a risky verdict.

Considered == <<request, round, alternates, stance, ledger, receipts,
                consistent, verdict>>

\* Two validators of two families, neither the judge's, or none.
ChooseValidators ==
  /\ \/ /\ Stage("validators", "validation")
        /\ \E v, w \in Family \ {JudgeFamily} :
             v # w /\ validation' = [validation EXCEPT !.validators = {v, w}]
     \/ Stage("validators", "verdict") /\ UNCHANGED validation
  /\ UNCHANGED <<left, votes, Considered>>

Passed == {receipt[1] : receipt \in validation.passed}

Validate ==
  /\ left' \in After(left, 1, 1)
  /\ \E v \in validation.validators \ Passed :
       LET passed == validation.passed \cup {<<v, validation.revised>>}
       IN /\ validation' = [validation EXCEPT !.passed = passed]
          /\ Stage("validation", IF Passed \cup {v} = validation.validators
                                 THEN "verdict" ELSE "validation")
  /\ UNCHANGED <<votes, Considered>>

\* Bug: the validator that has passed is not asked again.
ReviseForOne ==
  /\ Stage("validation", "validation")
  /\ ~validation.revised
  /\ \E n \in After(left, 1, 1) : n >= 4 /\ left' \in After(n, 1, 1)
  /\ validation' = [validation EXCEPT !.revised = TRUE]
  /\ \E more \in BOOLEAN : votes' = [votes EXCEPT !.final.blocked = @ \/ more]
  /\ UNCHANGED Considered

\* Bug: the revised verdict's blockers take the place of the ballot's.
ReviseAway ==
  /\ Stage("validation", "validation")
  /\ ~validation.revised
  /\ \E n \in After(left, 1, 1) : n >= 4 /\ left' \in After(n, 1, 1)
  /\ validation' = [validation EXCEPT !.revised = TRUE, !.passed = {}]
  /\ \E more \in BOOLEAN : votes' = [votes EXCEPT !.final.blocked = more]
  /\ UNCHANGED Considered

\* A validator finds a blocker: the judge revises the verdict, once and if the
\* calls allow, and both validators look at it again.
Revise ==
  /\ Stage("validation", "validation")
  /\ ~validation.revised
  /\ \E n \in After(left, 1, 1) : n >= 4 /\ left' \in After(n, 1, 1)
  /\ validation' = [validation EXCEPT !.revised = TRUE, !.passed = {}]
  /\ \E more \in BOOLEAN : votes' = [votes EXCEPT !.final.blocked = @ \/ more]
  /\ UNCHANGED Considered

Object ==
  /\ Stage("validation", "verdict")
  /\ left' \in After(left, 1, 1)
  /\ validation.revised \/ left' < 4
  /\ UNCHANGED <<validation, votes, Considered>>

----------------------------------------------------------------------------
\* The verdict.

Validated == validation.validators # {} /\ Passed = validation.validators

\* Deterministic or independent receipts stand behind every claim they are
\* about; nothing says that they are about all of them, or any.
Resolved ==
  /\ Unsupported = {}
  /\ receipts # {}
  /\ \A r \in receipts : r.claim \in Standing => r.status = "supported"

\* ballot_verdict, and what a risky verdict adds to it.
Blocked ==
  \/ votes.final.blocked \/ ledger.blockers # {}
  \/ ~consistent
  \/ request.high /\ ~Validated

\* selective_judgment, if the scores that may be calibrated are let alone.
Abstained ==
  /\ request.high \/ request.kind = "implementation"
  /\ ~request.calibrated /\ ~Resolved

\* The verdict, its finality and the certificate, which looks at what is
\* flagged as well.
Finish ==
  /\ Stage("verdict", "done")
  /\ LET commits == ~Blocked /\ ~Abstained
     IN verdict' =
          [status |-> IF Blocked THEN "blocked" ELSE "completed",
           finality |-> IF commits THEN "commit" ELSE "abort",
           certificate |-> IF commits /\ ledger.flagged = {}
                           THEN "commit" ELSE "abort"]
  /\ UNCHANGED <<request, left, round, alternates, stance, ledger, receipts,
                 votes, consistent, validation>>

\* An error that nobody catches, or the calls are used up.
Fail ==
  /\ pc # "done"
  /\ pc' = "done"
  /\ verdict' = [verdict EXCEPT !.status = "failed"]
  /\ UNCHANGED <<request, left, round, alternates, stance, ledger, receipts,
                 votes, consistent, validation>>

Next ==
  \/ Prepare \/ Propose \/ RedTeam \/ Commands
  \/ Escalate \/ Suffice \/ Verify \/ Defend \/ Sample \/ SampleNobody
  \/ AnalyseRisk \/ Criticise
  \/ Mirror \/ Tiebreak \/ Adapt \/ ClosePair \/ Skip \/ Diagnose
  \/ ChooseValidators \/ Validate \/ Revise \/ Object
  \/ Finish \/ Fail

Spec == Init /\ [][Next]_vars

----------------------------------------------------------------------------
\* Properties.

TypeOK ==
  /\ request \in Request
  /\ pc \in {"preflight", "hypotheses", "attacks", "defenses", "commands",
             "operation", "ballots", "tiebreak", "adaptive", "pair",
             "diagnosis", "validators", "validation", "verdict", "done"}
  /\ left \in 0..Cap
  /\ round \in 0..OperationCap
  /\ alternates \in 0..Alternates
  /\ stance \in [Claim -> Stances]
  /\ ledger \in Ledger
  /\ receipts \subseteq [claim: Claim \cup {None}, status: Checked]
  /\ votes \in [count: 0..6, vetoed: BOOLEAN, latest: Ballot \cup {None},
                final: Ballot \cup {None}]
  /\ consistent \in BOOLEAN
  /\ validation \in [validators: SUBSET Family, revised: BOOLEAN,
                     passed: SUBSET (Family \X BOOLEAN)]
  /\ verdict \in [status: {"running", "completed", "blocked", "failed"},
                  finality: {"none", "commit", "abort"},
                  certificate: {"none", "commit", "abort"}]

\* A certified verdict leaves no load-bearing claim open: one that somebody
\* opposes has been verified, the others have admissible evidence or were
\* verified, and the ledger has nothing unresolved (protocols.py:2541-2600).
CertifiedIsSupported ==
  verdict.certificate = "commit" =>
    /\ \A c \in Standing : \/ c \in Verified
                           \/ stance[c].oppose = 0 /\ c \in Admissible
    /\ ledger.unresolved \cap LoadBearing = {}
    /\ Standing # {} /\ Covered

\* A blocker that a judge names on any ballot keeps the run from completing,
\* whatever is revised afterwards; where preferences are ranked, only the
\* final ballot's counts (deliberation.py:345-348, protocols.py:2018, 2621).
VetoHolds ==
  verdict.status = "completed" =>
    ~votes.final.blocked /\ (votes.vetoed => request.kind = "subjective_tradeoff")

\* What hypotheses, the policy or a missing route blocked stays blocked until
\* the run ends, though operations build the ledger again.
BlockersStand ==
  [][ledger.blockers \ {"falsified"} \subseteq ledger'.blockers]_vars

\* A risky verdict is certified only if two families, neither the judge's,
\* found no blocker in the verdict as it is, the revised one if there is one.
ValidatedByOthers ==
  verdict.certificate = "commit" /\ request.high =>
    \E v, w \in Family \ {JudgeFamily} :
      /\ v # w
      /\ {<<v, validation.revised>>, <<w, validation.revised>>}
           \subseteq validation.passed

\* No verdict is certified over a load-bearing claim that the ledger shows as
\* falsified, by a receipt or by its own advocate.
FalsifiedEntryHolds ==
  verdict.certificate = "commit" =>
    \A c \in LoadBearing : ledger.status[c] # "falsified"

\* "External receipts ... dominate judge confidence" (references/protocol.md:
\* 143-144): no verdict is certified when a receipt falsified a load-bearing claim
\* and none supports it.
FalsifiedNeverCertified ==
  verdict.certificate = "commit" =>
    \A r \in receipts : r.status = "falsified" /\ r.claim \in LoadBearing
                          => r.claim \in Verified

\* "deterministic/independent evidence; otherwise `abort`" (README.md:112): a
\* risky verdict that nothing calibrates is certified only if some receipt
\* supports something.
ColdStartNeedsEvidence ==
  verdict.certificate = "commit" /\ request.high /\ ~request.calibrated =>
    Verified # {}
=============================================================================
