--------------------------- MODULE CouncilProofs ---------------------------
(***************************************************************************)
(* What holds of every council run, whatever the models answer, for every  *)
(* budget, family and claim.                                               *)
(***************************************************************************)
EXTENDS Council, TLAPS

Deliberating == {"preflight", "hypotheses", "attacks", "defenses", "commands",
                 "operation"}
Judging == {"tiebreak", "adaptive", "pair", "diagnosis"}
Concluding == {"validators", "validation", "verdict"}

\* What is kept of a load-bearing claim's fate, however the ledger changes.
Sound(l) ==
  /\ l \in Ledger
  /\ l.unresolved \cap LoadBearing \subseteq l.flagged
  /\ \A c \in LoadBearing :
       l.status[c] = "falsified" => "falsified" \in l.blockers \/ c \in l.unresolved

Complete == Covered /\ Standing # {} /\ Standing \subseteq Admissible

LEMMA BuiltSound ==
  ASSUME NEW s \in [Claim -> Stances], NEW reported \in BOOLEAN
  PROVE  /\ Sound(Built(s, reported))
         /\ Built(s, reported).blockers \subseteq {"reported"}
         /\ reported => "reported" \in Built(s, reported).blockers
BY AttributeAssumption DEF Built, Sound, Ledger, Blocker, Checked

LEMMA AppliedSound ==
  ASSUME NEW l, Sound(l), NEW D \in SUBSET Claim, NEW result \in [D -> Checked]
  PROVE  /\ Sound(Applied(l, result))
         /\ l.blockers \subseteq Applied(l, result).blockers
         /\ Applied(l, result).blockers \subseteq l.blockers \cup {"falsified"}
<1> DEFINE m == Applied(l, result)
<1>1. /\ l.unresolved \subseteq Claim /\ l.blockers \subseteq Blocker
      /\ l.status \in [Claim -> Checked \cup {"not_checked"}]
  BY DEF Sound, Ledger
<1>2. /\ m.unresolved = (l.unresolved \ D) \cup {c \in D : result[c] = "inconclusive"}
      /\ m.flagged = m.unresolved \cap LoadBearing
      /\ m.blockers = l.blockers \cup
           {"falsified" : c \in {d \in D \cap LoadBearing : result[d] = "falsified"}}
      /\ m.status = [c \in Claim |-> IF c \in D THEN result[c] ELSE l.status[c]]
      /\ m = [unresolved |-> m.unresolved, flagged |-> m.flagged,
              blockers |-> m.blockers, status |-> m.status]
  BY DEF Applied
<1>3. m.blockers \subseteq l.blockers \cup {"falsified"} /\ l.blockers \subseteq m.blockers
  BY <1>2
<1>4. m \in Ledger
  <2>1. m.unresolved \in SUBSET Claim
    BY <1>1, <1>2
  <2>2. m.flagged \in SUBSET LoadBearing
    BY <1>2
  <2>3. m.blockers \in SUBSET Blocker
    BY <1>1, <1>3 DEF Blocker
  <2>4. m.status \in [Claim -> Checked \cup {"not_checked"}]
    BY <1>1, <1>2
  <2> HIDE DEF m
  <2>5. QED BY <1>2, <2>1, <2>2, <2>3, <2>4 DEF Ledger
<1>5. ASSUME NEW c \in LoadBearing, m.status[c] = "falsified"
      PROVE  "falsified" \in m.blockers \/ c \in m.unresolved
  <2>1. c \in Claim
    BY AttributeAssumption
  <2>2. CASE c \in D
    BY <1>2, <1>5, <2>1, <2>2
  <2>3. CASE c \notin D
    <3>1. l.status[c] = "falsified"
      BY <1>2, <1>5, <2>1, <2>3
    <3>2. "falsified" \in l.blockers \/ c \in l.unresolved
      BY <3>1 DEF Sound
    <3> QED BY <1>2, <1>3, <2>3, <3>2
  <2> QED BY <2>2, <2>3
<1> HIDE DEF m
<1>6. Sound(m)
  BY <1>2, <1>4, <1>5 DEF Sound
<1> QED BY <1>3, <1>6 DEF m

LEMMA AfterWithin ==
  ASSUME NEW l \in 0..Cap, NEW answers \in Nat, NEW asked \in Nat, NEW n \in After(l, answers, asked)
  PROVE  n \in 0..Cap
BY CapAssumption DEF After

LEMMA AfterHypothesesWithin ==
  ASSUME NEW l \in 0..Cap, NEW rows \in Nat, NEW asked \in Nat,
         NEW n \in AfterHypotheses(l, rows, asked)
  PROVE  n \in 0..Cap
<1>1. PICK m \in After(l, rows, asked) : n \in After(m, 0, IF m >= 4 THEN 1 ELSE 0)
  BY DEF AfterHypotheses
<1>2. m \in 0..Cap
  BY AfterWithin
<1> QED BY <1>1, <1>2, AfterWithin

LEMMA AddHypothesesSound ==
  ASSUME NEW n, stance \in [Claim -> Stances], AddHypotheses(n)
  PROVE  /\ stance' \in [Claim -> Stances]
         /\ Sound(ledger')
         /\ ledger'.blockers \subseteq {"reported"}
         /\ "reported" \in ledger.blockers => "reported" \in ledger'.blockers
<1>1. PICK more \in [Claim -> Said(n)], reported \in BOOLEAN :
        /\ stance' = [c \in Claim |-> Joined(stance[c], more[c])]
        /\ ledger' = Built(stance', reported \/ "reported" \in ledger.blockers)
  BY DEF AddHypotheses
<1>2. ASSUME NEW s \in Stances, NEW t \in Stances
      PROVE  Joined(s, t) \in Stances
  BY <1>2 DEF Joined, Few, Stances
<1>3. \A c \in Claim : more[c] \in Stances
  BY DEF Said
<1>4. stance' \in [Claim -> Stances]
  BY <1>1, <1>2, <1>3
<1>5. (reported \/ "reported" \in ledger.blockers) \in BOOLEAN
  OBVIOUS
<1> QED BY <1>1, <1>4, <1>5, BuiltSound

LEMMA VerificationSound ==
  ASSUME NEW claims \in SUBSET Claim, NEW l, Sound(l), NEW n \in 0..Cap,
         receipts \subseteq [claim: Claim \cup {None}, status: Checked],
         Verification(claims, l, n)
  PROVE  /\ Sound(ledger')
         /\ l.blockers \subseteq ledger'.blockers
         /\ ledger'.blockers \subseteq l.blockers \cup {"falsified"}
         /\ receipts' \subseteq [claim: Claim \cup {None}, status: Checked]
         /\ receipts \subseteq receipts'
         /\ left' \in 0..Cap
<1>1. Steps(claims) \subseteq Claim
  BY DEF Steps
<1>2. PICK engine \in SUBSET Steps(claims) :
        \E voted \in SUBSET (Steps(claims) \ engine) :
          \E result \in [engine \cup voted -> Checked] :
            /\ left' \in After(n, 2 * Cardinality({c \in voted : result[c] # "inconclusive"}),
                              2 * Cardinality(voted))
            /\ ledger' = Applied(l, result)
            /\ receipts' = receipts \cup {Receipt(c, result[c]) : c \in engine \cup voted}
  BY ZenonT(30) DEF Verification
<1>3. PICK voted \in SUBSET (Steps(claims) \ engine) :
        \E result \in [engine \cup voted -> Checked] :
            /\ left' \in After(n, 2 * Cardinality({c \in voted : result[c] # "inconclusive"}),
                              2 * Cardinality(voted))
            /\ ledger' = Applied(l, result)
            /\ receipts' = receipts \cup {Receipt(c, result[c]) : c \in engine \cup voted}
  BY <1>2
<1>4. PICK result \in [engine \cup voted -> Checked] :
        /\ left' \in 0..n
        /\ ledger' = Applied(l, result)
        /\ receipts' = receipts \cup {Receipt(c, result[c]) : c \in engine \cup voted}
  BY <1>3 DEF After
<1>5. engine \cup voted \in SUBSET Claim
  BY <1>1
<1>6. {Receipt(c, result[c]) : c \in engine \cup voted}
        \subseteq [claim: Claim \cup {None}, status: Checked]
  BY <1>5 DEF Receipt
<1>7. left' \in 0..Cap
  BY <1>4, CapAssumption
<1> QED BY <1>4, <1>5, <1>6, <1>7, AppliedSound

----------------------------------------------------------------------------
\* Types.

TypeInv ==
  /\ TypeOK
  /\ Sound(ledger)
  /\ pc \in Judging \cup Concluding => votes.latest \in Ballot /\ votes.final \in Ballot
  /\ pc = "tiebreak" => votes.count = 2

LEMMA InitTypes == Init => TypeInv
<1> SUFFICES ASSUME Init PROVE TypeInv
  OBVIOUS
<1>1. stance \in [Claim -> Stances]
  BY DEF Init, Stances
<1>2. Sound(ledger)
  BY <1>1, BuiltSound DEF Init
<1>3. votes \in [count: 0..6, vetoed: BOOLEAN, latest: Ballot \cup {None},
                 final: Ballot \cup {None}]
  <2>1. None \in Ballot \cup {None}
    OBVIOUS
  <2>2. votes = NoBallots
    BY DEF Init
  <2> QED BY <2>1, <2>2, SMTT(30) DEF NoBallots
<1>4. /\ validation \in [validators: SUBSET Family, revised: BOOLEAN,
                         passed: SUBSET (Family \X BOOLEAN)]
      /\ verdict \in [status: {"running", "completed", "blocked", "failed"},
                      finality: {"none", "commit", "abort"},
                      certificate: {"none", "commit", "abort"}]
  BY DEF Init
<1>5. left \in 0..Cap /\ round \in 0..OperationCap /\ alternates \in 0..Alternates
  BY CapAssumption, MembersAssumption, OperationCapAssumption DEF Init
<1>6. /\ request \in Request /\ pc = "preflight" /\ consistent \in BOOLEAN
      /\ receipts \subseteq [claim: Claim \cup {None}, status: Checked]
  BY DEF Init
<1>7. TypeOK
  BY <1>1, <1>2, <1>3, <1>4, <1>5, <1>6 DEF TypeOK, Sound
<1> QED BY <1>2, <1>7 DEF Init, TypeInv, Judging, Concluding

\* The stages that only read, spend calls and write stance, ledger and receipts.
LEMMA DeliberationTypes ==
  ASSUME TypeInv, Sound(ledger'), left' \in 0..Cap, round' \in 0..OperationCap,
         alternates' \in 0..Alternates, stance' \in [Claim -> Stances],
         receipts' \subseteq [claim: Claim \cup {None}, status: Checked],
         pc' \in Deliberating \cup {"ballots"},
         UNCHANGED <<request, Judged>>
  PROVE  TypeInv'
<1>1. TypeOK'
  BY DEF TypeInv, TypeOK, Sound, Judged, Deliberating
<1>2. Sound(ledger)'
  BY DEF Sound, Ledger
<1> QED BY <1>1, <1>2 DEF TypeInv, Judging, Concluding, Deliberating

LEMMA OperateTypes ==
  ASSUME TypeInv, NEW operation, NEW next, Operate(operation, next)
  PROVE  round' \in 0..OperationCap /\ pc' = next /\ UNCHANGED <<request, Judged>>
BY OperationCapAssumption DEF Operate, Stage, MayOperate, TypeInv, TypeOK

LEMMA PrepareTypes ==
  ASSUME TypeInv, Prepare PROVE TypeInv'
<1>1. left' \in 0..Cap
  BY AfterWithin, MembersAssumption DEF Prepare, TypeInv, TypeOK
<1> QED BY <1>1, DeliberationTypes DEF Prepare, Stage, TypeInv, TypeOK, Deliberating
LEMMA HypothesesTypes ==
  ASSUME TypeInv, NEW n, AddHypotheses(n)
  PROVE  Sound(ledger') /\ stance' \in [Claim -> Stances]
BY AddHypothesesSound DEF TypeInv, TypeOK

LEMMA ProposeTypes ==
  ASSUME TypeInv, Propose \/ RedTeam PROVE TypeInv'
<1>1. PICK n \in 2..Members : AddHypotheses(n) /\ left' \in AfterHypotheses(left, n, Members)
  BY DEF Propose, RedTeam
<1>2. n \in Nat /\ Members \in Nat
  BY MembersAssumption
<1>3. left' \in 0..Cap
  BY <1>1, <1>2, AfterHypothesesWithin DEF TypeInv, TypeOK
<1>4. /\ pc' \in Deliberating
      /\ UNCHANGED <<request, round, alternates, receipts, Judged>>
  BY DEF Propose, RedTeam, Stage, Deliberating
<1> QED
  BY <1>1, <1>3, <1>4, HypothesesTypes, DeliberationTypes DEF TypeInv, TypeOK

LEMMA CommandsTypes ==
  ASSUME TypeInv, Commands
  PROVE  TypeInv' /\ ledger'.blockers \subseteq ledger.blockers \cup {"falsified"}
                  /\ ledger.blockers \subseteq ledger'.blockers
<1>1. PICK covered \in SUBSET Steps(Raised(stance)) :
        \E result \in [covered -> Checked], spare \in SUBSET {"supported", "inconclusive"} :
          /\ ledger' = IF request.commands > 0 THEN Applied(ledger, result) ELSE ledger
          /\ receipts' = {Receipt(c, result[c]) : c \in covered} \cup
                         {Receipt(None, status) : status \in spare}
  BY DEF Commands
<1>2. PICK result \in [covered -> Checked], spare \in SUBSET {"supported", "inconclusive"} :
          /\ ledger' = IF request.commands > 0 THEN Applied(ledger, result) ELSE ledger
          /\ receipts' = {Receipt(c, result[c]) : c \in covered} \cup
                         {Receipt(None, status) : status \in spare}
  BY <1>1
<1>3. covered \in SUBSET Claim
  BY DEF Steps, Raised
<1>4. receipts' \subseteq [claim: Claim \cup {None}, status: Checked]
  BY <1>2, <1>3 DEF Receipt, Checked
<1>5. /\ Sound(ledger')
      /\ ledger'.blockers \subseteq ledger.blockers \cup {"falsified"}
      /\ ledger.blockers \subseteq ledger'.blockers
  BY <1>2, <1>3, AppliedSound DEF TypeInv
<1> QED
  BY <1>4, <1>5, DeliberationTypes
  DEF Commands, Stage, Deliberating, TypeInv, TypeOK, Judged

LEMMA EnoughTypes ==
  ASSUME TypeInv, Suffice PROVE TypeInv'
<1>1. /\ round' \in 0..OperationCap
      /\ pc' = "ballots"
      /\ UNCHANGED <<request, Judged>>
  BY OperateTypes DEF Suffice, Stage, TypeInv, TypeOK
<1> QED
  BY <1>1, DeliberationTypes DEF Suffice, TypeInv, TypeOK

\* A blocker that is not about a claim leaves the ledger sound.
LEMMA BlockedSound ==
  ASSUME NEW l, Sound(l), NEW more \in SUBSET Blocker
  PROVE  Sound([l EXCEPT !.blockers = @ \cup more])
<1> DEFINE m == [l EXCEPT !.blockers = @ \cup more]
<1>1. l \in Ledger
  BY DEF Sound
<1>2. /\ m.blockers = l.blockers \cup more
      /\ m.unresolved = l.unresolved
      /\ m.flagged = l.flagged
      /\ m.status = l.status
      /\ m \in Ledger
  BY <1>1 DEF Ledger
<1> HIDE DEF m
<1>3. Sound(m)
  BY <1>2 DEF Sound
<1> QED BY <1>3 DEF m

LEMMA StuckTypes ==
  ASSUME TypeInv, Escalate \/ SampleNobody PROVE TypeInv'
<1>1. /\ round' \in 0..OperationCap
      /\ pc' = "ballots"
      /\ UNCHANGED <<request, Judged>>
  BY OperateTypes DEF Escalate, SampleNobody
<1>2. Sound(ledger')
  <2>1. \A more \in SUBSET Blocker : Sound([ledger EXCEPT !.blockers = @ \cup more])
    BY BlockedSound DEF TypeInv
  <2>2. {"escalated"} \in SUBSET Blocker /\ {"no_route"} \in SUBSET Blocker
    BY DEF Blocker
  <2> QED BY <2>1, <2>2 DEF Escalate, SampleNobody
<1> QED
  BY <1>1, <1>2, DeliberationTypes DEF Escalate, SampleNobody, TypeInv, TypeOK

LEMMA VerifyTypes ==
  ASSUME TypeInv, Verify
  PROVE  TypeInv' /\ ledger'.blockers \subseteq ledger.blockers \cup {"falsified"}
                  /\ ledger.blockers \subseteq ledger'.blockers
<1>1. /\ round' \in 0..OperationCap
      /\ pc' = "operation"
      /\ UNCHANGED <<request, Judged>>
  BY OperateTypes DEF Verify
<1>2. ledger.unresolved \in SUBSET Claim
  BY DEF TypeInv, Sound, Ledger
<1>3. /\ Sound(ledger')
      /\ ledger'.blockers \subseteq ledger.blockers \cup {"falsified"}
      /\ ledger.blockers \subseteq ledger'.blockers
      /\ receipts' \subseteq [claim: Claim \cup {None}, status: Checked]
      /\ left' \in 0..Cap
  BY <1>2, VerificationSound DEF Verify, TypeInv, TypeOK
<1> QED
  BY <1>1, <1>3, DeliberationTypes DEF Verify, TypeInv, TypeOK, Deliberating

\* The claim whose advocate gives it up stays on the list of the unresolved.
LEMMA GivenUpSound ==
  ASSUME NEW l, Sound(l), NEW c \in l.unresolved
  PROVE  Sound([l EXCEPT !.status[c] = "falsified"])
<1> DEFINE m == [l EXCEPT !.status[c] = "falsified"]
<1>1. l \in Ledger /\ c \in Claim
  BY DEF Sound, Ledger
<1>2. /\ m.blockers = l.blockers
      /\ m.unresolved = l.unresolved
      /\ m.flagged = l.flagged
      /\ m.status = [l.status EXCEPT ![c] = "falsified"]
      /\ m \in Ledger
  BY <1>1 DEF Ledger, Checked
<1> HIDE DEF m
<1>3. \A d \in LoadBearing : d # c => m.status[d] = l.status[d]
  BY <1>1, <1>2, AttributeAssumption DEF Ledger
<1>4. Sound(m)
  BY <1>2, <1>3 DEF Sound
<1> QED BY <1>4 DEF m

LEMMA KeptSound ==
  ASSUME NEW l, Sound(l), NEW c \in LoadBearing
  PROVE  Sound([l EXCEPT !.unresolved = @ \cup {c}, !.flagged = @ \cup {c}])
<1> DEFINE m == [l EXCEPT !.unresolved = @ \cup {c}, !.flagged = @ \cup {c}]
<1>1. l \in Ledger /\ c \in Claim
  BY AttributeAssumption DEF Sound
<1>2. /\ m.blockers = l.blockers
      /\ m.unresolved = l.unresolved \cup {c}
      /\ m.flagged = l.flagged \cup {c}
      /\ m.status = l.status
      /\ m \in Ledger
  BY <1>1 DEF Ledger
<1> HIDE DEF m
<1>3. Sound(m)
  BY <1>2 DEF Sound
<1> QED BY <1>3 DEF m

LEMMA DefendTypes ==
  ASSUME TypeInv, Defend
  PROVE  TypeInv' /\ ledger'.blockers \subseteq ledger.blockers \cup {"falsified"}
                  /\ ledger.blockers \subseteq ledger'.blockers
<1>1. /\ round' \in 0..OperationCap
      /\ pc' = "operation"
      /\ UNCHANGED <<request, Judged>>
  BY OperateTypes DEF Defend
<1>2. /\ Sound(ledger) /\ ledger \in Ledger
      /\ left \in 0..Cap
      /\ receipts \subseteq [claim: Claim \cup {None}, status: Checked]
  BY DEF TypeInv, TypeOK, Sound
<1> DEFINE Kept(c) == [ledger EXCEPT !.unresolved = @ \cup {c}, !.flagged = @ \cup {c}]
<1>3. /\ Sound(ledger')
      /\ ledger'.blockers \subseteq ledger.blockers \cup {"falsified"}
      /\ ledger.blockers \subseteq ledger'.blockers
      /\ receipts' \subseteq [claim: Claim \cup {None}, status: Checked]
      /\ left' \in 0..Cap
  <2>1. CASE UNCHANGED <<left, ledger, receipts>>
    BY <1>2, <2>1
  <2>2. CASE ~UNCHANGED <<left, ledger, receipts>>
    <3>1. PICK c \in Minority, n \in After(left, 1, 2) :
            \/ /\ left' = n
               /\ ledger' = [ledger EXCEPT !.status[c] = "falsified"]
               /\ UNCHANGED receipts
            \/ left' = n /\ ledger' = Kept(c) /\ UNCHANGED receipts
            \/ Verification({c}, Kept(c), n)
      BY <2>2 DEF Defend
    <3>2. c \in LoadBearing /\ c \in ledger.unresolved /\ c \in Claim /\ n \in 0..Cap
      BY <1>2, AfterWithin, AttributeAssumption DEF Minority
    <3>3. Sound(Kept(c)) /\ Kept(c).blockers = ledger.blockers
      BY <1>2, <3>2, KeptSound DEF Ledger
    <3> HIDE DEF Kept
    <3>4. CASE /\ left' = n
               /\ ledger' = [ledger EXCEPT !.status[c] = "falsified"]
               /\ UNCHANGED receipts
      <4>1. ledger'.blockers = ledger.blockers
        BY <1>2, <3>4 DEF Ledger
      <4> QED BY <1>2, <3>2, <3>4, <4>1, GivenUpSound
    <3>5. CASE left' = n /\ ledger' = Kept(c) /\ UNCHANGED receipts
      BY <1>2, <3>2, <3>3, <3>5
    <3>6. CASE Verification({c}, Kept(c), n)
      <4>1. {c} \in SUBSET Claim
        BY <3>2
      <4> QED BY <1>2, <3>2, <3>3, <3>6, <4>1, VerificationSound
    <3> QED BY <3>1, <3>4, <3>5, <3>6
  <2> QED BY <2>1, <2>2
<1> QED
  BY <1>1, <1>3, DeliberationTypes DEF Defend, TypeInv, TypeOK, Deliberating

LEMMA CriticiseTypes ==
  ASSUME TypeInv, Sample \/ AnalyseRisk \/ Criticise PROVE TypeInv'
<1>1. /\ round' \in 0..OperationCap
      /\ pc' \in {"operation", "ballots"}
      /\ UNCHANGED <<request, Judged>>
  BY OperateTypes DEF Sample, AnalyseRisk, Criticise
<1>2. /\ Sound(ledger') /\ stance' \in [Claim -> Stances]
      /\ left' \in 0..Cap
  <2>1. CASE UNCHANGED <<left, stance, ledger>>
    BY <2>1 DEF TypeInv, TypeOK
  <2>2. CASE ~UNCHANGED <<left, stance, ledger>>
    <3>1. PICK n \in 0..2, asked \in 1..2 :
            AddHypotheses(n) /\ left' \in AfterHypotheses(left, n, asked)
      BY <2>2 DEF Sample, AnalyseRisk, Criticise
    <3>2. n \in Nat /\ asked \in Nat
      OBVIOUS
    <3> QED BY <3>1, <3>2, HypothesesTypes, AfterHypothesesWithin DEF TypeInv, TypeOK
  <2> QED BY <2>1, <2>2
<1>3. alternates' \in 0..Alternates
  BY MembersAssumption DEF Sample, AnalyseRisk, Criticise, TypeInv, TypeOK
<1>4. UNCHANGED receipts
  BY DEF Sample, AnalyseRisk, Criticise
<1> QED
  BY <1>1, <1>2, <1>3, <1>4, DeliberationTypes DEF TypeInv, TypeOK, Deliberating

\* The stages in which ballots are cast.
LEMMA BallotTypes ==
  ASSUME TypeInv, left' \in 0..Cap, consistent' \in BOOLEAN,
         votes' \in [count: 0..6, vetoed: BOOLEAN, latest: Ballot, final: Ballot],
         pc' \in {"tiebreak", "adaptive", "pair", "diagnosis"},
         pc' = "tiebreak" => votes'.count = 2,
         UNCHANGED Undecided
  PROVE  TypeInv'
<1>1. TypeOK'
  BY DEF TypeInv, TypeOK, Undecided
<1>2. UNCHANGED ledger /\ votes'.latest \in Ballot /\ votes'.final \in Ballot
  BY DEF Undecided
<1> QED BY <1>1, <1>2 DEF TypeInv, Sound, Ledger

LEMMA VotesTyped ==
  ASSUME TypeInv, pc \in Judging \cup Concluding
  PROVE  /\ votes \in [count: 0..6, vetoed: BOOLEAN, latest: Ballot, final: Ballot]
         /\ pc = "tiebreak" => votes.count = 2
BY DEF TypeInv, TypeOK

LEMMA MirrorTypes ==
  ASSUME TypeInv, Mirror
  PROVE  TypeInv'
<1>1. PICK first \in Ballot, second \in Ballot,
           n \in {left} \cup
              {l \in 0..left : l = left - 1 /\ left > Mandatory /\ Cap - left >= 20} :
        /\ left' \in After(n, 2, 2)
        /\ votes' = [count |-> 2, vetoed |-> first.blocked \/ second.blocked,
                     latest |-> second, final |-> first]
        /\ consistent' \in Assessments(first.choice, second.choice)
  BY DEF Mirror
<1>2. n \in 0..Cap
  BY CapAssumption DEF TypeInv, TypeOK
<1>3. left' \in 0..Cap
  BY <1>1, <1>2, AfterWithin
<1>4. consistent' \in BOOLEAN
  BY <1>1 DEF Assessments
<1>5. (first.blocked \/ second.blocked) \in BOOLEAN
  OBVIOUS
<1>6. /\ votes' \in [count: 0..6, vetoed: BOOLEAN, latest: Ballot, final: Ballot]
      /\ votes'.count = 2
  <2>1. 2 \in 0..6
    OBVIOUS
  <2>2. votes' \in [count: 0..6, vetoed: BOOLEAN, latest: Ballot, final: Ballot]
    BY <1>1, <1>5, <2>1, Zenon
  <2>3. votes'.count = 2
    BY <1>1
  <2> QED BY <2>2, <2>3
<1> QED BY <1>3, <1>4, <1>6, BallotTypes DEF Mirror, Stage

LEMMA VotedTyped ==
  ASSUME votes \in [count: 0..6, vetoed: BOOLEAN, latest: Ballot, final: Ballot],
         votes.count < 6, NEW b \in Ballot, NEW final \in Ballot
  PROVE  Voted(b, final) \in [count: 0..6, vetoed: BOOLEAN, latest: Ballot, final: Ballot]
<1>1. (votes.vetoed \/ b.blocked) \in BOOLEAN
  OBVIOUS
<1>2. votes.count + 1 \in 0..6
  OBVIOUS
<1> QED BY <1>1, <1>2 DEF Voted

LEMMA TiebreakTypes ==
  ASSUME TypeInv, Tiebreak PROVE TypeInv'
<1>1. pc = "tiebreak" /\ pc' = "adaptive" /\ UNCHANGED Undecided
  BY DEF Tiebreak, Stage
<1>2. /\ votes \in [count: 0..6, vetoed: BOOLEAN, latest: Ballot, final: Ballot]
      /\ votes.count < 6
  BY <1>1, VotesTyped DEF Judging
<1>3. left' \in 0..Cap
  BY AfterWithin DEF Tiebreak, TypeInv, TypeOK
<1>4. PICK tie \in Ballot, final \in {votes.latest, votes.final} :
        votes' = Voted(tie, final) /\ consistent' \in BOOLEAN
  BY DEF Tiebreak
<1>5. votes' \in [count: 0..6, vetoed: BOOLEAN, latest: Ballot, final: Ballot]
  <2>1. final \in Ballot
    BY <1>2
  <2> QED BY <1>2, <1>4, <2>1, VotedTyped
<1> QED BY <1>1, <1>3, <1>4, <1>5, BallotTypes

LEMMA AdaptTypes ==
  ASSUME TypeInv, Adapt \/ ClosePair PROVE TypeInv'
<1>1. /\ pc \in Judging /\ pc' \in {"adaptive", "diagnosis"}
      /\ UNCHANGED Undecided
      /\ votes.count < 6
  BY DEF Adapt, ClosePair, Stage, Judging
<1>2. votes \in [count: 0..6, vetoed: BOOLEAN, latest: Ballot, final: Ballot]
  BY <1>1, VotesTyped
<1>3. left' \in 0..Cap
  BY AfterWithin DEF Adapt, ClosePair, TypeInv, TypeOK
<1>4. consistent' \in BOOLEAN
  BY DEF Adapt, ClosePair, Assessments, TypeInv, TypeOK
<1>5. PICK b \in Ballot : votes' = Voted(b, votes.final) \/ votes' = Voted(b, b)
  BY DEF Adapt, ClosePair
<1>6. votes' \in [count: 0..6, vetoed: BOOLEAN, latest: Ballot, final: Ballot]
  BY <1>1, <1>2, <1>5, VotedTyped
<1> QED BY <1>1, <1>3, <1>4, <1>6, BallotTypes

LEMMA SkipTypes ==
  ASSUME TypeInv, Skip PROVE TypeInv'
<1>1. /\ pc \in Judging /\ pc' \in {"adaptive", "pair", "diagnosis"}
      /\ UNCHANGED <<left, votes, consistent, Undecided>>
  BY DEF Skip, Stage, Judging
<1> QED BY <1>1, VotesTyped, BallotTypes DEF TypeInv, TypeOK

\* Only the final ballot of the votes may gain a blocker.
LEMMA AggregatedTyped ==
  ASSUME votes \in [count: 0..6, vetoed: BOOLEAN, latest: Ballot, final: Ballot],
         NEW more \in BOOLEAN
  PROVE  LET v == [votes EXCEPT !.final.blocked = @ \/ more]
         IN /\ v \in [count: 0..6, vetoed: BOOLEAN, latest: Ballot, final: Ballot]
            /\ v.vetoed = votes.vetoed
            /\ v.final.blocked = (votes.final.blocked \/ more)
<1> DEFINE v == [votes EXCEPT !.final.blocked = @ \/ more]
           f == [votes.final EXCEPT !.blocked = @ \/ more]
<1>1. (votes.final.blocked \/ more) \in BOOLEAN
  BY DEF Ballot
<1>2. f \in Ballot /\ f.blocked = (votes.final.blocked \/ more)
  BY <1>1 DEF Ballot
<1>3. v = [votes EXCEPT !.final = f]
  OBVIOUS
<1> HIDE DEF f
<1> QED BY <1>2, <1>3

\* What the diagnosis makes of the ledger.
LEMMA DiagnoseLedger ==
  ASSUME TypeInv, Diagnose
  PROVE  /\ Sound(ledger')
         /\ ledger.blockers \subseteq ledger'.blockers
         /\ Unsupported \subseteq ledger'.flagged
         /\ ledger'.unresolved = ledger.unresolved
         /\ Unsupported = {} \/ "unresolved" \in ledger'.blockers
         /\ Complete \/ "coverage" \in ledger'.blockers
<1>1. PICK more \in SUBSET Blocker :
        /\ ledger' = [ledger EXCEPT !.flagged = @ \cup Unsupported, !.blockers = @ \cup more]
        /\ Unsupported = {} \/ "unresolved" \in more
        /\ Complete \/ "coverage" \in more
  <2>1. PICK discarded \in {FALSE, Verified # {}}, chosen \in SUBSET Raised(stance) :
          ledger' = [ledger EXCEPT !.flagged = @ \cup Unsupported,
                                   !.blockers = @ \cup Lacking(discarded, chosen)]
    BY DEF Diagnose
  <2>2. /\ Unsupported = {} \/ "unresolved" \in Lacking(discarded, chosen)
        /\ Complete \/ "coverage" \in Lacking(discarded, chosen)
        /\ Lacking(discarded, chosen) \in SUBSET Blocker
    BY DEF Lacking, Complete, Blocker
  <2> QED BY <2>1, <2>2
<1>2. ledger \in Ledger /\ Unsupported \subseteq LoadBearing
  BY DEF TypeInv, Sound, Unsupported, Standing
<1>3. /\ ledger'.unresolved = ledger.unresolved
      /\ ledger'.status = ledger.status
      /\ ledger'.blockers = ledger.blockers \cup more
      /\ ledger'.flagged = ledger.flagged \cup Unsupported
      /\ ledger' \in Ledger
  BY <1>1, <1>2 DEF Ledger
<1>4. Sound(ledger')
  BY <1>3 DEF Sound, TypeInv
<1> QED BY <1>1, <1>3, <1>4

LEMMA DiagnoseTypes ==
  ASSUME TypeInv, Diagnose
  PROVE  /\ TypeInv'
         /\ votes'.vetoed = votes.vetoed
         /\ votes.vetoed /\ request.kind # "subjective_tradeoff" => votes'.final.blocked
<1>1. /\ pc = "diagnosis" /\ pc' \in Concluding
      /\ votes' = Aggregated
      /\ UNCHANGED <<request, left, round, alternates, stance, receipts,
                     consistent, validation, verdict>>
  BY DEF Diagnose, Stage, Concluding
<1> DEFINE blocked == request.kind # "subjective_tradeoff"
                      /\ (votes.vetoed \/ ledger.blockers # {})
<1>2. blocked \in BOOLEAN
  OBVIOUS
<1>3. votes' = [votes EXCEPT !.final.blocked = @ \/ blocked]
  BY <1>1 DEF Aggregated
<1>4. votes.vetoed /\ request.kind # "subjective_tradeoff" => blocked
  OBVIOUS
<1> HIDE DEF blocked
<1>5. votes \in [count: 0..6, vetoed: BOOLEAN, latest: Ballot, final: Ballot]
  BY <1>1, VotesTyped DEF Judging
<1>6. /\ votes' \in [count: 0..6, vetoed: BOOLEAN, latest: Ballot, final: Ballot]
      /\ votes'.vetoed = votes.vetoed
      /\ votes'.final.blocked = (votes.final.blocked \/ blocked)
  BY <1>2, <1>3, <1>5, AggregatedTyped
<1>7. Sound(ledger')
  BY DiagnoseLedger
<1>8. TypeOK'
  BY <1>1, <1>6, <1>7 DEF TypeInv, TypeOK, Concluding, Sound
<1>9. Sound(ledger)'
  BY <1>7 DEF Sound, Ledger
<1> QED BY <1>1, <1>4, <1>6, <1>8, <1>9 DEF TypeInv, Concluding

LEMMA ReviseTypes ==
  ASSUME TypeInv, Revise
  PROVE  /\ TypeInv'
         /\ votes'.vetoed = votes.vetoed
         /\ votes.final.blocked => votes'.final.blocked
<1>1. /\ pc = "validation" /\ pc' = "validation"
      /\ UNCHANGED Considered
  BY DEF Revise, Stage
<1>2. votes \in [count: 0..6, vetoed: BOOLEAN, latest: Ballot, final: Ballot]
  BY <1>1, VotesTyped DEF Concluding
<1>3. PICK more \in BOOLEAN : votes' = [votes EXCEPT !.final.blocked = @ \/ more]
  BY DEF Revise
<1>4. /\ votes' \in [count: 0..6, vetoed: BOOLEAN, latest: Ballot, final: Ballot]
      /\ votes'.vetoed = votes.vetoed
      /\ votes'.final.blocked = (votes.final.blocked \/ more)
  BY <1>2, <1>3, AggregatedTyped
<1>5. left' \in 0..Cap
  <2>1. PICK n \in After(left, 1, 1) : left' \in After(n, 1, 1)
    BY DEF Revise
  <2>2. n \in 0..Cap
    BY AfterWithin DEF TypeInv, TypeOK
  <2> QED BY <2>1, <2>2, AfterWithin
<1>6. validation' \in [validators: SUBSET Family, revised: BOOLEAN,
                       passed: SUBSET (Family \X BOOLEAN)]
  BY DEF Revise, TypeInv, TypeOK
<1>7. TypeOK'
  BY <1>1, <1>4, <1>5, <1>6 DEF TypeInv, TypeOK, Considered
<1> QED BY <1>1, <1>4, <1>7 DEF TypeInv, Considered, Sound, Ledger

LEMMA ValidationTypes ==
  ASSUME TypeInv, ChooseValidators \/ Validate \/ Object
  PROVE  TypeInv'
<1>1. /\ pc \in Concluding /\ pc' \in Concluding
      /\ UNCHANGED <<votes, Considered>>
  BY DEF ChooseValidators, Validate, Object, Stage, Concluding
<1>2. left' \in 0..Cap
  BY AfterWithin DEF ChooseValidators, Validate, Object, TypeInv, TypeOK
<1>3. validation' \in [validators: SUBSET Family, revised: BOOLEAN,
                       passed: SUBSET (Family \X BOOLEAN)]
  BY DEF ChooseValidators, Validate, Object, TypeInv, TypeOK
<1>4. TypeOK'
  BY <1>1, <1>2, <1>3 DEF TypeInv, TypeOK, Considered, Concluding
<1> QED BY <1>1, <1>4 DEF TypeInv, Considered, Sound, Ledger, Concluding

LEMMA EndTypes ==
  ASSUME TypeInv, Finish \/ Fail
  PROVE  TypeInv'
<1>1. verdict' \in [status: {"running", "completed", "blocked", "failed"},
                    finality: {"none", "commit", "abort"},
                    certificate: {"none", "commit", "abort"}]
  BY DEF Finish, Fail, TypeInv, TypeOK
<1>2. /\ pc' = "done"
      /\ UNCHANGED <<request, left, round, alternates, stance, ledger, receipts,
                     votes, consistent, validation>>
  BY DEF Finish, Fail, Stage
<1>3. TypeOK'
  BY <1>1, <1>2 DEF TypeInv, TypeOK
<1> QED BY <1>2, <1>3 DEF TypeInv, Sound, Ledger, Judging, Concluding

LEMMA NextTypes == TypeInv /\ [Next]_vars => TypeInv'
<1> SUFFICES ASSUME TypeInv, [Next]_vars PROVE TypeInv'
  OBVIOUS
<1>1. CASE UNCHANGED vars
  BY <1>1 DEF vars, TypeInv, TypeOK, Sound, Ledger
<1> QED
  BY <1>1, PrepareTypes, ProposeTypes, CommandsTypes, StuckTypes, EnoughTypes,
     VerifyTypes, DefendTypes, CriticiseTypes, MirrorTypes, TiebreakTypes,
     AdaptTypes, SkipTypes, DiagnoseTypes, ValidationTypes, ReviseTypes, EndTypes
  DEF Next

LEMMA TypesInvariant == Spec => []TypeInv
BY InitTypes, NextTypes, PTL DEF Spec

\* The calls, the ledger, the ballots and the verdict stay within their types:
\* no ledger flags a claim that is not load-bearing and no run casts more than
\* six ballots (CouncilEngine.run, judge_pass).
THEOREM TypeCorrect == Spec => []TypeOK
<1>1. TypeInv => TypeOK
  BY DEF TypeInv
<1> QED BY <1>1, TypesInvariant, PTL

----------------------------------------------------------------------------
\* What is certified.

\* A step before the diagnosis is over leaves the verdict and its validation
\* for later.
Open ==
  /\ pc \notin Concluding \cup {"done"}
  /\ pc' \notin Concluding \cup {"done"}
  /\ UNCHANGED <<request, validation, verdict>>

LEMMA Stages ==
  ASSUME Next
  PROVE  \/ Open \/ Diagnose \/ ChooseValidators \/ Validate \/ Revise \/ Object
         \/ Finish \/ Fail
<1>1. ASSUME NEW operation, NEW next \in {"operation", "ballots"}, Operate(operation, next)
      PROVE  Open
  BY <1>1 DEF Operate, Stage, Open, Judged, Concluding
<1>2. CASE Prepare \/ Propose \/ RedTeam \/ Commands
  BY <1>2 DEF Prepare, Propose, RedTeam, Commands, Stage, Open, Judged, Concluding
<1>3. CASE Escalate \/ Verify \/ Defend \/ Sample \/ SampleNobody
           \/ AnalyseRisk \/ Criticise
  BY <1>1, <1>3 DEF Escalate, Verify, Defend, Sample, SampleNobody, AnalyseRisk, Criticise
<1>4. CASE Suffice
  <2>1. CASE \E operation \in Enough : Operate(operation, "ballots")
    BY <1>1, <2>1
  <2>2. CASE /\ Stage("operation", "ballots")
             /\ UNCHANGED <<request, round, Judged>>
    BY <2>2 DEF Stage, Open, Judged, Concluding
  <2> QED BY <1>4, <2>1, <2>2 DEF Suffice
<1>5. CASE Mirror \/ Tiebreak \/ Adapt \/ ClosePair \/ Skip
  BY <1>5 DEF Mirror, Tiebreak, Adapt, ClosePair, Skip, Stage, Undecided, Open, Concluding
<1> QED BY <1>2, <1>3, <1>4, <1>5 DEF Next

SupportInv ==
  /\ pc \in Concluding =>
       /\ Unsupported = {} \/ "unresolved" \in ledger.blockers
       /\ Complete \/ "coverage" \in ledger.blockers
  /\ verdict.certificate = "commit" =>
       /\ pc = "done"
       /\ ledger.blockers = {} /\ ledger.flagged = {}
       /\ Unsupported = {} /\ Complete

LEMMA EvidenceKept ==
  ASSUME UNCHANGED <<stance, receipts>>
  PROVE  UNCHANGED <<Standing, Verified, Unsupported, Complete>>
BY DEF Standing, Verified, Unsupported, Structural, Complete, Covered, Raised

LEMMA SupportStep == TypeInv /\ SupportInv /\ [Next]_vars => SupportInv'
<1> SUFFICES ASSUME TypeInv, SupportInv, [Next]_vars PROVE SupportInv'
  OBVIOUS
<1>1. CASE UNCHANGED <<pc, stance, ledger, receipts, verdict>>
  BY <1>1, EvidenceKept DEF SupportInv
<1>2. CASE Open
  BY <1>2 DEF Open, SupportInv
<1>3. CASE Diagnose
  <2>1. /\ pc = "diagnosis" /\ pc' # "done"
        /\ UNCHANGED <<stance, receipts, verdict>>
    BY <1>3 DEF Diagnose, Stage
  <2>2. UNCHANGED <<Unsupported, Complete>>
    BY <2>1, EvidenceKept
  <2> QED BY <1>3, <2>1, <2>2, DiagnoseLedger DEF SupportInv
<1>4. CASE ChooseValidators \/ Validate \/ Revise \/ Object
  <2>1. pc \in Concluding /\ pc # "done" /\ UNCHANGED <<stance, ledger, receipts, verdict>>
    BY <1>4 DEF ChooseValidators, Validate, Revise, Object, Stage, Considered, Concluding
  <2>2. UNCHANGED <<Unsupported, Complete>>
    BY <2>1, EvidenceKept
  <2> QED BY <2>1, <2>2 DEF SupportInv
<1>5. CASE Finish
  <2>1. /\ pc = "verdict" /\ pc' = "done"
        /\ UNCHANGED <<stance, ledger, receipts>>
        /\ verdict'.certificate = "commit" => ledger.blockers = {} /\ ledger.flagged = {}
    BY <1>5 DEF Finish, Stage, Blocked
  <2>2. UNCHANGED <<Unsupported, Complete>>
    BY <2>1, EvidenceKept
  <2>3. /\ Unsupported = {} \/ "unresolved" \in ledger.blockers
        /\ Complete \/ "coverage" \in ledger.blockers
    BY <2>1 DEF SupportInv, Concluding
  <2>4. pc' \notin Concluding
    BY <2>1 DEF Concluding
  <2> QED BY <2>1, <2>2, <2>3, <2>4 DEF SupportInv
<1>6. CASE Fail
  <2>1. pc # "done" /\ pc' = "done" /\ verdict' = [verdict EXCEPT !.status = "failed"]
    BY <1>6 DEF Fail
  <2>2. verdict'.certificate = verdict.certificate
    BY <2>1 DEF TypeInv, TypeOK
  <2>3. pc' \notin Concluding
    BY <2>1 DEF Concluding
  <2> QED BY <2>1, <2>2, <2>3 DEF SupportInv
<1> QED
  BY <1>1, <1>2, <1>3, <1>4, <1>5, <1>6, Stages DEF vars

LEMMA SupportInvariant == Spec => [](TypeInv /\ SupportInv)
<1>1. Init => SupportInv
  BY DEF Init, SupportInv, Concluding
<1> QED BY <1>1, TypesInvariant, SupportStep, PTL DEF Spec

\* No load-bearing claim is open under a certificate (CouncilEngine.run,
\* protocols.py:2541-2600, and finality_certificate, v4.py).
THEOREM OnlySupportedCertified == Spec => []CertifiedIsSupported
<1>1. TypeInv /\ SupportInv => CertifiedIsSupported
  <2> SUFFICES ASSUME TypeInv, SupportInv, verdict.certificate = "commit"
               PROVE  CertifiedIsSupported
    BY DEF CertifiedIsSupported
  <2>1. ledger.unresolved \cap LoadBearing = {}
    BY DEF TypeInv, Sound, SupportInv
  <2>2. Standing # {} /\ Covered
    BY DEF SupportInv, Complete
  <2>3. ASSUME NEW c \in Standing
        PROVE  c \in Verified \/ (stance[c].oppose = 0 /\ c \in Admissible)
    BY <2>3 DEF SupportInv, Unsupported, Structural
  <2> QED BY <2>1, <2>2, <2>3 DEF CertifiedIsSupported
<1> QED BY <1>1, SupportInvariant, PTL

\* A load-bearing claim that the ledger shows as falsified is never certified
\* (apply_receipts, minority_defense).
THEOREM FalsifiedEntryNotCertified == Spec => []FalsifiedEntryHolds
<1>1. TypeInv /\ SupportInv => FalsifiedEntryHolds
  BY DEF TypeInv, Sound, SupportInv, FalsifiedEntryHolds
<1> QED BY <1>1, SupportInvariant, PTL

VetoInv ==
  /\ pc \in Concluding /\ votes.vetoed /\ request.kind # "subjective_tradeoff"
       => votes.final.blocked
  /\ verdict.status = "completed" =>
       /\ pc = "done" /\ ~votes.final.blocked
       /\ votes.vetoed => request.kind = "subjective_tradeoff"

LEMMA VetoStep == TypeInv /\ VetoInv /\ [Next]_vars => VetoInv'
<1> SUFFICES ASSUME TypeInv, VetoInv, [Next]_vars PROVE VetoInv'
  OBVIOUS
<1>1. CASE UNCHANGED <<request, pc, votes, verdict>>
  BY <1>1 DEF VetoInv
<1>2. CASE Open
  BY <1>2 DEF Open, VetoInv
<1>3. CASE Diagnose
  <2>1. pc = "diagnosis" /\ UNCHANGED <<request, verdict>>
    BY <1>3 DEF Diagnose, Stage
  <2> QED BY <1>3, <2>1, DiagnoseTypes DEF VetoInv
<1>4. CASE ChooseValidators \/ Validate \/ Object
  <2>1. pc \in Concluding /\ pc # "done" /\ UNCHANGED <<request, votes, verdict>>
    BY <1>4 DEF ChooseValidators, Validate, Object, Stage, Considered, Concluding
  <2> QED BY <2>1 DEF VetoInv
<1>5. CASE Revise
  <2>1. pc \in Concluding /\ pc # "done" /\ UNCHANGED <<request, verdict>>
    BY <1>5 DEF Revise, Stage, Considered, Concluding
  <2> QED BY <1>5, <2>1, ReviseTypes DEF VetoInv
<1>6. CASE Finish
  <2>1. /\ pc = "verdict" /\ pc' = "done" /\ UNCHANGED <<request, votes>>
        /\ verdict'.status = "completed" => ~votes.final.blocked
    BY <1>6 DEF Finish, Stage, Blocked
  <2>2. pc \in Concluding /\ pc' \notin Concluding
    BY <2>1 DEF Concluding
  <2> QED BY <2>1, <2>2 DEF VetoInv
<1>7. CASE Fail
  <2>1. /\ pc' = "done" /\ UNCHANGED <<request, votes>>
        /\ verdict'.status = "failed"
    BY <1>7 DEF Fail, TypeInv, TypeOK
  <2> QED BY <2>1 DEF VetoInv, Concluding
<1> QED
  BY <1>1, <1>2, <1>3, <1>4, <1>5, <1>6, <1>7, Stages DEF vars

\* A judge's blocker keeps a run from completing, through tie-breaks, revision
\* and the choice of the final ballot (judge_pass, aggregate_ballots,
\* validate_high_risk).
THEOREM VetoNeverLost == Spec => []VetoHolds
<1>1. Init => VetoInv
  BY DEF Init, VetoInv, Concluding
<1>2. VetoInv => VetoHolds
  BY DEF VetoInv, VetoHolds
<1> QED BY <1>1, <1>2, TypesInvariant, VetoStep, PTL DEF Spec

Others == Family \ {JudgeFamily}

ValidationInv ==
  /\ \/ validation.validators = {}
     \/ \E v, w \in Others : v # w /\ validation.validators = {v, w}
  /\ validation.passed \subseteq validation.validators \X {validation.revised}
  /\ pc \notin {"validation", "verdict", "done"} => validation.passed = {}
  /\ verdict.certificate = "commit" => pc = "done" /\ (request.high => Validated)

LEMMA ValidationStep == TypeInv /\ ValidationInv /\ [Next]_vars => ValidationInv'
<1> SUFFICES ASSUME TypeInv, ValidationInv, [Next]_vars PROVE ValidationInv'
  OBVIOUS
<1>0. validation \in [validators: SUBSET Family, revised: BOOLEAN,
                      passed: SUBSET (Family \X BOOLEAN)]
  BY DEF TypeInv, TypeOK
<1>1. CASE UNCHANGED <<request, pc, validation, verdict>>
  BY <1>1 DEF ValidationInv, Validated, Passed
<1>2. CASE Open
  BY <1>2 DEF Open, ValidationInv, Concluding
<1>3. CASE Diagnose
  BY <1>3 DEF Diagnose, Stage, ValidationInv
<1>4. CASE ChooseValidators
  <2>1. pc = "validators" /\ validation.passed = {} /\ UNCHANGED verdict
    BY <1>4 DEF ChooseValidators, Stage, Considered, ValidationInv
  <2>2. CASE UNCHANGED validation
    BY <1>4, <2>1, <2>2 DEF ChooseValidators, Stage, ValidationInv
  <2>3. CASE \E v, w \in Others :
               v # w /\ validation' = [validation EXCEPT !.validators = {v, w}]
    <3>1. PICK v \in Others, w \in Others :
            v # w /\ validation' = [validation EXCEPT !.validators = {v, w}]
      BY <2>3
    <3>2. validation'.validators = {v, w} /\ validation'.passed = {}
      BY <1>0, <2>1, <3>1
    <3> QED BY <2>1, <3>1, <3>2 DEF ValidationInv
  <2> QED BY <1>4, <2>2, <2>3 DEF ChooseValidators, Others
<1>5. CASE Validate
  <2>1. /\ pc = "validation" /\ pc' \in {"validation", "verdict"}
        /\ UNCHANGED verdict
    BY <1>5 DEF Validate, Stage, Considered
  <2>2. PICK v \in validation.validators :
          validation' = [validation EXCEPT
                           !.passed = validation.passed \cup {<<v, validation.revised>>}]
    BY <1>5 DEF Validate
  <2>3. /\ UNCHANGED <<validation.validators, validation.revised>>
        /\ validation'.passed = validation.passed \cup {<<v, validation.revised>>}
    BY <1>0, <2>2
  <2> QED BY <2>1, <2>3 DEF ValidationInv
<1>6. CASE Revise
  <2>1. pc = "validation" /\ pc' = "validation" /\ UNCHANGED verdict
    BY <1>6 DEF Revise, Stage, Considered
  <2>2. UNCHANGED validation.validators /\ validation'.passed = {}
    BY <1>0, <1>6 DEF Revise
  <2> QED BY <2>1, <2>2 DEF ValidationInv
<1>7. CASE Object
  BY <1>7 DEF Object, Stage, Considered, ValidationInv
<1>8. CASE Finish
  <2>1. /\ pc' = "done" /\ UNCHANGED <<request, validation>>
        /\ verdict'.certificate = "commit" => (request.high => Validated)
    BY <1>8 DEF Finish, Stage, Blocked
  <2>2. UNCHANGED Validated
    BY <2>1 DEF Validated, Passed
  <2> QED BY <2>1, <2>2 DEF ValidationInv
<1>9. CASE Fail
  <2>1. /\ pc # "done" /\ pc' = "done" /\ UNCHANGED validation
        /\ verdict'.certificate = verdict.certificate
    BY <1>9 DEF Fail, TypeInv, TypeOK
  <2> QED BY <2>1 DEF ValidationInv
<1> QED
  BY <1>1, <1>2, <1>3, <1>4, <1>5, <1>6, <1>7, <1>8, <1>9, Stages DEF vars

\* Two families other than the judge's have passed what a certificate of high
\* risk is about, its revision if there is one (validate_high_risk).
THEOREM OthersValidated == Spec => []ValidatedByOthers
<1>1. Init => ValidationInv
  BY DEF Init, ValidationInv
<1>2. ValidationInv => ValidatedByOthers
  <2> SUFFICES ASSUME ValidationInv, verdict.certificate = "commit", request.high
               PROVE  ValidatedByOthers
    BY DEF ValidatedByOthers
  <2>1. validation.validators # {} /\ Passed = validation.validators
    BY DEF ValidationInv, Validated
  <2>2. PICK v \in Others, w \in Others : v # w /\ validation.validators = {v, w}
    BY <2>1 DEF ValidationInv
  <2>3. ASSUME NEW u \in Passed PROVE <<u, validation.revised>> \in validation.passed
    BY <2>3 DEF Passed, ValidationInv
  <2> QED BY <2>1, <2>2, <2>3 DEF ValidatedByOthers, Others
<1> QED BY <1>1, <1>2, TypesInvariant, ValidationStep, PTL DEF Spec

\* While the run deliberates, only hypotheses and falsifications block: what an
\* operation rebuilds of the ledger is then all there was.
DeliberationInv ==
  pc \in Deliberating => ledger.blockers \subseteq {"reported", "falsified"}

Kept == ledger.blockers \ {"falsified"} \subseteq ledger'.blockers

LEMMA DeliberationStep ==
  TypeInv /\ DeliberationInv /\ [Next]_vars => DeliberationInv' /\ Kept
<1> SUFFICES ASSUME TypeInv, DeliberationInv, [Next]_vars
             PROVE  DeliberationInv' /\ Kept
  OBVIOUS
<1>1. CASE pc' = pc /\ UNCHANGED ledger
  BY <1>1 DEF DeliberationInv, Kept
<1>2. CASE pc \in Deliberating /\ \E n : AddHypotheses(n)
  <2>1. /\ ledger'.blockers \subseteq {"reported"}
        /\ "reported" \in ledger.blockers => "reported" \in ledger'.blockers
    BY <1>2, AddHypothesesSound DEF TypeInv, TypeOK
  <2> QED BY <1>2, <2>1 DEF DeliberationInv, Kept
<1>3. CASE Prepare \/ Suffice
  BY <1>3 DEF Prepare, Suffice, Operate, Stage, DeliberationInv, Kept, Deliberating
<1>4. CASE Propose \/ RedTeam \/ Sample \/ Criticise
  <2>1. pc \in Deliberating /\ \E n : AddHypotheses(n)
    BY <1>4 DEF Propose, RedTeam, Sample, Criticise, Operate, Stage, Deliberating
  <2> QED BY <1>2, <2>1
<1>5. CASE Commands
  BY <1>5, CommandsTypes DEF Commands, Stage, DeliberationInv, Kept, Deliberating
<1>6. CASE Verify
  BY <1>6, VerifyTypes DEF Verify, Operate, Stage, DeliberationInv, Kept, Deliberating
<1>7. CASE Defend
  BY <1>7, DefendTypes DEF Defend, Operate, Stage, DeliberationInv, Kept, Deliberating
<1>8. CASE Escalate \/ SampleNobody
  <2>1. pc' \notin Deliberating
    BY <1>8 DEF Escalate, SampleNobody, Operate, Stage, Deliberating
  <2>2. ledger.blockers \subseteq ledger'.blockers
    BY <1>8 DEF Escalate, SampleNobody, TypeInv, TypeOK, Ledger
  <2> QED BY <2>1, <2>2 DEF DeliberationInv, Kept
<1>9. CASE AnalyseRisk
  <2>1. pc \in Deliberating /\ pc' \notin Deliberating
    BY <1>9 DEF AnalyseRisk, Operate, Stage, Deliberating
  <2>2. CASE UNCHANGED ledger
    BY <2>1, <2>2 DEF DeliberationInv, Kept
  <2> QED BY <1>2, <1>9, <2>1, <2>2 DEF AnalyseRisk
<1>10. CASE Diagnose
  BY <1>10, DiagnoseLedger DEF Diagnose, Stage, DeliberationInv, Kept, Deliberating
<1>11. CASE Mirror \/ Tiebreak \/ Adapt \/ ClosePair \/ Skip
  BY <1>11 DEF Mirror, Tiebreak, Adapt, ClosePair, Skip, Undecided, Stage,
     DeliberationInv, Kept, Deliberating
<1>12. CASE ChooseValidators \/ Validate \/ Revise \/ Object \/ Finish \/ Fail
  <2>1. pc' \notin Deliberating /\ UNCHANGED ledger
    BY <1>12 DEF ChooseValidators, Validate, Revise, Object, Finish, Fail,
       Considered, Stage, Deliberating
  <2> QED BY <2>1 DEF DeliberationInv, Kept
<1> QED
  BY <1>1, <1>3, <1>4, <1>5, <1>6, <1>7, <1>8, <1>9, <1>10, <1>11, <1>12
  DEF Next, vars

\* No operation that builds the ledger again forgets what blocked before
\* (sample, targeted_rebuttal, synthesize and safety_validate in run).
THEOREM BlockersNeverDropped == Spec => BlockersStand
<1>1. Init => DeliberationInv
  BY DEF Init, Built, DeliberationInv
<1>2. TypeInv /\ DeliberationInv /\ [Next]_vars
        => [ledger.blockers \ {"falsified"} \subseteq ledger'.blockers]_vars
  BY DeliberationStep DEF Kept
<1> QED
  BY <1>1, <1>2, TypesInvariant, DeliberationStep, PTL DEF Spec, BlockersStand
=============================================================================
