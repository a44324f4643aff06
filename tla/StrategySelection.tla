-------------------------- MODULE StrategySelection --------------------------
(***************************************************************************)
(* What happens to the candidates of one OPTIMIZE_PAYMENT request:         *)
(* filterDominated goes through them by ascending cost and keeps those     *)
(* that nothing dominates, rankStrategies drops what is too uncertain or   *)
(* too complex and sorts the rest.  A step is one round of the pruning     *)
(* loop, or the next place of the sorted answer.                           *)
(*                                                                         *)
(* Amounts are minor units, confidence is in hundredths.  The sort by cost *)
(* keeps candidates of equal cost in the order they were generated in,     *)
(* which is any order here.                                                *)
(***************************************************************************)
EXTENDS Integers, Sequences

CONSTANTS
    Requests,         \* carts with the candidates generated for them
    MinConfidence, MaxComplexity,
    Weights           \* profile.optimizationPreferences, as integers

PaymentStrategy ==
    [id : Nat, immediateDiscount : Int, rewardValue : Int, futureBenefit : Int,
     effectiveCost : Int, totalBenefit : Int, confidence : Int, complexityScore : Int]

ASSUME SelectionAssumption ==
    /\ \A q \in Requests :
        /\ q.total \in Int
        /\ q.candidates \subseteq PaymentStrategy
        /\ \A c, d \in q.candidates : c.id = d.id => c = d
    /\ MinConfidence \in Int /\ MaxComplexity \in Int
    /\ Weights \in [{"savings", "reward", "milestone", "simplicity", "risk"} -> Int]

VARIABLES
    request,     \* the cart's total and its candidates
    remaining,   \* candidates the pruning loop has not reached
    accepted,    \* result of filterDominated so far
    ranked       \* the answer so far

vars == <<request, remaining, accepted, ranked>>

TypeOK ==
    /\ request \in Requests
    /\ remaining \subseteq request.candidates
    /\ accepted \subseteq request.candidates
    /\ ranked \in Seq(accepted)
    /\ remaining # {} => ranked = <<>>

Init ==
    /\ request \in Requests
    /\ remaining = request.candidates
    /\ accepted = {}
    /\ ranked = <<>>

-----------------------------------------------------------------------------
(* filterDominated                                                         *)

\* at least as good in all three, better in one
Dominates(a, b) ==
    /\ a.effectiveCost <= b.effectiveCost
    /\ a.complexityScore <= b.complexityScore
    /\ a.confidence >= b.confidence
    /\ \/ a.effectiveCost < b.effectiveCost
       \/ a.complexityScore < b.complexityScore
       \/ a.confidence > b.confidence

\* mutant: the last of several strategies of one cost replaces the others
OustedBy_SameCost(c) == {a \in accepted : a.effectiveCost = c.effectiveCost}

\* accepted strategies that c dominates: none of them is cheaper, so only
\* those of the same cost are looked at
OustedBy(c) ==
    {a \in accepted : a.effectiveCost = c.effectiveCost /\ Dominates(c, a)}

\* mutant: the candidates are not sorted by cost first
Consider_Unsorted(c) ==
    /\ remaining' = remaining \ {c}
    /\ accepted' = IF \E a \in accepted : Dominates(a, c)
                   THEN accepted
                   ELSE (accepted \ OustedBy(c)) \cup {c}
    /\ UNCHANGED <<request, ranked>>

Consider(c) ==
    /\ \A d \in remaining : c.effectiveCost <= d.effectiveCost
    /\ remaining' = remaining \ {c}
    /\ accepted' = IF \E a \in accepted : Dominates(a, c)
                   THEN accepted
                   ELSE (accepted \ OustedBy(c)) \cup {c}
    /\ UNCHANGED <<request, ranked>>

-----------------------------------------------------------------------------
(* rankStrategies                                                          *)

Acceptable(s) ==
    s.confidence >= MinConfidence /\ s.complexityScore <= MaxComplexity

\* scoreStrategy, in hundredths
Score(s) ==
    Weights.savings * s.immediateDiscount
        + Weights.reward * s.rewardValue
        + Weights.milestone * s.futureBenefit
        - Weights.simplicity * 100 * s.complexityScore
        - Weights.risk * 10 * (100 - s.confidence)

\* mutant: the preferences decide first
RanksBefore_ScoreFirst(a, b) ==
    \/ Score(a) > Score(b)
    \/ Score(a) = Score(b) /\ a.totalBenefit > b.totalBenefit
    \/ Score(a) = Score(b) /\ a.totalBenefit = b.totalBenefit /\ a.id < b.id

\* the comparator: the exact benefit, then the score, then the id
RanksBefore(a, b) ==
    \/ a.totalBenefit > b.totalBenefit
    \/ a.totalBenefit = b.totalBenefit /\ Score(a) > Score(b)
    \/ a.totalBenefit = b.totalBenefit /\ Score(a) = Score(b) /\ a.id < b.id

InAnswer == {ranked[i] : i \in DOMAIN ranked}

ToRank == {s \in accepted \ InAnswer : Acceptable(s)}

Rank(s) ==
    /\ \A t \in ToRank : ~RanksBefore(t, s)
    /\ ranked' = Append(ranked, s)
    /\ UNCHANGED <<request, remaining, accepted>>

Next ==
    \/ \E c \in remaining : Consider(c)
    \/ remaining = {} /\ \E s \in ToRank : Rank(s)

Spec == Init /\ [][Next]_vars

-----------------------------------------------------------------------------
Considered == request.candidates \ remaining

Answered == remaining = {} /\ ToRank = {}

(***************************************************************************)
(* After every round, what filterDominated has kept is the Pareto front of *)
(* what it has seen: one pass, with early exits and removals among equal   *)
(* costs only, loses no strategy that nothing dominates and keeps none     *)
(* that something does, whatever the order among equal costs.              *)
(***************************************************************************)
ParetoFront ==
    accepted = {c \in Considered : \A d \in Considered : ~Dominates(d, c)}

(***************************************************************************)
(* The constraints of rankStrategies come after the pruning, and yet no    *)
(* strategy that meets them is lost to one that does not: the answer has   *)
(* the strategy or one at least as cheap, as simple and as certain.        *)
(***************************************************************************)
NothingBetterIsLost ==
    Answered =>
        \A c \in request.candidates : Acceptable(c) =>
            \E s \in InAnswer : s = c \/ Dominates(s, c)

\* cost and benefit of every candidate are two sides of the same sum
Consistent ==
    \A c \in request.candidates : c.effectiveCost + c.totalBenefit = request.total

(***************************************************************************)
(* Pruning looks at the cost, ranking at the benefit and at preferences.   *)
(* Where the two amounts agree, the first answer is still the cheapest of  *)
(* all the candidates that meet the constraints (bestStrategy).            *)
(***************************************************************************)
TopIsCheapest ==
    Answered /\ Consistent =>
        \A c \in request.candidates : Acceptable(c) =>
            ranked # <<>> /\ ranked[1].effectiveCost <= c.effectiveCost

-----------------------------------------------------------------------------
(* What the comments and the plan say and the code does not do.            *)

=============================================================================
