----------------------------- MODULE RewardRules -----------------------------
(***************************************************************************)
(* The arithmetic and the rules of the rules engine (arithmetic.ts,        *)
(* evaluator.ts).  All amounts are of the cart's currency; a mismatch      *)
(* throws in the code and ends the request.  An optional field is the set  *)
(* of its values: empty, or of one element.                                *)
(***************************************************************************)
EXTENDS Integers, FiniteSets, FiniteSetsExt

CONSTANT RateScale   \* a rate of 1; a million in the code

\* bigint division truncates towards zero
Quotient(n, d) == IF n >= 0 THEN n \div d ELSE -((-n) \div d)

MultiplyMoney(amount, rate) == Quotient(amount * rate, RateScale)

\* conditions of any other type, and EXPIRY without a date, always hold
CheckEligibility(cart, conditions) ==
    \A c \in conditions :
        /\ c.type = "MINIMUM_SPEND" => cart.subtotal >= c.value
        /\ c.type = "MERCHANT_ELIGIBILITY" => cart.merchant \in c.value
        /\ c.type = "MCC_ELIGIBILITY" =>
               \E item \in cart.items : item.category \in c.value

\* a percentage is taken of the subtotal, cashback and points of the total;
\* a fixed amount is limited by the subtotal and has no cap of its own
CalculateBenefit(cart, benefit) ==
    CASE benefit.type = "PERCENTAGE_DISCOUNT" ->
            Min({MultiplyMoney(cart.subtotal, benefit.value)} \cup benefit.cap)
      [] benefit.type = "FIXED_DISCOUNT" -> Min({benefit.value, cart.subtotal})
      [] benefit.type \in {"CASHBACK", "POINTS"} ->
            Min({MultiplyMoney(cart.total, benefit.value)} \cup benefit.cap)

\* items that earn the reward: not excluded, and of the rule's categories
Earning(cart, rule, exclusions) ==
    {item \in cart.items :
        /\ item.category \notin exclusions
        /\ rule.category # {} => item.category \in rule.category}

\* the cap of a rule less what was spent in the period, never below zero
RemainingCap(rule, spent) ==
    IF spent = {} THEN rule.maximumReward
    ELSE {Max({0, cap - s}) : cap \in rule.maximumReward, s \in spent}

\* the guards look at the total, the reward at the prices of the items
EvaluateCardReward(cart, rule, exclusions, spent) ==
    IF /\ \A m \in rule.minimumSpend : cart.total >= m
       /\ rule.merchantIds = {} \/ cart.merchant \in rule.merchantIds
       /\ CheckEligibility(cart, rule.conditions)
    THEN LET spend == MapThenSumSet(LAMBDA item : item.price * item.quantity,
                                    Earning(cart, rule, exclusions))
         IN  Min({MultiplyMoney(spend, rule.rate)} \cup RemainingCap(rule, spent))
    ELSE 0

\* the whole reward for the purchase that reaches the target, a share of it
\* for one on the way, nothing after
MilestoneContribution(spend, rule, annualSpend) ==
    IF annualSpend >= rule.targetSpend THEN 0
    ELSE IF annualSpend + spend >= rule.targetSpend THEN rule.reward
    ELSE Quotient(spend * rule.reward, rule.targetSpend)
=============================================================================
