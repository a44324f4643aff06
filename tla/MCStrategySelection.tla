------------------------ MODULE MCStrategySelection ------------------------
(***************************************************************************)
(* Instances of StrategySelection for TLC.  Generated requests come out of *)
(* CandidateGenerator and UnifiedOptimizer, as OPTIMIZE_PAYMENT puts them  *)
(* together, and simulated ones are the popup's.  Mixed ones are any few   *)
(* of a grid of costs, numbers of steps (nine is too many) and confidences *)
(* (40 is too low), with the benefit that goes with the cost.              *)
(***************************************************************************)
EXTENDS StrategySelection, UnifiedOptimizer

Shop(total) ==
    [merchant |-> "amazon", subtotal |-> 100, total |-> total,
     items |-> {[price |-> 30, quantity |-> 2, category |-> "GROCERY"],
                [price |-> 40, quantity |-> 1, category |-> "FUEL"]}]

Rule(rate, categories, cap) ==
    [rate |-> rate, category |-> categories, merchantIds |-> {}, conditions |-> {},
     minimumSpend |-> {50}, maximumReward |-> cap]

Credit == [type |-> "CREDIT_CARD", card |->
    [issuer |-> "axis", network |-> "VISA", rewardProgram |-> "miles",
     rewardRules |-> {Rule(5, {}, {4}), Rule(20, {"GROCERY"}, {})},
     exclusions |-> {"FUEL"}, monthlySpend |-> {1}, annualSpend |-> 150,
     milestoneRules |-> {[targetSpend |-> 200, reward |-> 10]}]]
Debit == [type |-> "DEBIT_CARD", card |->
    [issuer |-> "hdfc", network |-> "RUPAY", rewardProgram |-> "cash",
     rewardRules |-> {Rule(2, {}, {})}, exclusions |-> {}, monthlySpend |-> {}]]
Upi == [type |-> "UPI"]

Fixed(value) == [type |-> "FIXED_DISCOUNT", value |-> value, cap |-> {}]
Percent(rate, cap) == [type |-> "PERCENTAGE_DISCOUNT", value |-> rate, cap |-> cap]

Coupon(benefit, minimum) ==
    [merchant |-> "amazon", benefit |-> benefit,
     conditions |-> {[type |-> "MINIMUM_SPEND", value |-> minimum]}]
Offer(benefit, confidence, stacks, requirements) ==
    [merchant |-> "amazon", benefit |-> benefit, confidence |-> confidence,
     canStackWithCoupons |-> stacks, requirements |-> requirements,
     conditions |-> {[type |-> "MINIMUM_SPEND", value |-> 50]}]
AxisCredit == {[methodType |-> "CREDIT_CARD", issuer |-> {"axis"}, network |-> {}]}

CouponLists ==
    {<<>>, <<Coupon(Percent(10, {8}), 50)>>,
     <<Coupon(Fixed(60), 80), Coupon(Fixed(5), 200), Coupon(Percent(20, {}), 0),
       Coupon(Fixed(1), 0)>>}
OfferLists ==
    {<<>>, <<Offer(Fixed(20), "HIGH", FALSE, AxisCredit),
             Offer([type |-> "CASHBACK", value |-> 10, cap |-> {}], "MEDIUM", TRUE, {})>>,
     <<Offer(Percent(50, {}), "LOW", TRUE, {})>>}
MethodLists == {<<Credit, Upi>>, <<Debit>>}
Valuations == {<<>>, [miles |-> 50]}

Voucher(id, value, days) ==
    [id |-> id, merchant |-> "amazon", value |-> value, daysLeft |-> days,
     minimumSpend |-> {10}]
VoucherLists == {<<>>, <<Voucher(1, 20, 2)>>, <<Voucher(1, 30, 40), Voucher(2, 80, 2)>>}

Edge(id, benefit, stacks) ==
    [from |-> "prime", to |-> "amazon", relation |-> "BENEFITS_AT",
     benefit |-> [id |-> id, program |-> "prime", merchant |-> "amazon", validFor |-> {},
                  benefit |-> benefit, conditions |-> {}, stackableWithVouchers |-> stacks]]
Edges == {Edge(1, Percent(5, {}), TRUE), Edge(2, Fixed(30), FALSE),
          [Edge(3, Fixed(99), TRUE) EXCEPT !.from = "accor"]}

Generated ==
    {LET r == [cart |-> Shop(total), methods |-> methods, coupons |-> coupons,
               offers |-> offers, valuations |-> valuations,
               vouchers |-> vouchers, edges |-> Edges, memberships |-> members]
     IN  [total |-> total, candidates |-> Candidates(r) \cup Strategies(r)] :
        total \in {70, 100}, methods \in MethodLists, coupons \in CouponLists,
        offers \in OfferLists, valuations \in Valuations,
        vouchers \in VoucherLists, members \in {{}, {"prime"}}}

Grid ==
    {[id |-> 100 * cost + 10 * steps + confidence, immediateDiscount |-> 3 - cost,
      rewardValue |-> 0, futureBenefit |-> 0, effectiveCost |-> cost,
      totalBenefit |-> 3 - cost, confidence |-> confidence, complexityScore |-> steps] :
        cost \in 0..1, steps \in {1, 2, 9}, confidence \in {40, 100}}

Mixed == {[total |-> 3, candidates |-> some] : some \in UNION {kSubset(k, Grid) : k \in 0..4}}

Hdfc == [Credit EXCEPT !.card.issuer = "HDFC"]

Simulated ==
    {[total |-> r.cart.total, candidates |-> Candidates(r)] :
        r \in UNION {Simulations(merchant, amount, methods, valuations) :
                merchant \in {"amazon", "myntra"},
                amount \in {0, 4999, 5000, 15000, 16999, 20000},
                methods \in {<<Hdfc, Upi>>, <<Debit>>}, valuations \in Valuations}}

MCRequests == Generated \cup Mixed \cup Simulated
MCWeights ==
    [savings |-> 1, reward |-> 2, milestone |-> 2, simplicity |-> 1, risk |-> 0]
=============================================================================
