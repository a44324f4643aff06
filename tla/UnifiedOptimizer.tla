-------------------------- MODULE UnifiedOptimizer --------------------------
(***************************************************************************)
(* UnifiedBenefitOptimizer.optimize (benefit-optimizer.ts): each result of *)
(* the stacking engine, paid with each of the user's methods.  The         *)
(* vouchers are few enough for every combination of them to be tried.      *)
(*                                                                         *)
(* The opportunity score only orders the list returned, which the pruning  *)
(* sorts again by cost, so it is left out.                                 *)
(***************************************************************************)
EXTENDS CandidateGenerator, VoucherCombinations

\* what the user's programs offer at the merchant (the catalog's graph)
BenefitsForMerchant(edges, merchant, programs) ==
    {e.benefit : e \in {f \in edges : /\ f.relation \in {"BENEFITS_AT", "PARTNER_OF"}
                                      /\ f.to = merchant /\ f.from \in programs}}

Combos(r) ==
    LET vouchers == SortByValue(EligibleVouchers(r.cart, r.vouchers))
        perks == {b \in BenefitsForMerchant(r.edges, r.cart.merchant, r.memberships) :
                    IsBenefitEligible(b, r.cart, r.memberships)}
    IN  StackingResults(r.cart, perks,
            IF vouchers = <<>> THEN {} ELSE AllCombinations(vouchers, r.cart.total))

\* prices shrink in proportion to what is left to pay
ResidualCart(cart, residual) ==
    [cart EXCEPT !.total = residual, !.subtotal = residual,
                 !.items = {[item EXCEPT !.price =
                    IF cart.total = 0 THEN 0 ELSE Quotient(@ * residual, cart.total)] :
                        item \in cart.items}]

\* nothing is earned where nothing is left to pay; the cost is compared with
\* the whole cart here
Unified(r, id, combo, method) ==
    LET left == ResidualCart(r.cart, combo.residual)
        paid == combo.residual > 0
        reward == IF paid THEN BestReward(left, method, r.valuations) ELSE 0
        milestone == IF paid THEN Milestones(combo.residual, method, r.valuations) ELSE 0
    IN  Amounts(r, id, combo.voucherSavings + combo.partnerSavings, reward, milestone,
                r.cart.total)
        @@ [confidence |-> 100,
            complexityScore |-> combo.steps + (IF paid THEN 1 ELSE 0)
                                            + (IF reward > 0 THEN 1 ELSE 0)]

\* a strategy is named after its vouchers, its perk and its method
NameOf(combo, m) ==
    10000 + m + 10 * FoldLeft(LAMBDA n, v : n + 2 ^ v.id, 0, combo.vouchers)
          + 1000 * MapThenSumSet(LAMBDA b : b.id, combo.partner)

Strategies(r) ==
    {Unified(r, NameOf(combo, m), combo, r.methods[m]) :
        combo \in Combos(r), m \in DOMAIN r.methods}
=============================================================================
