------------------------- MODULE CandidateGenerator -------------------------
(***************************************************************************)
(* generateCandidates (generator.ts): for each payment method, every       *)
(* choice of at most one coupon and one offer, paid directly; and, at a    *)
(* merchant that takes them, through a gift card bought at a discount.     *)
(*                                                                         *)
(* A request has a cart, payment methods, offers and coupons.  The id of a *)
(* candidate is a number of its place in the loops; the code's is a string *)
(* that ends in a running number.                                          *)
(***************************************************************************)
EXTENDS RewardRules, Sequences, TLC

CONSTANTS
    MaxCoupons, MaxOffers,   \* MAX_COUPONS, MAX_OFFERS
    GiftCardRate,            \* in RateScale-ths
    GiftCardMerchants

Cards == {"CREDIT_CARD", "DEBIT_CARD"}

\* points are worth what the profile says of their program, or their number
ValueReward(reward, card, valuations) ==
    IF card.rewardProgram \in DOMAIN valuations
    THEN Quotient(reward * valuations[card.rewardProgram], 100)
    ELSE reward

\* the best of the card's rules, on what is left of the cart
BestReward(cart, method, valuations) ==
    IF method.type \in Cards
    THEN Max({0} \cup
             {ValueReward(EvaluateCardReward(cart, rule, method.card.exclusions,
                                             method.card.monthlySpend),
                          method.card, valuations) : rule \in method.card.rewardRules})
    ELSE 0

Milestones(spend, method, valuations) ==
    IF method.type = "CREDIT_CARD"
    THEN MapThenSumSet(
            LAMBDA rule : ValueReward(
                MilestoneContribution(spend, rule, method.card.annualSpend),
                method.card, valuations),
            method.card.milestoneRules)
    ELSE 0

Limited(options, n) ==
    SubSeq(options, 1, IF Len(options) < n THEN Len(options) ELSE n)

\* no coupon, no offer: nothing off
Nothing == [benefit |-> [type |-> "FIXED_DISCOUNT", value |-> 0, cap |-> {}]]

CouponOptions(r) ==
    <<Nothing>> \o Limited(SelectSeq(r.coupons, LAMBDA coupon :
        /\ coupon.merchant = r.cart.merchant
        /\ CheckEligibility(r.cart, coupon.conditions)), MaxCoupons)

MeetsRequirement(method, req) ==
    /\ req.methodType = method.type
    /\ method.type \in Cards =>
        /\ \A issuer \in req.issuer : issuer = method.card.issuer
        /\ \A network \in req.network : network = method.card.network

OfferOptions(r, cart, coupon, method) ==
    <<Nothing>> \o Limited(SelectSeq(r.offers, LAMBDA offer :
        /\ offer.merchant = cart.merchant
        /\ coupon # Nothing => offer.canStackWithCoupons
        /\ offer.requirements = {}
             \/ \E req \in offer.requirements : MeetsRequirement(method, req)
        /\ CheckEligibility(cart, offer.conditions)), MaxOffers)

AfterCoupon(cart, coupon) ==
    LET discount == CalculateBenefit(cart, coupon.benefit)
    IN  [cart EXCEPT !.subtotal = @ - discount, !.total = @ - discount]

\* the amounts every strategy reports, fees being zero for every method; its
\* cost is nothing when the benefits reach the threshold
Amounts(r, id, discount, reward, milestone, threshold) ==
    LET benefits == discount + reward + milestone
    IN  [id |-> id, immediateDiscount |-> discount,
         rewardValue |-> reward, futureBenefit |-> milestone,
         effectiveCost |-> IF threshold > benefits
                           THEN r.cart.total - benefits ELSE 0,
         totalBenefit |-> Max({0, benefits})]

Confidence(offer) ==
    IF offer = Nothing THEN 100
    ELSE CASE offer.confidence = "HIGH" -> 100
           [] offer.confidence = "MEDIUM" -> 70
           [] offer.confidence = "LOW" -> 40

Used(options) == Cardinality({o \in options : o # Nothing})

\* effectiveCost compares the benefits with what is left to pay, from which
\* the discounts have been taken already
Direct(r, id, method, coupon, offer) ==
    LET cart == AfterCoupon(r.cart, coupon)
        off == CalculateBenefit(cart, offer.benefit)
        paid == [cart EXCEPT !.total = @ - off]
    IN  Amounts(r, id, r.cart.total - paid.total,
                BestReward(paid, method, r.valuations),
                Milestones(paid.total, method, r.valuations), paid.total)
        @@ [confidence |-> Confidence(offer),
            complexityScore |-> Used({coupon, offer})]

\* the purchase of a gift card of the amount left, and its redemption
GiftCard(r, id, method, coupon) ==
    LET face == AfterCoupon(r.cart, coupon).total
        price == face - MultiplyMoney(face, GiftCardRate)
        purchase == [merchant |-> "giftcard-store", subtotal |-> price, total |-> price,
                     items |-> {[price |-> price, quantity |-> 1, category |-> "GIFT_CARD"]}]
    IN  Amounts(r, id, r.cart.total - price,
                BestReward(purchase, method, r.valuations),
                Milestones(price, method, r.valuations), r.cart.total)
        @@ [confidence |-> 90, complexityScore |-> 2 + Used({coupon})]

Candidates(r) ==
    UNION {LET method == r.methods[m]
               coupon == CouponOptions(r)[i]
               offers == OfferOptions(r, AfterCoupon(r.cart, coupon), coupon, method)
               id == 100 * m + 10 * i
           IN  {Direct(r, id + j, method, coupon, offers[j]) : j \in DOMAIN offers}
               \cup IF /\ r.cart.merchant \in GiftCardMerchants
                       /\ AfterCoupon(r.cart, coupon).total > 0
                    THEN {GiftCard(r, id, method, coupon)} ELSE {}
           : m \in DOMAIN r.methods, i \in DOMAIN CouponOptions(r)}

-----------------------------------------------------------------------------
(* The popup's simulator (Dashboard.tsx), with the demo data of            *)
(* card-catalog.ts, in rupees                                              *)

MinimumSpend(value) == {[type |-> "MINIMUM_SPEND", value |-> value]}

DemoOffer ==
    [merchant |-> "amazon", confidence |-> "HIGH", canStackWithCoupons |-> TRUE,
     benefit |-> [type |-> "PERCENTAGE_DISCOUNT", value |-> RateScale \div 10, cap |-> {1500}],
     conditions |-> MinimumSpend(5000),
     requirements |-> {[methodType |-> "CREDIT_CARD", issuer |-> {"HDFC"}, network |-> {}]}]

DemoCoupon ==
    [merchant |-> "amazon", conditions |-> MinimumSpend(15000),
     benefit |-> [type |-> "FIXED_DISCOUNT", value |-> 1000, cap |-> {}]]

\* what is simulated for an amount typed in: one item without a category; an
\* amount that is not positive is ignored
Simulations(merchant, amount, methods, valuations) ==
    IF amount <= 0 THEN {}
    ELSE {[cart |-> [merchant |-> merchant, subtotal |-> amount, total |-> amount,
                     items |-> {[price |-> amount, quantity |-> 1, category |-> ""]}],
           methods |-> methods, coupons |-> <<DemoCoupon>>, offers |-> <<DemoOffer>>,
           valuations |-> valuations]}
=============================================================================
