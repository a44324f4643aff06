------------------------ MODULE VoucherCombinations ------------------------
(***************************************************************************)
(* The pure part of the benefits package's stacking: which vouchers and    *)
(* partner benefits a cart may use (voucher-manager.ts,                    *)
(* eligibility-engine.ts), what one voucher burns, every combination of a  *)
(* few vouchers, and the results a set of combinations gives               *)
(* (stacking-engine.ts).                                                   *)
(*                                                                         *)
(* Days are counted from now, so whatever has zero or less of them left is *)
(* over.  A minimum or a date that may be missing is the set of its        *)
(* values.                                                                 *)
(***************************************************************************)
EXTENDS RewardRules, Collections, SequencesExt

UrgencyDays == 7   \* urgencyThreshold

EligibleVouchers(cart, vouchers) ==
    Kept(vouchers, {i \in DOMAIN vouchers :
        LET v == vouchers[i]
        IN  /\ v.merchant = cart.merchant
            /\ v.value > 0
            /\ v.daysLeft > 0
            /\ \A m \in v.minimumSpend : cart.total >= m})

\* the membership counts whatever its own validity
IsBenefitEligible(b, cart, memberships) ==
    /\ b.merchant = cart.merchant
    /\ b.program \in memberships
    /\ \A days \in b.validFor : days > 0
    /\ CheckEligibility(cart, b.conditions)

\* applyVoucher: amountBurned
Burn(v, total) ==
    IF v.value <= 0 \/ total <= 0 THEN 0
    ELSE IF v.value < total THEN v.value ELSE total

\* the bonus of a voucher about to expire, up to a tenth of its value, in
\* 70ths of a minor unit
UrgencyBonus(v) ==
    IF v.daysLeft <= UrgencyDays THEN v.value * (UrgencyDays - v.daysLeft) ELSE 0

\* a cart that no voucher has been applied to
Untouched(total) ==
    [vouchers |-> <<>>, savings |-> 0, remaining |-> total, steps |-> 0, urgency |-> 0]

\* the next voucher of a combination: listed in any case, a step if it burns
WithVoucher(c, v) ==
    LET burn == Burn(v, c.remaining)
    IN  [vouchers  |-> Append(c.vouchers, v),
         savings   |-> c.savings + burn,
         remaining |-> c.remaining - burn,
         steps     |-> c.steps + (IF burn > 0 THEN 1 ELSE 0),
         urgency   |-> c.urgency + UrgencyBonus(v)]

\* scoreCandidate, in 70ths
ScoreOf(c) == 10 * UrgencyDays * c.savings + c.urgency

\* mutant: the vouchers that expire first come first
SortByValue_ExpiryFirst(vouchers) ==
    Sorted(vouchers, {pair \in (DOMAIN vouchers) \X DOMAIN vouchers :
        LET a == vouchers[pair[1]]
            b == vouchers[pair[2]]
        IN  \/ a.daysLeft < b.daysLeft
            \/ a.daysLeft = b.daysLeft /\ a.value > b.value
            \/ a.daysLeft = b.daysLeft /\ a.value = b.value /\ pair[1] < pair[2]})

\* by value, then by expiry; vouchers equal in both stay in order
SortByValue(vouchers) ==
    Sorted(vouchers, {pair \in (DOMAIN vouchers) \X DOMAIN vouchers :
        LET a == vouchers[pair[1]]
            b == vouchers[pair[2]]
        IN  \/ a.value > b.value
            \/ a.value = b.value /\ a.daysLeft < b.daysLeft
            \/ a.value = b.value /\ a.daysLeft = b.daysLeft /\ pair[1] < pair[2]})

\* generateAllVoucherCombinations: each subset, applied in the sorted order;
\* found[n] has those of the first n vouchers
AllCombinations(vouchers, total) ==
    LET found[n \in 0..Len(vouchers)] ==
            IF n = 0 THEN {Untouched(total)}
            ELSE found[n - 1] \cup {WithVoucher(c, vouchers[n]) : c \in found[n - 1]}
    IN  found[Len(vouchers)]

-----------------------------------------------------------------------------
(* generateStackingCombinations: what becomes of the combinations found    *)

VouchersOnly(c) ==
    [vouchers |-> c.vouchers, voucherSavings |-> c.savings, partner |-> {},
     partnerSavings |-> 0, residual |-> c.remaining, steps |-> c.steps]

\* mutant: the perk is worth what it would be on the whole cart
WithPartner_WholeCart(c, b, cart) ==
    LET off == CalculateBenefit(cart, b.benefit)
    IN  [VouchersOnly(c) EXCEPT !.partner = {b}, !.partnerSavings = off,
                                !.residual = @ - off, !.steps = @ + 1]

\* a perk on top of vouchers sees a cart whose total and subtotal are what
\* the vouchers left, a perk alone sees the cart
WithPartner(c, b, cart) ==
    LET seen == IF c.vouchers = <<>> THEN cart
                ELSE [cart EXCEPT !.total = c.remaining, !.subtotal = c.remaining]
        off == CalculateBenefit(seen, b.benefit)
    IN  [VouchersOnly(c) EXCEPT !.partner = {b}, !.partnerSavings = off,
                                !.residual = @ - off, !.steps = @ + 1]

\* the base, vouchers only, partner only, both; found is a set of combinations
StackingResults(cart, perks, found) ==
    LET stacks == {c \in found : c.vouchers # <<>>}
        base == Untouched(cart.total)
    IN  {VouchersOnly(c) : c \in stacks \cup {base}}
        \cup {WithPartner(base, b, cart) : b \in perks}
        \cup {WithPartner(c, b, cart) : c \in stacks,
                                        b \in {p \in perks : p.stackableWithVouchers}}
=============================================================================
