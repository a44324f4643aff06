--------------------------- MODULE BenefitStacking ---------------------------
(***************************************************************************)
(* BenefitStackingEngine (stacking-engine.ts) over calls of                *)
(* generateStackingCombinations.  Few vouchers are combined in every way;  *)
(* more are gone through by descending value with a beam of the best       *)
(* partial combinations, each extended by the voucher or kept without it.  *)
(* A step is one candidate of the inner loop, or one place of the beam     *)
(* that selectTopK fills, or the start or end of a call.                   *)
(***************************************************************************)
EXTENDS VoucherCombinations

CONSTANTS
    Inventories,    \* voucher lists an engine may be made with
    Calls,          \* carts, with the memberships and perks of the user
    BeamWidth,
    ExactLimit,     \* so many vouchers are combined in every way; 5
    MaxStack,       \* MAX_VOUCHERS_PER_STACK
    MaxMemo,        \* MEMO_CACHE_MAX_ENTRIES
    MaxCalls        \* bound: calls of one engine

Voucher ==
    [id : Nat, merchant : STRING, value : Nat, daysLeft : Int, minimumSpend : SUBSET Nat]

\* what a percentage, cashback or points give is a share of an amount
PerkIsShare(benefit) ==
    /\ benefit.cap \subseteq Int /\ \A m, n \in benefit.cap : m = n
    /\ \/ benefit.type = "FIXED_DISCOUNT" /\ benefit.value \in Int
       \/ /\ benefit.type \in {"PERCENTAGE_DISCOUNT", "CASHBACK", "POINTS"}
          /\ benefit.value \in 0..RateScale

\* the memo and the display know a voucher by its id, so ids are unique; perks
\* are those of the catalog that the package has built in
ASSUME StackingAssumption ==
    /\ \A inventory \in Inventories :
        /\ inventory \in Seq(Voucher)
        /\ \A i, j \in DOMAIN inventory : inventory[i].id = inventory[j].id => i = j
    /\ \A call \in Calls :
        /\ {"subtotal", "total"} \subseteq DOMAIN call.cart
        /\ call.cart.total \in Nat /\ call.cart.subtotal \in Int
        /\ \A b \in call.perks : PerkIsShare(b.benefit)
    /\ RateScale \in Nat \ {0} /\ BeamWidth \in Nat \ {0} /\ MaxStack \in Nat \ {0}
    /\ ExactLimit \in Nat /\ MaxMemo \in Nat /\ MaxCalls \in Nat

VARIABLES
    inventory,   \* voucherManager.vouchers
    call,        \* arguments of the current call
    sorted,      \* its eligible vouchers
    at,          \* the voucher the outer loop is at; past the end when it is over
    beam,        \* candidates before that voucher
    next,        \* the candidate the inner loop is at
    pool,        \* newCandidates
    chosen,      \* places of pool that selectTopK has taken, best first
    memo,        \* memoCache: a set of ids to a candidate
    greedy,      \* auxiliary: what burning every voucher so far would save
    results, calls

stackingVars == <<inventory, call, sorted, at, beam, next, pool, chosen, memo, greedy, results,
                  calls>>

\* nothing under way: before the first call, or after one
Idle == at > Len(sorted)

StackingInit ==
    /\ inventory \in Inventories
    /\ call \in Calls
    /\ sorted = <<>> /\ at = 1
    /\ beam = <<>> /\ next = 1 /\ pool = <<>> /\ chosen = <<>>
    /\ memo = <<>>
    /\ greedy = 0
    /\ results = {} /\ calls = 0

Perks(r) == {b \in r.perks : IsBenefitEligible(b, r.cart, r.memberships)}

\* generateStackingCombinations up to the beam's loop, or whole without it
Begin(r) ==
    LET vouchers == SortByValue(EligibleVouchers(r.cart, inventory))
    IN  /\ Idle /\ calls < MaxCalls
        /\ call' = r /\ calls' = calls + 1
        /\ memo' = <<>>
        /\ IF Len(vouchers) <= ExactLimit
           THEN /\ results' = StackingResults(r.cart, Perks(r),
                                  IF vouchers = <<>> THEN {}
                                  ELSE AllCombinations(vouchers, r.cart.total))
                /\ sorted' = <<>> /\ beam' = <<>>
           ELSE /\ results' = {}
                /\ sorted' = vouchers /\ beam' = <<Untouched(r.cart.total)>>
        /\ at' = 1 /\ next' = 1 /\ pool' = <<>> /\ chosen' = <<>>
        /\ greedy' = 0
        /\ UNCHANGED inventory

-----------------------------------------------------------------------------
(* The inner loop: one candidate meets the voucher                         *)

\* the cart is covered, or the stack is full
Closed(c) == c.remaining <= 0 \/ Len(c.vouchers) >= MaxStack

KeyOf(c, v) == {c.vouchers[i].id : i \in DOMAIN c.vouchers} \cup {v.id}

Keep(c) == pool' = Append(pool, c) /\ UNCHANGED memo

\* a hit replaces the candidate, also the one without the voucher
Recall(c, v) ==
    pool' = Append(pool, memo[KeyOf(c, v)]) /\ UNCHANGED memo

\* with the voucher, and without
Branch(c, v) ==
    LET more == WithVoucher(c, v)
    IN  /\ pool' = pool \o <<more, c>>
        /\ memo' = IF Cardinality(DOMAIN memo) < MaxMemo
                   THEN [key \in DOMAIN memo \cup {KeyOf(c, v)} |->
                            IF key = KeyOf(c, v) THEN more ELSE memo[key]]
                   ELSE memo

Extend ==
    /\ ~Idle /\ next <= Len(beam)
    /\ LET c == beam[next]
           v == sorted[at]
       IN  IF Closed(c) THEN Keep(c)
           ELSE IF KeyOf(c, v) \in DOMAIN memo THEN Recall(c, v)
           ELSE Branch(c, v)
    /\ next' = next + 1
    /\ UNCHANGED <<inventory, call, sorted, at, beam, chosen, greedy, results, calls>>

-----------------------------------------------------------------------------
(* selectTopK: the best by score, the earlier of equal ones, BeamWidth of  *)
(* them                                                                    *)

Taken == {chosen[i] : i \in DOMAIN chosen}

\* mutant: the worst first
Ahead_Ascending(p, q) ==
    ScoreOf(pool[p]) < ScoreOf(pool[q]) \/ (ScoreOf(pool[p]) = ScoreOf(pool[q]) /\ p < q)

Ahead(p, q) ==
    ScoreOf(pool[p]) > ScoreOf(pool[q]) \/ (ScoreOf(pool[p]) = ScoreOf(pool[q]) /\ p < q)

BeamIsFull == Len(chosen) = BeamWidth \/ Taken = DOMAIN pool

Select(p) ==
    /\ ~Idle /\ next > Len(beam) /\ ~BeamIsFull
    /\ p \notin Taken
    /\ \A q \in DOMAIN pool \ (Taken \cup {p}) : Ahead(p, q)
    /\ chosen' = Append(chosen, p)
    /\ UNCHANGED <<inventory, call, sorted, at, beam, next, pool, memo, greedy,
                   results, calls>>

\* the outer loop goes on; after the last voucher the results are put together
NextVoucher ==
    /\ ~Idle /\ next > Len(beam) /\ BeamIsFull
    /\ beam' = [i \in DOMAIN chosen |-> pool[chosen[i]]]
    /\ at' = at + 1 /\ next' = 1 /\ pool' = <<>> /\ chosen' = <<>>
    /\ greedy' = IF at <= MaxStack
                 THEN greedy + Burn(sorted[at], call.cart.total - greedy) ELSE greedy
    /\ results' = IF at = Len(sorted)
                  THEN StackingResults(call.cart, Perks(call), {beam'[i] : i \in DOMAIN beam'})
                  ELSE results
    /\ UNCHANGED <<inventory, call, sorted, memo, calls>>

StackingNext ==
    \/ \E r \in Calls : Begin(r)
    \/ Extend
    \/ \E p \in DOMAIN pool : Select(p)
    \/ NextVoucher

StackingSpec == StackingInit /\ [][StackingNext]_stackingVars

-----------------------------------------------------------------------------
InBeam == {beam[i] : i \in DOMAIN beam}
(***************************************************************************)
(* The beam may drop the combination that saves most, for the bonus of     *)
(* vouchers about to expire; it never drops below ten elevenths of what    *)
(* burning the vouchers in order, as many as a stack may have, would save. *)
(* A narrow beam, early exits and the memo lose no more than that.         *)
(***************************************************************************)
NearlyBest ==
    beam # <<>> /\ next = 1 => \E c \in InBeam : 11 * c.savings >= 10 * greedy

(***************************************************************************)
(* And burning in order, by descending value, is the best there is: no     *)
(* choice of so many vouchers among those seen saves more.  Together with  *)
(* NearlyBest: the greedy sort makes the beam's loss bounded.              *)
(***************************************************************************)
GreedyIsBest ==
    \A picked \in SUBSET (1..at - 1) :
        Cardinality(picked) <= MaxStack =>
            LET value == Total([i \in picked |-> sorted[i].value])
            IN  greedy >= IF value < call.cart.total THEN value ELSE call.cart.total

(***************************************************************************)
(* What is promised adds up: vouchers, perk and the rest to pay make the   *)
(* cart's total; every voucher was eligible when it was applied, a perk    *)
(* joins vouchers only where it may; and the rest to pay is never          *)
(* negative, except where the cart's own total is below the subtotal that  *)
(* a perk without vouchers is computed from.                               *)
(***************************************************************************)
ResultsAddUp ==
    \A s \in results :
        /\ s.voucherSavings + s.partnerSavings + s.residual = call.cart.total
        /\ \A i \in DOMAIN s.vouchers :
            s.vouchers[i].daysLeft > 0 /\ s.vouchers[i].merchant = call.cart.merchant
        /\ s.vouchers # <<>> => \A b \in s.partner : b.stackableWithVouchers
        /\ \/ s.residual >= 0
           \/ s.vouchers = <<>> /\ call.cart.total < call.cart.subtotal
=============================================================================
