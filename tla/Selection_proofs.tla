-------------------------- MODULE Selection_proofs --------------------------
(***************************************************************************)
(* Proofs about what is selected for a cart: payment strategies            *)
(* (StrategySelection, any requests and limits) and combinations of        *)
(* vouchers and perks (BenefitStacking, any inventories, calls, widths and *)
(* limits).                                                                *)
(*                                                                         *)
(* ParetoFront speaks of everything considered so far and is not inductive *)
(* in that form.  What a round of the loop keeps is that nothing ahead is  *)
(* cheaper than anything behind (CheapestFirst), that no accepted strategy *)
(* dominates another (Antichain), and that every strategy considered has   *)
(* an accepted one that is it or dominates it (Covered).  Dominance is     *)
(* transitive, so the last two make the front.                             *)
(***************************************************************************)
EXTENDS StrategySelection, BenefitStacking, Packages_proofs

CheapestFirst ==
    \A c \in Considered, r \in remaining : c.effectiveCost <= r.effectiveCost

Antichain == \A a, b \in accepted : ~Dominates(a, b)

Covered ==
    \A c \in Considered : \E a \in accepted : a = c \/ Dominates(a, c)

FromConsidered == accepted \subseteq Considered

\* the first place goes to a strategy that no other acceptable one precedes
First ==
    ranked # <<>> =>
        \A s \in accepted : Acceptable(s) => ~RanksBefore(s, ranked[1])

IInv == TypeOK /\ FromConsidered /\ CheapestFirst /\ Antichain /\ Covered /\ First

-----------------------------------------------------------------------------
LEMMA CandidatesAreStrategies ==
    ASSUME TypeOK
    PROVE  request.candidates \subseteq PaymentStrategy
BY SelectionAssumption DEF TypeOK

\* dominance is a strict order
LEMMA DominatesTransitive ==
    ASSUME NEW a \in PaymentStrategy, NEW b \in PaymentStrategy, NEW c \in PaymentStrategy,
           Dominates(a, b), Dominates(b, c)
    PROVE  Dominates(a, c)
BY DEF Dominates, PaymentStrategy

LEMMA DominatesIrreflexive ==
    ASSUME NEW a \in PaymentStrategy
    PROVE  ~Dominates(a, a)
BY DEF Dominates, PaymentStrategy

\* what dominates an acceptable strategy is acceptable
LEMMA DominatesAcceptable ==
    ASSUME NEW a \in PaymentStrategy, NEW b \in PaymentStrategy, Dominates(a, b), Acceptable(b)
    PROVE  Acceptable(a)
BY SelectionAssumption DEF Dominates, Acceptable, PaymentStrategy

LEMMA InitIInv == Init => IInv
<1> SUFFICES ASSUME Init PROVE IInv
  OBVIOUS
<1>1. TypeOK
  BY DEF Init, TypeOK
<1>2. Considered = {}
  BY DEF Init, Considered
<1>3. FromConsidered /\ CheapestFirst /\ Antichain /\ Covered /\ First
  BY <1>2 DEF Init, FromConsidered, CheapestFirst, Antichain, Covered, First
<1> QED
  BY <1>1, <1>3 DEF IInv

-----------------------------------------------------------------------------
(* One round of the pruning loop.                                          *)

LEMMA ConsiderKeeps ==
    ASSUME IInv, NEW c \in remaining, Consider(c)
    PROVE  IInv'
<1> USE DEF IInv
<1> DEFINE beaten == \E a \in accepted : Dominates(a, c)
<1>1. /\ request' = request /\ ranked' = ranked /\ ranked = <<>>
      /\ remaining' = remaining \ {c}
      /\ accepted' = IF beaten THEN accepted ELSE (accepted \ OustedBy(c)) \cup {c}
  BY DEF Consider, TypeOK
<1>2. c \in request.candidates /\ request.candidates \subseteq PaymentStrategy
  BY CandidatesAreStrategies DEF TypeOK
<1>3. Considered' = Considered \cup {c}
  BY <1>1, <1>2 DEF Considered
<1>4. accepted \subseteq PaymentStrategy /\ Considered \subseteq PaymentStrategy /\ c \in PaymentStrategy
  BY <1>2 DEF TypeOK, Considered
<1>5. TypeOK'
  BY <1>1, <1>2 DEF TypeOK
<1>6. FromConsidered'
  BY <1>1, <1>3 DEF FromConsidered
<1>7. CheapestFirst'
  <2> SUFFICES ASSUME NEW d \in Considered', NEW r \in remaining'
               PROVE  d.effectiveCost <= r.effectiveCost
    BY DEF CheapestFirst
  <2>1. r \in remaining
    BY <1>1
  <2>2. CASE d = c
    BY <2>1, <2>2 DEF Consider
  <2>3. CASE d \in Considered
    BY <2>1, <2>3 DEF CheapestFirst
  <2> QED
    BY <1>3, <2>2, <2>3
<1>8. Antichain'
  <2> SUFFICES ASSUME NEW a \in accepted', NEW b \in accepted'
               PROVE  ~Dominates(a, b)
    BY DEF Antichain, Dominates
  <2>1. CASE a \in accepted /\ b \in accepted
    BY <2>1 DEF Antichain
  <2>2. CASE ~beaten /\ a \in accepted /\ b = c
    BY <2>2
  <2>3. CASE ~beaten /\ a = c /\ b \in accepted \ OustedBy(c)
    <3>1. b.effectiveCost <= c.effectiveCost
      BY <2>3 DEF FromConsidered, CheapestFirst
    <3>2. SUFFICES ASSUME Dominates(c, b) PROVE FALSE
      BY <2>3
    <3>3. b.effectiveCost = c.effectiveCost
      BY <1>4, <2>3, <3>1, <3>2 DEF Dominates, PaymentStrategy
    <3> QED
      BY <2>3, <3>2, <3>3 DEF OustedBy
  <2>4. CASE a = c /\ b = c
    BY <1>4, <2>4, DominatesIrreflexive
  <2> QED
    BY <1>1, <2>1, <2>2, <2>3, <2>4
<1>9. Covered'
  <2> SUFFICES ASSUME NEW d \in Considered'
               PROVE  \E a \in accepted' : a = d \/ Dominates(a, d)
    BY DEF Covered, Dominates
  <2>1. CASE beaten
    <3>1. accepted' = accepted
      BY <1>1, <2>1
    <3> QED
      BY <1>3, <2>1, <3>1 DEF Covered
  <2>2. CASE ~beaten /\ d = c
    BY <1>1, <2>2
  <2>3. CASE ~beaten /\ d \in Considered
    <3>1. PICK a \in accepted : a = d \/ Dominates(a, d)
      BY <2>3 DEF Covered
    <3>2. CASE a \notin OustedBy(c)
      BY <1>1, <2>3, <3>1, <3>2
    <3>3. CASE a \in OustedBy(c)
      <4>1. Dominates(c, a)
        BY <3>3 DEF OustedBy
      <4>2. Dominates(c, d)
        BY <1>4, <2>3, <3>1, <4>1, DominatesTransitive
      <4> QED
        BY <1>1, <2>3, <4>2
    <3> QED
      BY <3>2, <3>3
  <2> QED
    BY <1>3, <2>1, <2>2, <2>3
<1>10. First'
  BY <1>1 DEF First
<1> QED
  BY <1>5, <1>6, <1>7, <1>8, <1>9, <1>10

(* One place of the answer.                                                *)

LEMMA RankKeeps ==
    ASSUME IInv, remaining = {}, NEW s \in ToRank, Rank(s)
    PROVE  IInv'
<1> USE DEF IInv
<1>1. /\ request' = request /\ remaining' = remaining /\ accepted' = accepted
      /\ ranked' = Append(ranked, s)
  BY DEF Rank
<1>2. s \in accepted /\ ranked \in Seq(accepted)
  BY DEF ToRank, TypeOK
<1>3. TypeOK'
  BY <1>1, <1>2 DEF TypeOK
<1>4. FromConsidered' /\ CheapestFirst' /\ Antichain' /\ Covered'
  BY <1>1 DEF FromConsidered, CheapestFirst, Antichain, Covered, Considered, Dominates
<1>5. First'
  <2>1. CASE ranked = <<>>
    <3>1. InAnswer = {}
      BY <2>1 DEF InAnswer
    <3>2. \A t \in accepted : Acceptable(t) => ~RanksBefore(t, s)
      BY <3>1 DEF Rank, ToRank
    <3>3. ranked'[1] = s
      BY <1>1, <2>1
    <3> QED
      BY <1>1, <3>2, <3>3 DEF First, Acceptable, RanksBefore, Score
  <2>2. CASE ranked # <<>>
    <3>1. ranked'[1] = ranked[1]
      BY <1>1, <1>2, <2>2
    <3> QED
      BY <1>1, <2>2, <3>1 DEF First, Acceptable, RanksBefore, Score
  <2> QED
    BY <2>1, <2>2
<1> QED
  BY <1>3, <1>4, <1>5

LEMMA NextIInv == IInv /\ [Next]_vars => IInv'
<1> SUFFICES ASSUME IInv, [Next]_vars PROVE IInv'
  OBVIOUS
<1>1. CASE \E c \in remaining : Consider(c)
  BY <1>1, ConsiderKeeps
<1>2. CASE remaining = {} /\ \E s \in ToRank : Rank(s)
  BY <1>2, RankKeeps
<1>3. CASE UNCHANGED vars
  BY <1>3 DEF vars, IInv, TypeOK, FromConsidered, CheapestFirst, Antichain, Covered, First,
     Considered, Dominates, Acceptable, RanksBefore, Score
<1> QED
  BY <1>1, <1>2, <1>3 DEF Next

(***************************************************************************)
(* The inductive invariant of pruning and ranking (pruner.ts, ranker.ts).  *)
(***************************************************************************)
THEOREM Invariance == Spec => []IInv
BY InitIInv, NextIInv, PTL DEF Spec

(***************************************************************************)
(* Only accepted strategies are ranked, and only when the pruning is over. *)
(***************************************************************************)
THEOREM TypeCorrect == Spec => []TypeOK
<1>1. IInv => TypeOK
  BY DEF IInv
<1> QED
  BY <1>1, Invariance, PTL

(***************************************************************************)
(* filterDominated computes the Pareto front, of any candidates, in any    *)
(* order among equal costs.                                                *)
(***************************************************************************)
THEOREM KeepsTheFront == Spec => []ParetoFront
<1>1. IInv => ParetoFront
  <2> SUFFICES ASSUME IInv PROVE ParetoFront
    OBVIOUS
  <2>1. Considered \subseteq PaymentStrategy /\ accepted \subseteq Considered
    BY CandidatesAreStrategies DEF IInv, Considered, FromConsidered
  <2>2. ASSUME NEW a \in accepted, NEW d \in Considered, Dominates(d, a)
        PROVE  FALSE
    <3>1. PICK b \in accepted : b = d \/ Dominates(b, d)
      BY DEF IInv, Covered
    <3>2. Dominates(b, a)
      BY <2>1, <2>2, <3>1, DominatesTransitive
    <3> QED
      BY <3>2 DEF IInv, Antichain
  <2>3. ASSUME NEW c \in Considered, \A d \in Considered : ~Dominates(d, c)
        PROVE  c \in accepted
    BY <2>1, <2>3 DEF IInv, Covered
  <2> QED
    BY <2>1, <2>2, <2>3 DEF ParetoFront
<1> QED
  BY <1>1, Invariance, PTL

-----------------------------------------------------------------------------
\* every acceptable candidate is represented in a complete answer
LEMMA Represented ==
    ASSUME IInv, Answered, NEW c \in request.candidates, Acceptable(c)
    PROVE  \E s \in InAnswer :
               /\ s \in accepted /\ Acceptable(s)
               /\ s = c \/ Dominates(s, c)
<1>1. c \in Considered
  BY DEF Answered, Considered
<1>2. PICK a \in accepted : a = c \/ Dominates(a, c)
  BY <1>1 DEF IInv, Covered
<1>3. a \in PaymentStrategy /\ c \in PaymentStrategy
  BY CandidatesAreStrategies DEF IInv, TypeOK
<1>4. Acceptable(a)
  BY <1>2, <1>3, DominatesAcceptable
<1>5. a \in InAnswer
  BY <1>4 DEF Answered, ToRank
<1> QED
  BY <1>2, <1>4, <1>5

(***************************************************************************)
(* Filtering after pruning loses nothing: a strategy that meets the        *)
(* constraints of rankStrategies is dominated only by others that do.      *)
(***************************************************************************)
THEOREM LosesNothingBetter == Spec => []NothingBetterIsLost
<1>1. IInv => NothingBetterIsLost
  BY Represented DEF NothingBetterIsLost
<1> QED
  BY <1>1, Invariance, PTL

(***************************************************************************)
(* bestStrategy is the cheapest acceptable candidate, wherever cost and    *)
(* benefit are consistent.                                                 *)
(***************************************************************************)
THEOREM CheapestOnTop == Spec => []TopIsCheapest
<1>1. IInv => TopIsCheapest
  <2> SUFFICES ASSUME IInv, Answered, Consistent,
                      NEW c \in request.candidates, Acceptable(c)
               PROVE  ranked # <<>> /\ ranked[1].effectiveCost <= c.effectiveCost
    BY DEF TopIsCheapest
  <2>1. PICK s \in InAnswer : /\ s \in accepted /\ Acceptable(s)
                              /\ s = c \/ Dominates(s, c)
    BY Represented
  <2>2. ranked # <<>> /\ ranked \in Seq(accepted)
    BY <2>1 DEF InAnswer, IInv, TypeOK
  <2>3. ranked[1] \in accepted
    BY <2>2
  <2>4. /\ request.candidates \subseteq PaymentStrategy /\ accepted \subseteq request.candidates
        /\ request.total \in Int
    BY CandidatesAreStrategies, SelectionAssumption DEF IInv, TypeOK
  <2>5. s.totalBenefit <= ranked[1].totalBenefit
    BY <2>1, <2>2, <2>3, <2>4 DEF IInv, First, RanksBefore, PaymentStrategy
  <2>6. /\ s.effectiveCost + s.totalBenefit = request.total
        /\ ranked[1].effectiveCost + ranked[1].totalBenefit = request.total
    BY <2>1, <2>3, <2>4 DEF Consistent
  <2>7. s.effectiveCost <= c.effectiveCost
    BY <2>1, <2>4 DEF Dominates, PaymentStrategy
  <2>8. /\ s \in PaymentStrategy /\ c \in PaymentStrategy /\ ranked[1] \in PaymentStrategy
    BY <2>1, <2>3, <2>4
  <2>9. /\ ranked[1].effectiveCost \in Int /\ ranked[1].totalBenefit \in Int
        /\ s.effectiveCost \in Int /\ s.totalBenefit \in Int
        /\ c.effectiveCost \in Int
    BY <2>8 DEF PaymentStrategy
  <2>10. ASSUME NEW e \in Int, NEW b \in Int, NEW total \in Int,
                NEW f \in Int, NEW g \in Int,
                e + b = total, f + g = total, b <= g
         PROVE  f <= e
    BY <2>10
  <2>11. ranked[1].effectiveCost <= s.effectiveCost
    BY <2>4, <2>5, <2>6, <2>9, <2>10
  <2>12. ranked[1].effectiveCost <= c.effectiveCost
    BY <2>7, <2>9, <2>11
  <2> QED
    BY <2>2, <2>12
<1> QED
  BY <1>1, Invariance, PTL

-----------------------------------------------------------------------------
(* BenefitStacking: shares of an amount                                    *)

\* a share of an amount is no more than the amount
LEMMA ShareIsLess ==
    ASSUME NEW a \in Nat, NEW d \in Nat \ {0}, NEW r \in 0..d
    PROVE  (a * r) \div d \in Int /\ (a * r) \div d <= a
<1> DEFINE n == a * r
           q == n \div d
<1>1. n \in Nat
  OBVIOUS
<1> HIDE DEF n
<1>2. q \in Int /\ q * d <= n
  BY <1>1
<1> HIDE DEF q
<1>3. n <= a * d
  <2>1. a * (d - r) >= 0
    OBVIOUS
  <2>2. a * d = a * r + a * (d - r)
    OBVIOUS
  <2> QED
    BY <2>1, <2>2 DEF n
<1>4. q <= a
  <2> SUFFICES ASSUME q >= a + 1 PROVE FALSE
    BY <1>2
  <2>1. (q - a - 1) * d >= 0
    BY <1>2
  <2>2. q * d = (q - a - 1) * d + a * d + d
    BY <1>2
  <2> QED
    BY <1>1, <1>2, <1>3, <2>1, <2>2
<1> QED
  BY <1>2, <1>4 DEF n, q

-----------------------------------------------------------------------------
(* BenefitStacking: the vouchers of a call                                 *)

\* a voucher that the cart may use
Usable(v, cart) == v \in Voucher /\ v.merchant = cart.merchant /\ v.daysLeft > 0 /\ v.value > 0

\* the vouchers as the searches take them
InValueOrder(list, cart) ==
    /\ list \in Seq(Voucher)
    /\ \A i \in 1..Len(list) : Usable(list[i], cart)
    /\ \A i, j \in 1..Len(list) : i <= j => list[j].value <= list[i].value
    /\ \A i, j \in 1..Len(list) : list[i].id = list[j].id => i = j

\* what is eligible is in the order of the list, none of it twice
LEMMA EligibleFacts ==
    ASSUME NEW cart, NEW list \in Seq(Voucher),
           \A i, j \in 1..Len(list) : list[i].id = list[j].id => i = j
    PROVE  /\ EligibleVouchers(cart, list) \in Seq(Voucher)
           /\ \A i \in 1..Len(EligibleVouchers(cart, list)) :
                Usable(EligibleVouchers(cart, list)[i], cart)
           /\ \A i, j \in 1..Len(EligibleVouchers(cart, list)) :
                EligibleVouchers(cart, list)[i].id = EligibleVouchers(cart, list)[j].id => i = j
<1> DEFINE I == {i \in DOMAIN list :
                    LET v == list[i]
                    IN  /\ v.merchant = cart.merchant
                        /\ v.value > 0
                        /\ v.daysLeft > 0
                        /\ \A m \in v.minimumSpend : cart.total >= m}
           kept == Kept(list, I)
<1>1. I \in SUBSET (DOMAIN list) /\ DOMAIN list = 1..Len(list) /\ Len(list) \in Nat
  OBVIOUS
<1>2. EligibleVouchers(cart, list) = kept
  BY DEF EligibleVouchers
<1>3. \A i \in I : Usable(list[i], cart)
  BY DEF Usable
<1>4. I \in SUBSET (1..Len(list))
  BY <1>1
<1> HIDE DEF I
<1> HIDE DEF kept
<1>5. kept \in Seq(Voucher) /\ \E order : PlacesOf(order, kept, list, I)
  BY <1>1, KeptPlaces DEF kept
<1>6. PICK order \in [1..Len(kept) -> I] :
            /\ \A k, l \in 1..Len(kept) : k < l => order[k] < order[l]
            /\ \A k \in 1..Len(kept) : kept[k] = list[order[k]]
  BY <1>5 DEF PlacesOf
<1>7. Len(kept) \in Nat /\ \A k \in 1..Len(kept) : order[k] \in I /\ order[k] \in 1..Len(list)
  BY <1>4, <1>5, <1>6
<1>8. \A i \in 1..Len(kept) : Usable(kept[i], cart)
  BY <1>3, <1>6, <1>7
<1>9. ASSUME NEW i \in 1..Len(kept), NEW j \in 1..Len(kept), kept[i].id = kept[j].id
      PROVE  i = j
  <2>1. order[i] = order[j]
    BY <1>6, <1>7, <1>9
  <2>2. ~(i < j) /\ ~(j < i)
    BY <1>6, <1>7, <2>1
  <2> QED
    BY <1>7, <2>2
<1> QED
  BY <1>2, <1>5, <1>8, <1>9

\* the searches go through the vouchers by descending value
LEMMA SortedByValue ==
    ASSUME NEW cart, NEW list \in Seq(Voucher),
           \A i \in 1..Len(list) : Usable(list[i], cart),
           \A i, j \in 1..Len(list) : list[i].id = list[j].id => i = j
    PROVE  InValueOrder(SortByValue(list), cart) /\ Len(SortByValue(list)) = Len(list)
<1> DEFINE before == {pair \in (DOMAIN list) \X DOMAIN list :
                LET a == list[pair[1]]
                    b == list[pair[2]]
                IN  \/ a.value > b.value
                    \/ a.value = b.value /\ a.daysLeft < b.daysLeft
                    \/ a.value = b.value /\ a.daysLeft = b.daysLeft /\ pair[1] < pair[2]}
           result == Sorted(list, before)
<1>1. SortByValue(list) = result
  BY DEF SortByValue
<1>2. DOMAIN list = 1..Len(list) /\ Len(list) \in Nat
  OBVIOUS
<1>3. \A i \in 1..Len(list) : list[i].value \in Nat /\ list[i].daysLeft \in Int
  <2>1. \A i \in 1..Len(list) : list[i] \in Voucher
    BY <1>2
  <2> QED
    BY <2>1 DEF Voucher
<1>4. \A i, j \in 1..Len(list) : <<i, j>> \in before <=>
            \/ list[i].value > list[j].value
            \/ list[i].value = list[j].value /\ list[i].daysLeft < list[j].daysLeft
            \/ list[i].value = list[j].value /\ list[i].daysLeft = list[j].daysLeft /\ i < j
  BY <1>2
<1> HIDE DEF before
<1>5. Orders(before, DOMAIN list)
  <2>1. \A i \in 1..Len(list) : <<i, i>> \notin before
    BY <1>2, <1>3, <1>4
  <2>2. \A i, j \in 1..Len(list) : i # j => <<i, j>> \in before \/ <<j, i>> \in before
    BY <1>2, <1>3, <1>4, SMTT(30)
  <2>3. ASSUME NEW i \in 1..Len(list), NEW j \in 1..Len(list), NEW k \in 1..Len(list),
               <<i, j>> \in before, <<j, k>> \in before
        PROVE  <<i, k>> \in before
    BY <1>2, <1>3, <1>4, <2>3, SMTT(30)
  <2> QED
    BY <1>2, <2>1, <2>2, <2>3 DEF Orders
<1>6. /\ result \in Seq(Voucher) /\ Len(result) = Len(list)
      /\ \A k \in 1..Len(list) : \E i \in 1..Len(list) : result[k] = list[i]
      /\ \A k, l \in 1..Len(list) : k < l =>
            \E i, j \in 1..Len(list) :
                result[k] = list[i] /\ result[l] = list[j] /\ <<i, j>> \in before
  BY <1>5, SortedElements
<1> HIDE DEF result
<1>7. \A i, j \in 1..Len(list) : <<i, j>> \in before =>
        list[j].value <= list[i].value /\ list[i].id # list[j].id
  BY <1>3, <1>4
<1>8. \A k, l \in 1..Len(list) : k < l =>
        result[l].value <= result[k].value /\ result[l].id # result[k].id
  <2> SUFFICES ASSUME NEW k \in 1..Len(list), NEW l \in 1..Len(list), k < l
               PROVE  result[l].value <= result[k].value /\ result[l].id # result[k].id
    OBVIOUS
  <2>1. PICK i \in 1..Len(list), j \in 1..Len(list) :
            result[k] = list[i] /\ result[l] = list[j] /\ <<i, j>> \in before
    BY <1>6, ZenonT(60)
  <2> QED
    BY <1>7, <2>1
<1>9. \A k \in 1..Len(list) : Usable(result[k], cart) /\ result[k].value \in Nat
  BY <1>3, <1>6
<1>10. ASSUME NEW i \in 1..Len(result), NEW j \in 1..Len(result), i <= j
       PROVE  result[j].value <= result[i].value
  BY <1>6, <1>8, <1>9, <1>10
<1>11. ASSUME NEW i \in 1..Len(result), NEW j \in 1..Len(result), result[i].id = result[j].id
       PROVE  i = j
  <2>1. ~(i < j) /\ ~(j < i)
    BY <1>6, <1>8, <1>11
  <2> QED
    BY <2>1
<1> QED
  BY <1>1, <1>6, <1>9, <1>10, <1>11 DEF InValueOrder

-----------------------------------------------------------------------------
(* BenefitStacking: combinations of vouchers                               *)

\* vouchers that were eligible, and savings that add up; the bonus is a tenth
\* of what is saved, at most, or the cart is covered
Combination(c, cart) ==
    /\ c.vouchers \in Seq(Voucher)
    /\ \A i \in 1..Len(c.vouchers) : Usable(c.vouchers[i], cart)
    /\ c.savings \in Nat /\ c.remaining \in Nat /\ c.savings + c.remaining = cart.total
    /\ c.urgency \in Nat /\ (c.remaining = 0 \/ c.urgency <= 7 * c.savings)

\* the cart as it is is a combination of no vouchers
LEMMA UntouchedFacts ==
    ASSUME NEW cart, cart.total \in Nat
    PROVE  Combination(Untouched(cart.total), cart)
BY DEF Combination, Untouched

\* the bonus of a voucher is a tenth of its value, at most (70ths)
LEMMA BonusIsSmall ==
    ASSUME NEW v \in Voucher, v.daysLeft > 0
    PROVE  UrgencyBonus(v) \in 0..7 * v.value
<1>1. v.value \in Nat /\ v.daysLeft \in Int
  BY DEF Voucher
<1>2. ASSUME NEW d \in 1..7 PROVE v.value * (7 - d) \in 0..7 * v.value
  <2>1. d \in {1, 2, 3, 4, 5, 6, 7}
    BY <1>2
  <2> QED
    BY <1>1, <2>1
<1>3. CASE v.daysLeft <= 7
  BY <1>1, <1>2, <1>3 DEF UrgencyBonus, UrgencyDays
<1>4. CASE ~(v.daysLeft <= 7)
  BY <1>1, <1>4 DEF UrgencyBonus, UrgencyDays
<1> QED
  BY <1>3, <1>4

\* what a voucher adds to a combination
LEMMA WithVoucherFacts ==
    ASSUME NEW cart, NEW c, Combination(c, cart), NEW v \in Voucher, Usable(v, cart)
    PROVE  LET more == WithVoucher(c, v)
               burn == IF v.value < c.remaining THEN v.value ELSE c.remaining
           IN  /\ Combination(more, cart)
               /\ more.vouchers = Append(c.vouchers, v)
               /\ more.savings = c.savings + burn /\ burn \in Nat
               /\ more.urgency >= c.urgency
<1> DEFINE more == WithVoucher(c, v)
           burn == IF v.value < c.remaining THEN v.value ELSE c.remaining
<1>1. /\ c.vouchers \in Seq(Voucher)
      /\ \A i \in 1..Len(c.vouchers) : Usable(c.vouchers[i], cart)
      /\ c.savings \in Nat /\ c.remaining \in Nat /\ c.savings + c.remaining = cart.total
      /\ c.urgency \in Nat /\ (c.remaining = 0 \/ c.urgency <= 7 * c.savings)
  BY DEF Combination
<1>2. v.value \in Nat /\ v.value > 0 /\ v.daysLeft > 0
  BY DEF Usable, Voucher
<1>3. UrgencyBonus(v) \in 0..7 * v.value
  BY <1>2, BonusIsSmall
<1>4. Burn(v, c.remaining) = burn
  BY <1>1, <1>2 DEF Burn
<1>5. /\ more.vouchers = Append(c.vouchers, v)
      /\ more.savings = c.savings + burn /\ more.remaining = c.remaining - burn
      /\ more.urgency = c.urgency + UrgencyBonus(v)
  BY <1>4 DEF WithVoucher
<1> HIDE DEF more
<1>6. burn \in Nat /\ burn <= c.remaining /\ (burn = v.value \/ burn = c.remaining)
  BY <1>1, <1>2
<1> HIDE DEF burn
<1>7. more.urgency \in Nat /\ more.urgency >= c.urgency
  BY <1>1, <1>2, <1>3, <1>5
<1>8. /\ more.savings \in Nat /\ more.remaining \in Nat
      /\ more.savings + more.remaining = cart.total
  BY <1>1, <1>5, <1>6
<1>9. more.remaining = 0 \/ more.urgency <= 7 * more.savings
  BY <1>1, <1>2, <1>3, <1>5, <1>6, SMTT(30)
<1>10. /\ more.vouchers \in Seq(Voucher)
       /\ \A i \in 1..Len(more.vouchers) : Usable(more.vouchers[i], cart)
  BY <1>1, <1>5
<1> QED
  BY <1>5, <1>6, <1>7, <1>8, <1>9, <1>10 DEF Combination, more, burn

\* found has the combinations of the first vouchers, up to each one's place
IsFound(found, list, total) ==
    found = [n \in 0..Len(list) |->
                IF n = 0 THEN {Untouched(total)}
                ELSE found[n - 1] \cup {WithVoucher(c, list[n]) : c \in found[n - 1]}]

FoundUpTo(found, list, total, m) ==
    \A n \in 0..m : found[n] =
        IF n = 0 THEN {Untouched(total)}
        ELSE found[n - 1] \cup {WithVoucher(c, list[n]) : c \in found[n - 1]}

\* the recursion of AllCombinations has a solution
LEMMA FoundExists ==
    ASSUME NEW list, Len(list) \in Nat, NEW total
    PROVE  \E found : IsFound(found, list, total)
<1> DEFINE Bad == {m \in Nat : ~\E found : FoundUpTo(found, list, total, m)}
<1>1. Bad = {}
  <2> SUFFICES ASSUME Bad # {} PROVE FALSE
    OBVIOUS
  <2>1. PICK m \in Bad : \A k \in Bad : ~(k < m)
    <3>1. Bad \in SUBSET Nat
      OBVIOUS
    <3> HIDE DEF Bad
    <3> QED
      BY <3>1, LeastNumber
  <2>2. \E found : FoundUpTo(found, list, total, 0)
    <3> DEFINE found == [n \in 0..0 |-> {Untouched(total)}]
    <3>1. FoundUpTo(found, list, total, 0)
      BY DEF FoundUpTo
    <3> QED
      BY <3>1
  <2>3. m # 0 /\ m \in Nat /\ m - 1 \in Nat /\ m - 1 < m
    BY <2>1, <2>2
  <2>4. PICK less : FoundUpTo(less, list, total, m - 1)
    BY <2>1, <2>3
  <2> DEFINE new == less[m - 1] \cup {WithVoucher(c, list[m]) : c \in less[m - 1]}
             found == [n \in 0..m |-> IF n = m THEN new ELSE less[n]]
  <2>5. ASSUME NEW n \in 0..m
        PROVE  found[n] = IF n = 0 THEN {Untouched(total)}
                          ELSE found[n - 1] \cup {WithVoucher(c, list[n]) : c \in found[n - 1]}
    <3>1. CASE n = m
      <4>1. found[n] = new /\ found[n - 1] = less[m - 1] /\ n # 0
        BY <2>3, <3>1
      <4> QED
        BY <3>1, <4>1
    <3>2. CASE n # m
      <4>1. n \in 0..(m - 1) /\ found[n] = less[n]
        BY <2>3, <3>2
      <4>2. n # 0 => found[n - 1] = less[n - 1]
        BY <2>3, <4>1
      <4> HIDE DEF found
      <4> QED
        BY <2>4, <4>1, <4>2 DEF FoundUpTo
    <3> QED
      BY <3>1, <3>2
  <2>6. FoundUpTo(found, list, total, m)
    <3> HIDE DEF found
    <3> QED
      BY <2>5 DEF FoundUpTo
  <2> QED
    BY <2>1, <2>6
<1>2. PICK f : FoundUpTo(f, list, total, Len(list))
  BY <1>1
<1> DEFINE all == [n \in 0..Len(list) |-> f[n]]
           steps == [n \in 0..Len(list) |->
                        IF n = 0 THEN {Untouched(total)}
                        ELSE all[n - 1] \cup {WithVoucher(c, list[n]) : c \in all[n - 1]}]
<1>3. ASSUME NEW n \in 0..Len(list) PROVE all[n] = steps[n]
  <2>1. n # 0 => n - 1 \in 0..Len(list)
    OBVIOUS
  <2> QED
    BY <1>2, <2>1 DEF FoundUpTo
<1>4. all = steps
  BY <1>3
<1>5. IsFound(all, list, total)
  <2> HIDE DEF all
  <2> QED
    BY <1>4 DEF IsFound
<1> QED
  BY <1>5

\* what the exact search finds are combinations
LEMMA AllCombinationsFacts ==
    ASSUME NEW cart, cart.total \in Nat, NEW list \in Seq(Voucher),
           \A i \in 1..Len(list) : Usable(list[i], cart)
    PROVE  \A c \in AllCombinations(list, cart.total) : Combination(c, cart)
<1> DEFINE found == CHOOSE found : IsFound(found, list, cart.total)
<1>1. Len(list) \in Nat /\ \A i \in 1..Len(list) : list[i] \in Voucher
  OBVIOUS
<1>2. IsFound(found, list, cart.total)
  <2>1. \E f : IsFound(f, list, cart.total)
    BY <1>1, FoundExists
  <2> QED
    BY <2>1
<1>3. AllCombinations(list, cart.total) = found[Len(list)]
  BY DEF AllCombinations, IsFound
<1> HIDE DEF found
<1>4. \A n \in 0..Len(list) : found[n] =
        IF n = 0 THEN {Untouched(cart.total)}
        ELSE found[n - 1] \cup {WithVoucher(c, list[n]) : c \in found[n - 1]}
  BY <1>1, <1>2 DEF IsFound
<1> DEFINE Bad == {n \in 0..Len(list) : \E c \in found[n] : ~Combination(c, cart)}
<1>5. Bad = {}
  <2> SUFFICES ASSUME Bad # {} PROVE FALSE
    OBVIOUS
  <2>1. PICK m \in Bad : \A k \in Bad : ~(k < m)
    <3>1. Bad \in SUBSET Nat
      BY <1>1
    <3> HIDE DEF Bad
    <3> QED
      BY <3>1, LeastNumber
  <2>2. PICK c \in found[m] : ~Combination(c, cart)
    BY <2>1
  <2>3. m # 0
    BY <1>4, <2>1, <2>2, UntouchedFacts
  <2>4. m \in 1..Len(list) /\ m - 1 \in 0..Len(list) /\ m - 1 < m
    BY <1>1, <2>1, <2>3
  <2>5. \A d \in found[m - 1] : Combination(d, cart)
    BY <2>1, <2>4
  <2>6. c \in found[m - 1] \/ \E d \in found[m - 1] : c = WithVoucher(d, list[m])
    <3>1. found[m] = found[m - 1] \cup {WithVoucher(d, list[m]) : d \in found[m - 1]}
      BY <1>4, <2>3, <2>4
    <3> DEFINE new == {WithVoucher(d, list[m]) : d \in found[m - 1]}
    <3>2. c \in found[m - 1] \/ c \in new
      <4> HIDE DEF Bad
      <4> QED
        BY <2>2, <3>1
    <3> QED
      BY <3>2
  <2>7. ASSUME NEW d \in found[m - 1] PROVE Combination(WithVoucher(d, list[m]), cart)
    <3>1. Combination(d, cart) /\ list[m] \in Voucher /\ Usable(list[m], cart)
      BY <1>1, <2>4, <2>5
    <3> QED
      BY <3>1, WithVoucherFacts
  <2> QED
    BY <2>2, <2>5, <2>6, <2>7
<1> QED
  BY <1>1, <1>3, <1>5

\* the lower of a number and a cap, if there is one
LEMMA MinFacts ==
    ASSUME NEW x \in Int, NEW cap \in SUBSET Int, \A m, n \in cap : m = n
    PROVE  Min({x} \cup cap) \in Int /\ Min({x} \cup cap) <= x
<1> DEFINE s == {x} \cup cap
<1>1. \E y \in s : \A z \in s : y <= z
  <2>1. CASE cap = {}
    BY <2>1
  <2>2. CASE cap # {}
    <3>1. PICK m \in cap : TRUE
      BY <2>2
    <3>2. CASE m <= x
      BY <3>1, <3>2
    <3>3. CASE x <= m
      BY <3>1, <3>3
    <3> QED
      BY <3>1, <3>2, <3>3
  <2> QED
    BY <2>1, <2>2
<1>2. Min(s) \in s /\ \A z \in s : Min(s) <= z
  BY <1>1 DEF Min
<1> QED
  BY <1>2

\* a share of an amount is no more than the amount, or than nothing
LEMMA MultiplyFacts ==
    ASSUME NEW amount \in Int, RateScale \in Nat \ {0}, NEW rate \in 0..RateScale
    PROVE  /\ MultiplyMoney(amount, rate) \in Int
           /\ MultiplyMoney(amount, rate) <= amount \/ MultiplyMoney(amount, rate) <= 0
<1>1. CASE amount >= 0
  <2>1. (amount * rate) \div RateScale \in Int /\ (amount * rate) \div RateScale <= amount
    BY <1>1, ShareIsLess
  <2>2. amount * rate >= 0
    BY <1>1
  <2> QED
    BY <2>1, <2>2 DEF MultiplyMoney, Quotient
<1>2. CASE amount < 0
  <2> DEFINE n == -(amount * rate)
             q == n \div RateScale
  <2>1. amount * rate <= 0
    BY <1>2
  <2>2. amount * rate \in Int
    OBVIOUS
  <2>3. q \in Nat
    <3>1. n \in Nat
      BY <2>1, <2>2
    <3> HIDE DEF n
    <3> QED
      BY <3>1
  <2>4. CASE amount * rate >= 0
    <3>1. amount * rate = 0
      BY <2>1, <2>2, <2>4
    <3> QED
      BY <3>1 DEF MultiplyMoney, Quotient
  <2>5. CASE ~(amount * rate >= 0)
    <3>1. MultiplyMoney(amount, rate) = -q
      BY <2>5 DEF MultiplyMoney, Quotient
    <3> HIDE DEF q
    <3> QED
      BY <2>3, <3>1
  <2> QED
    BY <2>4, <2>5
<1> QED
  BY <1>1, <1>2

\* what a perk gives is no more than the total, the subtotal or nothing
LEMMA PerkFacts ==
    ASSUME NEW cart, cart.total \in Int, cart.subtotal \in Int,
           NEW benefit, PerkIsShare(benefit), RateScale \in Nat \ {0}
    PROVE  /\ CalculateBenefit(cart, benefit) \in Int
           /\ \/ CalculateBenefit(cart, benefit) <= cart.total
              \/ CalculateBenefit(cart, benefit) <= cart.subtotal
              \/ CalculateBenefit(cart, benefit) <= 0
<1> DEFINE off == CalculateBenefit(cart, benefit)
<1>1. benefit.cap \in SUBSET Int /\ \A m, n \in benefit.cap : m = n
  BY DEF PerkIsShare
<1>2. CASE benefit.type = "FIXED_DISCOUNT" /\ benefit.value \in Int
  <2>1. off = Min({cart.subtotal} \cup {benefit.value})
    <3>1. {benefit.value, cart.subtotal} = {cart.subtotal} \cup {benefit.value}
      OBVIOUS
    <3>2. off = Min({benefit.value, cart.subtotal})
      BY <1>2 DEF CalculateBenefit
    <3> QED
      BY <3>1, <3>2
  <2>2. {benefit.value} \in SUBSET Int /\ \A m, n \in {benefit.value} : m = n
    BY <1>2
  <2>3. off \in Int /\ off <= cart.subtotal
    BY <2>1, <2>2, MinFacts
  <2> QED
    BY <2>3
<1>3. CASE benefit.type = "PERCENTAGE_DISCOUNT" /\ benefit.value \in 0..RateScale
  <2>1. off = Min({MultiplyMoney(cart.subtotal, benefit.value)} \cup benefit.cap)
    BY <1>3 DEF CalculateBenefit
  <2>2. /\ MultiplyMoney(cart.subtotal, benefit.value) \in Int
        /\ \/ MultiplyMoney(cart.subtotal, benefit.value) <= cart.subtotal
           \/ MultiplyMoney(cart.subtotal, benefit.value) <= 0
    BY <1>3, MultiplyFacts
  <2>3. off \in Int /\ off <= MultiplyMoney(cart.subtotal, benefit.value)
    BY <1>1, <2>1, <2>2, MinFacts
  <2> QED
    BY <2>2, <2>3
<1>4. CASE benefit.type \in {"CASHBACK", "POINTS"} /\ benefit.value \in 0..RateScale
  <2>1. off = Min({MultiplyMoney(cart.total, benefit.value)} \cup benefit.cap)
    BY <1>4 DEF CalculateBenefit
  <2>2. /\ MultiplyMoney(cart.total, benefit.value) \in Int
        /\ \/ MultiplyMoney(cart.total, benefit.value) <= cart.total
           \/ MultiplyMoney(cart.total, benefit.value) <= 0
    BY <1>4, MultiplyFacts
  <2>3. off \in Int /\ off <= MultiplyMoney(cart.total, benefit.value)
    BY <1>1, <2>1, <2>2, MinFacts
  <2> QED
    BY <2>2, <2>3
<1>5. benefit.type \in {"PERCENTAGE_DISCOUNT", "CASHBACK", "POINTS"} =>
        benefit.type = "PERCENTAGE_DISCOUNT" \/ benefit.type \in {"CASHBACK", "POINTS"}
  OBVIOUS
<1> QED
  BY <1>2, <1>3, <1>4, <1>5 DEF PerkIsShare

-----------------------------------------------------------------------------
(* BenefitStacking: what results promise                                   *)

\* ResultsAddUp of one result
AddsUp(s, cart) ==
    /\ s.voucherSavings + s.partnerSavings + s.residual = cart.total
    /\ \A i \in DOMAIN s.vouchers :
        s.vouchers[i].daysLeft > 0 /\ s.vouchers[i].merchant = cart.merchant
    /\ s.vouchers # <<>> => \A b \in s.partner : b.stackableWithVouchers
    /\ \/ s.residual >= 0
       \/ s.vouchers = <<>> /\ cart.total < cart.subtotal

CartIsUsable(cart) ==
    /\ {"subtotal", "total"} \subseteq DOMAIN cart
    /\ cart.total \in Nat /\ cart.subtotal \in Int

\* a combination without a perk adds up
LEMMA VouchersOnlyAddUp ==
    ASSUME NEW cart, CartIsUsable(cart), NEW c, Combination(c, cart)
    PROVE  AddsUp(VouchersOnly(c), cart)
BY DEF AddsUp, VouchersOnly, Combination, Usable, CartIsUsable

\* a perk sees what the vouchers left, so it takes off no more
LEMMA WithPartnerAddsUp ==
    ASSUME NEW cart, CartIsUsable(cart), NEW c, Combination(c, cart),
           NEW b, PerkIsShare(b.benefit), RateScale \in Nat \ {0},
           c.vouchers = <<>> => c.remaining = cart.total,
           c.vouchers # <<>> => b.stackableWithVouchers
    PROVE  AddsUp(WithPartner(c, b, cart), cart)
<1> DEFINE seen == IF c.vouchers = <<>> THEN cart
                   ELSE [cart EXCEPT !.total = c.remaining, !.subtotal = c.remaining]
           off == CalculateBenefit(seen, b.benefit)
           s == WithPartner(c, b, cart)
<1>1. /\ c.savings \in Nat /\ c.remaining \in Nat /\ c.savings + c.remaining = cart.total
      /\ \A i \in DOMAIN c.vouchers :
            c.vouchers[i].daysLeft > 0 /\ c.vouchers[i].merchant = cart.merchant
  BY DEF Combination, Usable
<1>2. /\ seen.total \in Int /\ seen.subtotal \in Int /\ seen.total = c.remaining
      /\ c.vouchers # <<>> => seen.subtotal = c.remaining
      /\ c.vouchers = <<>> => seen.subtotal = cart.subtotal
  <2>1. CASE c.vouchers = <<>>
    BY <1>1, <2>1 DEF CartIsUsable
  <2>2. CASE c.vouchers # <<>>
    BY <1>1, <2>2 DEF CartIsUsable
  <2> QED
    BY <2>1, <2>2
<1> HIDE DEF seen
<1>3. off \in Int /\ (off <= seen.total \/ off <= seen.subtotal \/ off <= 0)
  BY <1>2, PerkFacts
<1>4. /\ s.vouchers = c.vouchers /\ s.voucherSavings = c.savings
      /\ s.partner = {b} /\ s.partnerSavings = off /\ s.residual = c.remaining - off
  BY DEF WithPartner, VouchersOnly, seen
<1> HIDE DEF off, s
<1>5. s.voucherSavings + s.partnerSavings + s.residual = cart.total
  BY <1>1, <1>3, <1>4 DEF CartIsUsable
<1>6. s.residual >= 0 \/ (s.vouchers = <<>> /\ cart.total < cart.subtotal)
  <2>1. CASE c.vouchers = <<>>
    BY <1>1, <1>2, <1>3, <1>4, <2>1 DEF CartIsUsable
  <2>2. CASE c.vouchers # <<>>
    BY <1>1, <1>2, <1>3, <1>4, <2>2
  <2> QED
    BY <2>1, <2>2
<1>7. s.vouchers # <<>> => \A perk \in s.partner : perk.stackableWithVouchers
  BY <1>4
<1> QED
  BY <1>1, <1>4, <1>5, <1>6, <1>7 DEF AddsUp, s

\* whatever combinations are found, the results made of them add up
LEMMA ResultsFacts ==
    ASSUME NEW cart, CartIsUsable(cart), RateScale \in Nat \ {0},
           NEW perks, \A b \in perks : PerkIsShare(b.benefit),
           NEW found, \A c \in found : Combination(c, cart)
    PROVE  \A s \in StackingResults(cart, perks, found) : AddsUp(s, cart)
<1> DEFINE stacks == {c \in found : c.vouchers # <<>>}
           base == Untouched(cart.total)
<1>1. /\ Combination(base, cart) /\ base.vouchers = <<>> /\ base.remaining = cart.total
  BY UntouchedFacts DEF CartIsUsable, Untouched
<1>2. \A c \in stacks : Combination(c, cart) /\ c.vouchers # <<>>
  OBVIOUS
<1> HIDE DEF base
<1> SUFFICES ASSUME NEW s \in StackingResults(cart, perks, found)
             PROVE  AddsUp(s, cart)
  OBVIOUS
<1>3. \/ \E c \in stacks \cup {base} : s = VouchersOnly(c)
      \/ \E b \in perks : s = WithPartner(base, b, cart)
      \/ \E c \in stacks : \E b \in perks :
            b.stackableWithVouchers /\ s = WithPartner(c, b, cart)
  BY DEF StackingResults, base
<1> HIDE DEF stacks
<1>4. CASE \E c \in stacks \cup {base} : s = VouchersOnly(c)
  <2>1. PICK c \in stacks \cup {base} : s = VouchersOnly(c)
    BY <1>4
  <2>2. Combination(c, cart)
    BY <1>1, <1>2
  <2> QED
    BY <2>1, <2>2, VouchersOnlyAddUp
<1>5. CASE \E b \in perks : s = WithPartner(base, b, cart)
  <2>1. PICK b \in perks : s = WithPartner(base, b, cart)
    BY <1>5
  <2> QED
    BY <1>1, <2>1, WithPartnerAddsUp
<1>6. CASE \E c \in stacks : \E b \in perks :
            b.stackableWithVouchers /\ s = WithPartner(c, b, cart)
  <2>1. PICK c \in stacks, b \in perks :
            b.stackableWithVouchers /\ s = WithPartner(c, b, cart)
    BY <1>6
  <2>2. Combination(c, cart) /\ c.vouchers # <<>>
    BY <1>2
  <2> QED
    BY <2>1, <2>2, WithPartnerAddsUp
<1> QED
  BY <1>3, <1>4, <1>5, <1>6

-----------------------------------------------------------------------------
(* BenefitStacking: the invariant of a search.  By score, something in the *)
(* beam or in the pool is always as good as burning the vouchers in order  *)
(* (LevelIsKept): the voucher is added to it, or it is closed.  That needs *)
(* the memo to have no answer, which would replace the candidate also      *)
(* where it is kept without the voucher: the beam and the pool hold no     *)
(* combination twice (PartsAreFound, PoolIsOfBeam), and the memo knows     *)
(* only those that have been through the loop (MemoIsOfPast).              *)

Candidate ==
    [vouchers : Seq(Voucher), savings : Nat, remaining : Nat, steps : Nat, urgency : Nat]

Names(c) == {c.vouchers[i].id : i \in 1..Len(c.vouchers)}

NamesUpTo(list, n) == {list[i].id : i \in 1..n}

\* a combination of some of the first vouchers of the list
Partial(c, list, n, cart) ==
    /\ c \in Candidate /\ Combination(c, cart)
    /\ Len(c.vouchers) <= n /\ Names(c) \subseteq NamesUpTo(list, n)

DistinctNames(list) ==
    \A i, j \in 1..Len(list) : Names(list[i]) = Names(list[j]) => i = j

NextGreedy ==
    IF at <= MaxStack THEN greedy + Burn(sorted[at], call.cart.total - greedy) ELSE greedy

SearchIsTyped ==
    /\ inventory \in Inventories /\ call \in Calls
    /\ InValueOrder(sorted, call.cart)
    /\ at \in 1..(Len(sorted) + 1) /\ greedy \in 0..call.cart.total
    /\ beam \in Seq(Candidate) /\ pool \in Seq(Candidate) /\ chosen \in Seq(Nat)
    /\ next \in 1..(Len(beam) + 1)
    /\ sorted = <<>> => beam = <<>>
    /\ next = 1 => pool = <<>>
    /\ Idle => next = 1

\* what is at hand are different combinations of the vouchers gone through
PartsAreFound ==
    /\ \A i \in 1..Len(beam) : Partial(beam[i], sorted, at - 1, call.cart)
    /\ \A i \in 1..Len(pool) : Partial(pool[i], sorted, at, call.cart)
    /\ DistinctNames(beam) /\ DistinctNames(pool)

\* what the inner loop has collected comes from what it has been through
PoolIsOfBeam ==
    \A p \in 1..Len(pool) : \E j \in 1..(next - 1) :
        Names(pool[p]) \in {Names(beam[j]), Names(beam[j]) \cup {sorted[at].id}}

\* the memo knows only combinations that the loops have been through
MemoIsOfPast ==
    ~Idle => \A k \in DOMAIN memo :
        /\ k \subseteq NamesUpTo(sorted, at)
        /\ sorted[at].id \in k =>
            \E j \in 1..(next - 1) : k = Names(beam[j]) \cup {sorted[at].id}

\* by score, something at hand is as good as burning in order
LevelIsKept ==
    sorted # <<>> =>
        \/ \E j \in next..Len(beam) : ScoreOf(beam[j]) >= 70 * greedy
        \/ \E q \in 1..Len(pool) : ScoreOf(pool[q]) >= 70 * NextGreedy

\* selectTopK takes places of the pool once, the best of them first
BestIsFirst ==
    /\ next <= Len(beam) => chosen = <<>>
    /\ \A i \in 1..Len(chosen) : chosen[i] \in 1..Len(pool)
    /\ \A i, j \in 1..Len(chosen) : chosen[i] = chosen[j] => i = j
    /\ Len(chosen) > 0 =>
        \A q \in 1..Len(pool) : ScoreOf(pool[q]) <= ScoreOf(pool[chosen[1]])

SearchInv ==
    /\ SearchIsTyped /\ PartsAreFound /\ PoolIsOfBeam /\ MemoIsOfPast
    /\ LevelIsKept /\ BestIsFirst

-----------------------------------------------------------------------------
\* what a call brings
LEMMA StackingCallFacts ==
    ASSUME NEW r \in Calls
    PROVE  CartIsUsable(r.cart) /\ \A b \in r.perks : PerkIsShare(b.benefit)
BY StackingAssumption DEF CartIsUsable

\* a candidate with one voucher more is one
LEMMA MoreIsCandidate ==
    ASSUME NEW c \in Candidate, NEW v \in Voucher
    PROVE  WithVoucher(c, v) \in Candidate
<1>1. /\ c.vouchers \in Seq(Voucher) /\ c.savings \in Nat /\ c.remaining \in Nat
      /\ c.steps \in Nat /\ c.urgency \in Nat /\ v.value \in Nat /\ v.daysLeft \in Int
  BY DEF Candidate, Voucher
<1>2. Burn(v, c.remaining) \in 0..c.remaining
  BY <1>1 DEF Burn
<1>3. UrgencyBonus(v) \in Nat
  <2>1. CASE v.daysLeft <= 7
    <3> DEFINE left == 7 - v.daysLeft
    <3>1. left \in Nat
      BY <1>1, <2>1
    <3> HIDE DEF left
    <3>2. v.value * left \in Nat
      BY <1>1, <3>1
    <3> QED
      BY <2>1, <3>2 DEF UrgencyBonus, UrgencyDays, left
  <2>2. CASE ~(v.daysLeft <= 7)
    BY <2>2 DEF UrgencyBonus, UrgencyDays
  <2> QED
    BY <2>1, <2>2
<1> DEFINE burn == Burn(v, c.remaining)
           bonus == UrgencyBonus(v)
           more == WithVoucher(c, v)
<1>4. more = [vouchers |-> Append(c.vouchers, v), savings |-> c.savings + burn,
              remaining |-> c.remaining - burn,
              steps |-> c.steps + (IF burn > 0 THEN 1 ELSE 0),
              urgency |-> c.urgency + bonus]
  BY DEF WithVoucher
<1> HIDE DEF burn, bonus, more
<1> QED
  BY <1>1, <1>2, <1>3, <1>4, SMTT(30) DEF Candidate, burn, bonus, more

\* a voucher is named in a stack after the ones before it
LEMMA NamesOfMore ==
    ASSUME NEW c \in Candidate, NEW v \in Voucher
    PROVE  Names(WithVoucher(c, v)) = Names(c) \cup {v.id} /\ KeyOf(c, v) = Names(c) \cup {v.id}
<1>1. c.vouchers \in Seq(Voucher) /\ WithVoucher(c, v).vouchers = Append(c.vouchers, v)
  BY DEF Candidate, WithVoucher
<1> DEFINE list == c.vouchers
           longer == WithVoucher(c, v).vouchers
<1>2. /\ Len(longer) = Len(list) + 1 /\ Len(list) \in Nat
      /\ \A i \in 1..Len(list) : longer[i] = list[i]
      /\ longer[Len(list) + 1] = v
  BY <1>1
<1>3. Names(WithVoucher(c, v)) = {longer[i].id : i \in 1..Len(longer)}
  BY DEF Names
<1>4. Names(c) = {list[i].id : i \in 1..Len(list)}
  BY DEF Names
<1> HIDE DEF longer
<1>5. {longer[i].id : i \in 1..Len(longer)} = {list[i].id : i \in 1..Len(list)} \cup {v.id}
  BY <1>2
<1>6. DOMAIN list = 1..Len(list)
  BY <1>1
<1> QED
  BY <1>3, <1>4, <1>5, <1>6 DEF KeyOf

\* the voucher the loop is at, of a list with no name twice
LEMMA NextVoucherFacts ==
    ASSUME NEW cart, NEW list, InValueOrder(list, cart), NEW n \in 1..Len(list)
    PROVE  /\ list[n] \in Voucher /\ Usable(list[n], cart)
           /\ list[n].id \notin NamesUpTo(list, n - 1)
           /\ NamesUpTo(list, n) = NamesUpTo(list, n - 1) \cup {list[n].id}
<1>1. list \in Seq(Voucher) /\ Usable(list[n], cart)
      /\ \A i, j \in 1..Len(list) : list[i].id = list[j].id => i = j
  BY DEF InValueOrder
<1>2. Len(list) \in Nat
  BY <1>1
<1>3. list[n].id \notin NamesUpTo(list, n - 1)
  BY <1>1, <1>2 DEF NamesUpTo
<1>4. NamesUpTo(list, n) = NamesUpTo(list, n - 1) \cup {list[n].id}
  BY <1>2 DEF NamesUpTo
<1> QED
  BY <1>1, <1>3, <1>4

\* so is it one of the vouchers up to the next, with it or without
LEMMA MorePartial ==
    ASSUME NEW cart, NEW list, InValueOrder(list, cart), NEW n \in 1..Len(list),
           NEW c, Partial(c, list, n - 1, cart)
    PROVE  Partial(c, list, n, cart) /\ Partial(WithVoucher(c, list[n]), list, n, cart)
<1> DEFINE v == list[n]
           more == WithVoucher(c, v)
<1>1. v \in Voucher /\ Usable(v, cart) /\ NamesUpTo(list, n) = NamesUpTo(list, n - 1) \cup {v.id}
  BY NextVoucherFacts
<1>2. /\ c \in Candidate /\ Combination(c, cart) /\ Len(c.vouchers) <= n - 1
      /\ Names(c) \subseteq NamesUpTo(list, n - 1) /\ c.vouchers \in Seq(Voucher)
  BY DEF Partial, Combination
<1> HIDE DEF v
<1>3. Combination(more, cart) /\ more.vouchers = Append(c.vouchers, v)
  BY <1>1, <1>2, WithVoucherFacts
<1>4. more \in Candidate /\ Names(more) = Names(c) \cup {v.id}
  BY <1>1, <1>2, MoreIsCandidate, NamesOfMore
<1>5. Len(more.vouchers) <= n /\ Len(c.vouchers) <= n
  <2>1. Len(more.vouchers) = Len(c.vouchers) + 1 /\ Len(c.vouchers) \in Nat
    BY <1>2, <1>3
  <2>2. n \in Int
    BY DEF InValueOrder
  <2> QED
    BY <1>2, <2>1, <2>2
<1> HIDE DEF more
<1>6. Partial(more, list, n, cart)
  BY <1>1, <1>2, <1>3, <1>4, <1>5 DEF Partial
<1>7. Partial(c, list, n, cart)
  BY <1>1, <1>2, <1>5 DEF Partial
<1> QED
  BY <1>6, <1>7 DEF more, v

\* a candidate as good as burning in order still is one voucher later, if it
\* takes the voucher or has nothing left to pay
LEMMA ScoresGrow ==
    ASSUME NEW cart, NEW c \in Candidate, Combination(c, cart), NEW v \in Voucher,
           Usable(v, cart), NEW g \in 0..cart.total, ScoreOf(c) >= 70 * g
    PROVE  /\ ScoreOf(WithVoucher(c, v)) >= 70 * (g + Burn(v, cart.total - g))
           /\ ScoreOf(WithVoucher(c, v)) >= 70 * g
           /\ c.remaining <= 0 => ScoreOf(c) >= 70 * (g + Burn(v, cart.total - g))
<1> DEFINE more == WithVoucher(c, v)
           burn == IF v.value < c.remaining THEN v.value ELSE c.remaining
           step == Burn(v, cart.total - g)
<1>1. /\ c.savings \in Nat /\ c.remaining \in Nat /\ c.savings + c.remaining = cart.total
      /\ c.urgency \in Nat /\ cart.total \in Nat /\ v.value \in Nat /\ v.value > 0
  BY DEF Combination, Usable, Voucher
<1>2. Combination(more, cart) /\ more.savings = c.savings + burn /\ more.urgency >= c.urgency
  BY WithVoucherFacts
<1>3. more.savings \in Nat /\ more.urgency \in Nat
  BY <1>2 DEF Combination
<1>4. step \in 0..v.value /\ step \in 0..(cart.total - g)
  BY <1>1 DEF Burn
<1> HIDE DEF more, step
<1>5. ScoreOf(more) = 70 * more.savings + more.urgency /\ ScoreOf(c) = 70 * c.savings + c.urgency
  BY <1>1, <1>3 DEF ScoreOf, UrgencyDays
<1>6. ScoreOf(more) >= 70 * (g + step)
  BY <1>1, <1>2, <1>3, <1>4, <1>5
<1>7. c.remaining <= 0 => ScoreOf(c) >= 70 * (g + step)
  BY <1>1, <1>4, <1>5
<1>8. ScoreOf(more) >= 70 * g
  BY <1>1, <1>3, <1>4, <1>5, <1>6
<1> QED
  BY <1>6, <1>7, <1>8 DEF more, step

\* a name that neither of two different sets has does not make them equal
LEMMA NameKeepsApart ==
    ASSUME NEW A, NEW B, NEW x, x \notin A, x \notin B, A # B
    PROVE  A \cup {x} # B \cup {x} /\ A # B \cup {x} /\ A \cup {x} # B
<1>1. PICK y : (y \in A /\ y \notin B) \/ (y \in B /\ y \notin A)
  OBVIOUS
<1> QED
  BY <1>1

\* what a step of the inner loop finds
LEMMA ExtendFacts ==
    ASSUME SearchInv, Extend
    PROVE  LET c == beam[next]
               v == sorted[at]
           IN  /\ next \in 1..Len(beam) /\ at \in 1..Len(sorted)
               /\ v \in Voucher /\ Usable(v, call.cart)
               /\ v.id \notin Names(c)
               /\ \A j \in 1..Len(beam) :
                    v.id \notin Names(beam[j]) /\ (j # next => Names(beam[j]) # Names(c))
               /\ Partial(c, sorted, at - 1, call.cart)
               /\ Partial(c, sorted, at, call.cart)
               /\ Partial(WithVoucher(c, v), sorted, at, call.cart)
               /\ Names(WithVoucher(c, v)) = Names(c) \cup {v.id}
               /\ KeyOf(c, v) = Names(c) \cup {v.id} /\ KeyOf(c, v) \notin DOMAIN memo
<1> DEFINE c == beam[next]
           v == sorted[at]
<1>1. /\ next \in 1..Len(beam) /\ at \in 1..Len(sorted) /\ ~Idle
      /\ InValueOrder(sorted, call.cart)
  <2>1. Len(sorted) \in Nat /\ Len(beam) \in Nat
    BY DEF SearchInv, SearchIsTyped, InValueOrder
  <2> QED
    BY <2>1 DEF Extend, Idle, SearchInv, SearchIsTyped
<1>2. /\ v \in Voucher /\ Usable(v, call.cart) /\ v.id \notin NamesUpTo(sorted, at - 1)
      /\ NamesUpTo(sorted, at) = NamesUpTo(sorted, at - 1) \cup {v.id}
  BY <1>1, NextVoucherFacts
<1>3. \A j \in 1..Len(beam) : Partial(beam[j], sorted, at - 1, call.cart)
  BY DEF SearchInv, PartsAreFound
<1>4. \A j \in 1..Len(beam) :
        v.id \notin Names(beam[j]) /\ (j # next => Names(beam[j]) # Names(c))
  <2>1. \A j \in 1..Len(beam) : Names(beam[j]) \subseteq NamesUpTo(sorted, at - 1)
    BY <1>3 DEF Partial
  <2>2. \A i, j \in 1..Len(beam) : Names(beam[i]) = Names(beam[j]) => i = j
    BY DEF SearchInv, PartsAreFound, DistinctNames
  <2> QED
    BY <1>1, <1>2, <2>1, <2>2
<1>5. Partial(c, sorted, at - 1, call.cart)
  BY <1>1, <1>3
<1>6. Partial(c, sorted, at, call.cart) /\ Partial(WithVoucher(c, v), sorted, at, call.cart)
  BY <1>1, <1>5, MorePartial
<1>7. Names(WithVoucher(c, v)) = Names(c) \cup {v.id} /\ KeyOf(c, v) = Names(c) \cup {v.id}
  <2>1. c \in Candidate
    BY <1>5 DEF Partial
  <2> QED
    BY <1>2, <2>1, NamesOfMore
<1>8. KeyOf(c, v) \notin DOMAIN memo
  <2> SUFFICES ASSUME KeyOf(c, v) \in DOMAIN memo PROVE FALSE
    OBVIOUS
  <2>1. PICK j \in 1..(next - 1) : KeyOf(c, v) = Names(beam[j]) \cup {v.id}
    BY <1>1, <1>7 DEF SearchInv, MemoIsOfPast
  <2>2. j \in 1..Len(beam) /\ j # next
    <3>1. Len(beam) \in Nat
      BY DEF SearchInv, SearchIsTyped
    <3> QED
      BY <1>1, <3>1
  <2>3. v.id \notin Names(beam[j]) /\ v.id \notin Names(c) /\ Names(beam[j]) # Names(c)
    BY <1>1, <1>4, <2>2
  <2> QED
    BY <1>7, <2>1, <2>3, NameKeepsApart
<1>9. v.id \notin Names(c)
  BY <1>1, <1>4
<1> HIDE DEF c, v
<1>10. /\ next \in 1..Len(beam) /\ at \in 1..Len(sorted)
       /\ v \in Voucher /\ Usable(v, call.cart)
       /\ v.id \notin Names(c)
       /\ \A j \in 1..Len(beam) :
            v.id \notin Names(beam[j]) /\ (j # next => Names(beam[j]) # Names(c))
       /\ Partial(c, sorted, at - 1, call.cart)
       /\ Partial(c, sorted, at, call.cart)
       /\ Partial(WithVoucher(c, v), sorted, at, call.cart)
       /\ Names(WithVoucher(c, v)) = Names(c) \cup {v.id}
       /\ KeyOf(c, v) = Names(c) \cup {v.id} /\ KeyOf(c, v) \notin DOMAIN memo
  BY <1>1, <1>2, <1>4, <1>5, <1>6, <1>7, <1>8, <1>9
<1> QED
  BY <1>10 DEF c, v

\* a pool with the candidate at its end, and with what it grows to before it
GrownBy(longer, list, c, more) ==
    /\ longer \in Seq(Candidate)
    /\ Len(longer) = Len(list) + 1 \/ Len(longer) = Len(list) + 2
    /\ \A p \in 1..Len(list) : longer[p] = list[p]
    /\ longer[Len(longer)] = c
    /\ Len(longer) = Len(list) + 2 => longer[Len(list) + 1] = more

\* both ways in which the inner loop adds to the pool
LEMMA GrownFacts ==
    ASSUME NEW list \in Seq(Candidate), NEW c \in Candidate, NEW more \in Candidate
    PROVE  /\ GrownBy(Append(list, c), list, c, more)
           /\ GrownBy(list \o <<more, c>>, list, c, more)
           /\ Len(list \o <<more, c>>) = Len(list) + 2
<1>1. GrownBy(Append(list, c), list, c, more)
  BY DEF GrownBy
<1> DEFINE longer == list \o <<more, c>>
<1>2. /\ longer \in Seq(Candidate) /\ Len(longer) = Len(list) + 2 /\ Len(list) \in Nat
      /\ \A p \in 1..Len(list) : longer[p] = list[p]
      /\ longer[Len(list) + 1] = more /\ longer[Len(list) + 2] = c
  OBVIOUS
<1> HIDE DEF longer
<1>3. GrownBy(longer, list, c, more)
  BY <1>2 DEF GrownBy
<1> QED
  BY <1>1, <1>2, <1>3 DEF longer

\* the places of a grown pool
LEMMA GrownPlaces ==
    ASSUME NEW list \in Seq(Candidate), NEW longer, NEW c, NEW more,
           GrownBy(longer, list, c, more), NEW p \in 1..Len(longer)
    PROVE  \/ p \in 1..Len(list) /\ longer[p] = list[p]
           \/ p = Len(list) + 1 /\ p # Len(longer) /\ longer[p] = more
           \/ p = Len(longer) /\ longer[p] = c
<1>1. Len(list) \in Nat /\ Len(longer) \in Nat
  BY DEF GrownBy
<1> QED
  BY <1>1 DEF GrownBy

\* what a step of the inner loop does: the memo never has the answer
LEMMA ExtendStep ==
    ASSUME SearchInv, Extend
    PROVE  /\ next' = next + 1
           /\ UNCHANGED <<inventory, call, sorted, at, beam, chosen, greedy, results>>
           /\ GrownBy(pool', pool, beam[next], WithVoucher(beam[next], sorted[at]))
           /\ ~Closed(beam[next]) => Len(pool') = Len(pool) + 2
           /\ \A k \in DOMAIN memo' : k \in DOMAIN memo \/ k = Names(beam[next]) \cup {sorted[at].id}
<1> DEFINE c == beam[next]
           v == sorted[at]
           more == WithVoucher(c, v)
<1>1. /\ c \in Candidate /\ more \in Candidate
      /\ KeyOf(c, v) = Names(c) \cup {v.id} /\ KeyOf(c, v) \notin DOMAIN memo
  BY ExtendFacts DEF Partial
<1>2. pool \in Seq(Candidate)
  BY DEF SearchInv, SearchIsTyped
<1>3. /\ GrownBy(Append(pool, c), pool, c, more) /\ GrownBy(pool \o <<more, c>>, pool, c, more)
      /\ Len(pool \o <<more, c>>) = Len(pool) + 2
  BY <1>1, <1>2, GrownFacts
<1>4. next' = next + 1 /\ UNCHANGED <<inventory, call, sorted, at, beam, chosen, greedy, results>>
  BY DEF Extend
<1>5. IF Closed(c) THEN Keep(c) ELSE IF KeyOf(c, v) \in DOMAIN memo THEN Recall(c, v)
      ELSE Branch(c, v)
  BY DEF Extend
<1> HIDE DEF c, v, more
<1>6. CASE Closed(c)
  <2>1. pool' = Append(pool, c) /\ memo' = memo
    BY <1>5, <1>6 DEF Keep
  <2> QED
    BY <1>3, <1>4, <1>6, <2>1 DEF c, v, more
<1>7. CASE ~Closed(c)
  <2>1. Branch(c, v)
    BY <1>1, <1>5, <1>7
  <2>2. pool' = pool \o <<more, c>>
    BY <2>1 DEF Branch, more
  <2>3. \A k \in DOMAIN memo' : k \in DOMAIN memo \/ k = KeyOf(c, v)
    <3>1. CASE memo' = memo
      BY <3>1
    <3>2. CASE memo' =
            [key \in DOMAIN memo \cup {KeyOf(c, v)} |->
                IF key = KeyOf(c, v) THEN WithVoucher(c, v) ELSE memo[key]]
      BY <3>2
    <3> QED
      BY <2>1, <3>1, <3>2 DEF Branch
  <2>4. \A k \in DOMAIN memo' : k \in DOMAIN memo \/ k = Names(c) \cup {v.id}
    BY <1>1, <2>3
  <2>5. GrownBy(pool', pool, c, more) /\ Len(pool') = Len(pool) + 2
    BY <1>3, <2>2
  <2> QED
    BY <1>4, <2>4, <2>5 DEF c, v, more
<1> QED
  BY <1>6, <1>7

\* numbers of a search
LEMMA SearchTypes ==
    ASSUME SearchInv
    PROVE  /\ Len(sorted) \in Nat /\ Len(beam) \in Nat /\ Len(pool) \in Nat /\ Len(chosen) \in Nat
           /\ at \in Nat \ {0} /\ next \in Nat \ {0} /\ greedy \in Nat /\ call.cart.total \in Nat
           /\ greedy <= call.cart.total /\ MaxStack \in Nat \ {0} /\ BeamWidth \in Nat \ {0}
           /\ at <= Len(sorted) + 1 /\ next <= Len(beam) + 1
           /\ Idle => at = Len(sorted) + 1
           /\ ~Idle => at <= Len(sorted)
<1>1. call \in Calls /\ sorted \in Seq(Voucher) /\ Len(sorted) \in Nat /\ Len(beam) \in Nat
      /\ Len(pool) \in Nat /\ Len(chosen) \in Nat
  BY DEF SearchInv, SearchIsTyped, InValueOrder
<1>2. call.cart.total \in Nat /\ MaxStack \in Nat \ {0} /\ BeamWidth \in Nat \ {0}
  BY <1>1, StackingAssumption
<1> QED
  BY <1>1, <1>2 DEF SearchInv, SearchIsTyped, Idle

\* and its size
LEMMA GrownSize ==
    ASSUME NEW list \in Seq(Candidate), NEW longer, NEW c, NEW more,
           GrownBy(longer, list, c, more)
    PROVE  /\ Len(longer) \in Nat /\ Len(longer) >= Len(list) + 1 /\ longer[Len(longer)] = c
           /\ \A p \in 1..Len(list) : p \in 1..Len(longer) /\ longer[p] = list[p]
           /\ Len(longer) = Len(list) + 2 =>
                Len(list) + 1 \in 1..Len(longer) /\ longer[Len(list) + 1] = more
<1>1. Len(list) \in Nat /\ Len(longer) \in Nat
  BY DEF GrownBy
<1> QED
  BY <1>1 DEF GrownBy

\* what the inner loop adds differs from all the pool has
LEMMA ExtendKeepsParts ==
    ASSUME SearchInv, Extend
    PROVE  SearchIsTyped' /\ PartsAreFound' /\ PoolIsOfBeam'
<1> DEFINE c == beam[next]
           v == sorted[at]
           more == WithVoucher(c, v)
<1>1. /\ next \in 1..Len(beam) /\ at \in 1..Len(sorted)
      /\ v.id \notin Names(c)
      /\ \A j \in 1..Len(beam) :
            v.id \notin Names(beam[j]) /\ (j # next => Names(beam[j]) # Names(c))
      /\ Partial(c, sorted, at, call.cart) /\ Partial(more, sorted, at, call.cart)
      /\ Names(more) = Names(c) \cup {v.id}
  BY ExtendFacts
<1>2. /\ next' = next + 1
      /\ UNCHANGED <<inventory, call, sorted, at, beam, chosen, greedy, results>>
      /\ GrownBy(pool', pool, c, more)
  BY ExtendStep
<1> HIDE DEF c, more
<1>3. SearchIsTyped'
  <2>1. pool' \in Seq(Candidate)
    BY <1>2 DEF GrownBy
  <2>2. next' \in 1..(Len(beam) + 1) /\ next' # 1 /\ ~Idle'
    BY <1>1, <1>2, SearchTypes DEF Idle
  <2> QED
    BY <1>1, <1>2, <2>1, <2>2 DEF SearchInv, SearchIsTyped
<1>4. \A p \in 1..Len(pool') :
        \/ p \in 1..Len(pool) /\ pool'[p] = pool[p]
        \/ p = Len(pool) + 1 /\ p # Len(pool') /\ pool'[p] = more
        \/ p = Len(pool') /\ pool'[p] = c
  <2>1. pool \in Seq(Candidate)
    BY DEF SearchInv, SearchIsTyped
  <2> QED
    BY <1>2, <2>1, GrownPlaces
<1>5. \A p \in 1..Len(pool') : Partial(pool'[p], sorted, at, call.cart)
  <2>1. \A p \in 1..Len(pool) : Partial(pool[p], sorted, at, call.cart)
    BY DEF SearchInv, PartsAreFound
  <2> QED
    BY <1>1, <1>4, <2>1
<1>6. \A p \in 1..Len(pool) : Names(pool[p]) # Names(c) /\ Names(pool[p]) # Names(more)
  <2> SUFFICES ASSUME NEW p \in 1..Len(pool)
               PROVE  Names(pool[p]) # Names(c) /\ Names(pool[p]) # Names(more)
    OBVIOUS
  <2>1. PICK j \in 1..(next - 1) :
            Names(pool[p]) = Names(beam[j]) \/ Names(pool[p]) = Names(beam[j]) \cup {v.id}
    BY DEF SearchInv, PoolIsOfBeam
  <2>2. j \in 1..Len(beam) /\ j # next
    BY <1>1, SearchTypes
  <2>3. v.id \notin Names(beam[j]) /\ v.id \notin Names(c) /\ Names(beam[j]) # Names(c)
    BY <1>1, <2>2
  <2> HIDE DEF v
  <2> QED
    BY <1>1, <2>1, <2>3, NameKeepsApart
<1>7. DistinctNames(pool')
  <2> SUFFICES ASSUME NEW p \in 1..Len(pool'), NEW q \in 1..Len(pool'),
                      Names(pool'[p]) = Names(pool'[q])
               PROVE  p = q
    BY DEF DistinctNames
  <2>1. \A i, j \in 1..Len(pool) : Names(pool[i]) = Names(pool[j]) => i = j
    BY DEF SearchInv, PartsAreFound, DistinctNames
  <2>2. Names(c) # Names(more)
    BY <1>1
  <2>3. CASE p \in 1..Len(pool) /\ pool'[p] = pool[p]
    BY <1>4, <1>6, <2>1, <2>3
  <2>4. CASE p = Len(pool) + 1 /\ p # Len(pool') /\ pool'[p] = more
    BY <1>4, <1>6, <2>2, <2>4
  <2>5. CASE p = Len(pool') /\ pool'[p] = c
    BY <1>4, <1>6, <2>2, <2>5
  <2> QED
    BY <1>4, <2>3, <2>4, <2>5
<1>8. PartsAreFound'
  BY <1>2, <1>5, <1>7 DEF SearchInv, PartsAreFound
<1>9. PoolIsOfBeam'
  <2> SUFFICES ASSUME NEW p \in 1..Len(pool')
               PROVE  \E j \in 1..next :
                        Names(pool'[p]) \in {Names(beam[j]), Names(beam[j]) \cup {v.id}}
    <3>1. next' - 1 = next
      BY <1>2, SearchTypes
    <3> QED
      BY <1>2, <3>1 DEF PoolIsOfBeam
  <2>1. CASE p \in 1..Len(pool) /\ pool'[p] = pool[p]
    <3>1. PICK j \in 1..(next - 1) :
            Names(pool[p]) \in {Names(beam[j]), Names(beam[j]) \cup {v.id}}
      BY <2>1 DEF SearchInv, PoolIsOfBeam
    <3>2. j \in 1..next
      BY SearchTypes
    <3> QED
      BY <2>1, <3>1, <3>2
  <2>2. CASE pool'[p] = more \/ pool'[p] = c
    <3>1. next \in 1..next
      BY SearchTypes
    <3> QED
      BY <1>1, <2>2, <3>1 DEF c
  <2> QED
    BY <1>4, <2>1, <2>2
<1> QED
  BY <1>3, <1>8, <1>9

\* what the memo learns is a combination the loop has just been through
LEMMA ExtendKeepsMemo ==
    ASSUME SearchInv, Extend
    PROVE  MemoIsOfPast'
<1> DEFINE c == beam[next]
           v == sorted[at]
<1>1. /\ next' = next + 1 /\ UNCHANGED <<sorted, at, beam>>
      /\ \A k \in DOMAIN memo' : k \in DOMAIN memo \/ k = Names(c) \cup {v.id}
  BY ExtendStep
<1>2. /\ next \in 1..Len(beam) /\ at \in 1..Len(sorted)
      /\ Partial(WithVoucher(c, v), sorted, at, call.cart)
      /\ Names(WithVoucher(c, v)) = Names(c) \cup {v.id}
  BY ExtendFacts
<1>3. Names(c) \cup {v.id} \subseteq NamesUpTo(sorted, at)
  BY <1>2 DEF Partial
<1>4. ~Idle
  BY DEF Extend
<1> HIDE DEF c
<1> SUFFICES ASSUME NEW k \in DOMAIN memo'
             PROVE  /\ k \subseteq NamesUpTo(sorted, at)
                    /\ v.id \in k => \E j \in 1..next : k = Names(beam[j]) \cup {v.id}
  <2>1. next' - 1 = next
    BY <1>1, SearchTypes
  <2> QED
    BY <1>1, <2>1 DEF MemoIsOfPast
<1>5. CASE k \in DOMAIN memo
  <2>1. /\ k \subseteq NamesUpTo(sorted, at)
        /\ v.id \in k => \E j \in 1..(next - 1) : k = Names(beam[j]) \cup {v.id}
    BY <1>4, <1>5 DEF SearchInv, MemoIsOfPast
  <2>2. \A j \in 1..(next - 1) : j \in 1..next
    BY SearchTypes
  <2> QED
    BY <2>1, <2>2
<1>6. CASE k = Names(c) \cup {v.id}
  <2>1. next \in 1..next
    BY SearchTypes
  <2> QED
    BY <1>3, <1>6, <2>1 DEF c
<1> QED
  BY <1>1, <1>5, <1>6

\* with the voucher, or without where none fits, the level is kept
LEMMA ExtendKeepsLevel ==
    ASSUME SearchInv, Extend
    PROVE  LevelIsKept' /\ BestIsFirst'
<1> DEFINE c == beam[next]
           v == sorted[at]
           more == WithVoucher(c, v)
<1>1. /\ next' = next + 1
      /\ UNCHANGED <<inventory, call, sorted, at, beam, chosen, greedy, results>>
      /\ GrownBy(pool', pool, c, more)
      /\ ~Closed(c) => Len(pool') = Len(pool) + 2
  BY ExtendStep
<1>2. /\ next \in 1..Len(beam) /\ at \in 1..Len(sorted)
      /\ v \in Voucher /\ Usable(v, call.cart)
      /\ Partial(c, sorted, at - 1, call.cart)
  BY ExtendFacts
<1>3. NextGreedy' = NextGreedy
  BY <1>1 DEF NextGreedy
<1> HIDE DEF c, v, more
<1>4. BestIsFirst'
  <2>1. chosen = <<>>
    BY <1>2, SearchTypes DEF SearchInv, BestIsFirst
  <2> QED
    BY <1>1, <2>1 DEF BestIsFirst
<1>5. /\ Len(pool') \in Nat /\ Len(pool') >= Len(pool) + 1 /\ pool'[Len(pool')] = c
      /\ \A p \in 1..Len(pool) : p \in 1..Len(pool') /\ pool'[p] = pool[p]
  <2>1. pool \in Seq(Candidate)
    BY DEF SearchInv, SearchIsTyped
  <2> QED
    BY <1>1, <2>1, GrownSize
<1>6. \/ \E j \in next..Len(beam) : ScoreOf(beam[j]) >= 70 * greedy
      \/ \E q \in 1..Len(pool) : ScoreOf(pool[q]) >= 70 * NextGreedy
  BY <1>2, SearchTypes DEF SearchInv, LevelIsKept
<1>7. CASE \E q \in 1..Len(pool) : ScoreOf(pool[q]) >= 70 * NextGreedy
  BY <1>3, <1>4, <1>5, <1>7 DEF LevelIsKept
<1>8. CASE \E j \in next..Len(beam) : ScoreOf(beam[j]) >= 70 * greedy
  <2>1. PICK j \in next..Len(beam) : ScoreOf(beam[j]) >= 70 * greedy
    BY <1>8
  <2>2. CASE j # next
    <3>1. j \in (next + 1)..Len(beam)
      BY <2>2, SearchTypes
    <3> QED
      BY <1>1, <1>4, <2>1, <3>1 DEF LevelIsKept
  <2>3. CASE j = next
    <3>1. ScoreOf(c) >= 70 * greedy
      BY <2>1, <2>3 DEF c
    <3>2. c \in Candidate /\ Combination(c, call.cart) /\ Len(c.vouchers) <= at - 1
      BY <1>2 DEF Partial
    <3>3. greedy \in 0..call.cart.total
      BY DEF SearchInv, SearchIsTyped
    <3>4. /\ ScoreOf(more) >= 70 * (greedy + Burn(v, call.cart.total - greedy))
          /\ ScoreOf(more) >= 70 * greedy
          /\ c.remaining <= 0 => ScoreOf(c) >= 70 * (greedy + Burn(v, call.cart.total - greedy))
      BY <1>2, <3>1, <3>2, <3>3, ScoresGrow DEF more
    <3>5. /\ ScoreOf(more) >= 70 * NextGreedy
          /\ c.remaining <= 0 => ScoreOf(c) >= 70 * NextGreedy
          /\ ~(at <= MaxStack) => ScoreOf(c) >= 70 * NextGreedy
      <4>1. CASE at <= MaxStack
        <5>1. NextGreedy = greedy + Burn(v, call.cart.total - greedy)
          BY <4>1 DEF NextGreedy, v
        <5> QED
          BY <3>4, <4>1, <5>1
      <4>2. CASE ~(at <= MaxStack)
        <5>1. NextGreedy = greedy
          BY <4>2 DEF NextGreedy
        <5> QED
          BY <3>1, <3>4, <4>2, <5>1
      <4> QED
        BY <4>1, <4>2
    <3>6. CASE Closed(c)
      <4>1. ScoreOf(c) >= 70 * NextGreedy
        <5>1. Len(c.vouchers) \in Nat
          BY <3>2 DEF Combination
        <5>2. c.remaining <= 0 \/ ~(at <= MaxStack)
          BY <3>2, <3>6, <5>1, SearchTypes DEF Closed
        <5> QED
          BY <3>5, <5>2
      <4>2. Len(pool') \in 1..Len(pool')
        BY <1>5, SearchTypes
      <4> QED
        BY <1>3, <1>4, <1>5, <4>1, <4>2 DEF LevelIsKept
    <3>7. CASE ~Closed(c)
      <4>1. Len(pool) + 1 \in 1..Len(pool') /\ pool'[Len(pool) + 1] = more
        <5>1. pool \in Seq(Candidate)
          BY DEF SearchInv, SearchIsTyped
        <5> QED
          BY <1>1, <3>7, <5>1, GrownSize
      <4> QED
        BY <1>3, <1>4, <3>5, <4>1 DEF LevelIsKept
    <3> QED
      BY <3>6, <3>7
  <2> QED
    BY <2>2, <2>3
<1> QED
  BY <1>4, <1>6, <1>7, <1>8

LEMMA ExtendKeepsSearch ==
    ASSUME SearchInv, Extend
    PROVE  SearchInv'
BY ExtendKeepsParts, ExtendKeepsMemo, ExtendKeepsLevel DEF SearchInv

\* scores are natural numbers
LEMMA ScoreIsNat ==
    ASSUME NEW c \in Candidate
    PROVE  ScoreOf(c) \in Nat
<1>1. c.savings \in Nat /\ c.urgency \in Nat
  BY DEF Candidate
<1> QED
  BY <1>1 DEF ScoreOf, UrgencyDays

\* each place that selectTopK fills
LEMMA SelectKeepsSearch ==
    ASSUME SearchInv, NEW p \in DOMAIN pool, Select(p)
    PROVE  SearchInv'
<1>1. /\ chosen' = Append(chosen, p) /\ next > Len(beam) /\ p \notin Taken
      /\ \A q \in DOMAIN pool \ (Taken \cup {p}) : Ahead(p, q)
      /\ UNCHANGED <<inventory, call, sorted, at, beam, next, pool, memo, greedy, results>>
  BY DEF Select
<1>2. /\ pool \in Seq(Candidate) /\ chosen \in Seq(Nat) /\ p \in 1..Len(pool)
      /\ DOMAIN pool = 1..Len(pool)
  BY DEF SearchInv, SearchIsTyped
<1>3. /\ chosen' \in Seq(Nat) /\ Len(chosen') = Len(chosen) + 1 /\ Len(chosen) \in Nat
      /\ \A i \in 1..Len(chosen) : chosen'[i] = chosen[i] /\ chosen[i] # p
      /\ chosen'[Len(chosen) + 1] = p
  BY <1>1, <1>2 DEF Taken
<1>4. /\ \A i \in 1..Len(chosen) : chosen[i] \in 1..Len(pool)
      /\ \A i, j \in 1..Len(chosen) : chosen[i] = chosen[j] => i = j
  BY DEF SearchInv, BestIsFirst
<1>5. \A i \in 1..Len(chosen') : chosen'[i] \in 1..Len(pool)
  <2>1. \A i \in 1..Len(chosen') : i \in 1..Len(chosen) \/ i = Len(chosen) + 1
    BY <1>3
  <2> QED
    BY <1>2, <1>3, <1>4, <2>1
<1>6. \A i, j \in 1..Len(chosen') : chosen'[i] = chosen'[j] => i = j
  <2>1. \A i \in 1..Len(chosen') : i \in 1..Len(chosen) \/ i = Len(chosen) + 1
    BY <1>3
  <2> QED
    BY <1>3, <1>4, <2>1
<1>7. \A q \in 1..Len(pool) : ScoreOf(pool[q]) <= ScoreOf(pool[chosen'[1]])
  <2>1. CASE Len(chosen) = 0
    <3>1. Taken = {} /\ chosen'[1] = p
      BY <1>2, <1>3, <2>1 DEF Taken
    <3>2. \A q \in 1..Len(pool) : ScoreOf(pool[q]) \in Nat
      BY <1>2, ScoreIsNat
    <3>3. \A q \in 1..Len(pool) : q = p \/ Ahead(p, q)
      BY <1>1, <1>2, <3>1
    <3> QED
      BY <1>2, <3>1, <3>2, <3>3 DEF Ahead
  <2>2. CASE Len(chosen) > 0
    <3>1. chosen'[1] = chosen[1]
      BY <1>3, <2>2
    <3> QED
      BY <2>2, <3>1 DEF SearchInv, BestIsFirst
  <2> QED
    BY <1>3, <2>1, <2>2
<1>8. BestIsFirst'
  <2>1. ~(next <= Len(beam))
    BY <1>1, SearchTypes
  <2> QED
    BY <1>1, <1>5, <1>6, <1>7, <2>1 DEF BestIsFirst
<1>9. SearchIsTyped'
  BY <1>1, <1>3 DEF SearchInv, SearchIsTyped, Idle
<1>10. PartsAreFound' /\ PoolIsOfBeam' /\ MemoIsOfPast' /\ LevelIsKept'
  BY <1>1 DEF SearchInv, PartsAreFound, DistinctNames, PoolIsOfBeam, MemoIsOfPast, LevelIsKept,
              Idle, NextGreedy
<1> QED
  BY <1>8, <1>9, <1>10 DEF SearchInv

\* the best of the pool stays, so the level does
LEMMA NextVoucherKeepsSearch ==
    ASSUME SearchInv, NextVoucher
    PROVE  SearchInv' /\ greedy' = NextGreedy
<1>1. /\ ~Idle /\ next > Len(beam) /\ BeamIsFull
      /\ beam' = [i \in DOMAIN chosen |-> pool[chosen[i]]]
      /\ at' = at + 1 /\ next' = 1 /\ pool' = <<>> /\ chosen' = <<>>
      /\ UNCHANGED <<inventory, call, sorted, memo>> /\ greedy' = NextGreedy
  BY DEF NextVoucher, NextGreedy
<1>2. /\ at \in 1..Len(sorted) /\ Len(sorted) \in Nat
      /\ call.cart.total \in Nat /\ greedy \in 0..call.cart.total
  BY <1>1, SearchTypes
<1>3. /\ pool \in Seq(Candidate) /\ chosen \in Seq(Nat) /\ DOMAIN chosen = 1..Len(chosen)
      /\ Len(chosen) \in Nat /\ InValueOrder(sorted, call.cart)
      /\ inventory \in Inventories /\ call \in Calls
  BY DEF SearchInv, SearchIsTyped
<1>4. /\ \A i \in 1..Len(chosen) : chosen[i] \in 1..Len(pool)
      /\ \A i, j \in 1..Len(chosen) : chosen[i] = chosen[j] => i = j
  BY DEF SearchInv, BestIsFirst
<1>5. /\ beam' \in Seq(Candidate) /\ Len(beam') = Len(chosen)
      /\ \A i \in 1..Len(chosen) : beam'[i] = pool[chosen[i]]
  <2>1. \A i \in 1..Len(chosen) : pool[chosen[i]] \in Candidate
    BY <1>3, <1>4
  <2> QED
    BY <1>1, <1>3, <2>1
<1>6. NextGreedy \in 0..call.cart.total
  <2>1. sorted[at] \in Voucher /\ sorted[at].value \in Nat
    BY <1>2, <1>3, NextVoucherFacts DEF Voucher
  <2>2. Burn(sorted[at], call.cart.total - greedy) \in 0..(call.cart.total - greedy)
    BY <1>2, <2>1 DEF Burn
  <2> QED
    BY <1>2, <2>2 DEF NextGreedy
<1>7. SearchIsTyped'
  BY <1>1, <1>2, <1>3, <1>5, <1>6 DEF SearchIsTyped, Idle
<1>8. PartsAreFound'
  <2>1. \A i \in 1..Len(beam') : Partial(beam'[i], sorted, at, call.cart)
    BY <1>4, <1>5 DEF SearchInv, PartsAreFound
  <2>2. DistinctNames(beam')
    BY <1>4, <1>5 DEF SearchInv, PartsAreFound, DistinctNames
  <2>3. DistinctNames(pool') /\ Len(pool') = 0
    BY <1>1 DEF DistinctNames
  <2>4. at' - 1 = at
    BY <1>1, <1>2
  <2>5. UNCHANGED <<sorted, call>>
    BY <1>1
  <2>6. \A i \in 1..Len(pool') : Partial(pool'[i], sorted, at', call.cart)
    BY <2>3
  <2> QED
    BY <2>1, <2>2, <2>3, <2>4, <2>5, <2>6 DEF PartsAreFound
<1>9. PoolIsOfBeam'
  BY <1>1 DEF PoolIsOfBeam
<1>10. MemoIsOfPast'
  <2> SUFFICES ASSUME at + 1 <= Len(sorted), NEW k \in DOMAIN memo
               PROVE  k \subseteq NamesUpTo(sorted, at + 1) /\ sorted[at + 1].id \notin k
    BY <1>1, <1>2 DEF MemoIsOfPast, Idle
  <2>1. k \subseteq NamesUpTo(sorted, at)
    BY <1>1 DEF SearchInv, MemoIsOfPast
  <2>2. at + 1 \in 1..Len(sorted) /\ (at + 1) - 1 = at
    BY <1>2
  <2>3. /\ sorted[at + 1].id \notin NamesUpTo(sorted, at)
        /\ NamesUpTo(sorted, at) \subseteq NamesUpTo(sorted, at + 1)
    BY <1>3, <2>2, NextVoucherFacts
  <2> QED
    BY <2>1, <2>3
<1>11. LevelIsKept'
  <2>1. PICK q \in 1..Len(pool) : ScoreOf(pool[q]) >= 70 * NextGreedy
    <3>1. sorted # <<>>
      BY <1>2
    <3>2. ~ \E j \in next..Len(beam) : ScoreOf(beam[j]) >= 70 * greedy
      BY <1>1, SearchTypes
    <3> QED
      BY <3>1, <3>2 DEF SearchInv, LevelIsKept
  <2>2. Len(chosen) > 0
    <3>1. CASE Len(chosen) = BeamWidth
      BY <3>1, SearchTypes
    <3>2. CASE Taken = DOMAIN pool
      <4>1. q \in Taken
        BY <1>3, <2>1, <3>2
      <4> QED
        BY <1>3, <4>1 DEF Taken
    <3> QED
      BY <1>1, <3>1, <3>2 DEF BeamIsFull
  <2>3. ScoreOf(pool[q]) <= ScoreOf(pool[chosen[1]])
    BY <2>1, <2>2 DEF SearchInv, BestIsFirst
  <2>4. 1 \in 1..Len(beam') /\ beam'[1] = pool[chosen[1]]
    BY <1>3, <1>5, <2>2
  <2>5. \A i \in 1..Len(pool) : ScoreOf(pool[i]) \in Nat
    BY <1>3, ScoreIsNat
  <2>6. ScoreOf(beam'[1]) >= 70 * NextGreedy
    <3>1. chosen[1] \in 1..Len(pool)
      BY <1>3, <1>4, <2>2
    <3>2. NextGreedy \in Nat
      BY <1>2, <1>6
    <3> QED
      BY <2>1, <2>3, <2>4, <2>5, <3>1, <3>2
  <2> QED
    BY <1>1, <2>4, <2>6 DEF LevelIsKept
<1>12. BestIsFirst'
  <2>1. Len(chosen') = 0 /\ chosen' = <<>>
    BY <1>1
  <2> QED
    BY <2>1 DEF BestIsFirst
<1> QED
  BY <1>1, <1>7, <1>8, <1>9, <1>10, <1>11, <1>12 DEF SearchInv

\* a search that has not begun, over no vouchers or the ones of a call
SearchIsFresh ==
    /\ inventory \in Inventories /\ call \in Calls /\ InValueOrder(sorted, call.cart)
    /\ \/ sorted = <<>> /\ beam = <<>>
       \/ sorted # <<>> /\ beam = <<Untouched(call.cart.total)>>
    /\ at = 1 /\ next = 1 /\ pool = <<>> /\ chosen = <<>> /\ memo = <<>> /\ greedy = 0

LEMMA FreshSearch == SearchIsFresh => SearchInv
<1> SUFFICES ASSUME SearchIsFresh PROVE SearchInv
  OBVIOUS
<1> DEFINE total == call.cart.total
           c == Untouched(total)
<1>1. total \in Nat
  BY StackingAssumption DEF SearchIsFresh
<1>2. /\ c \in Candidate /\ c.vouchers = <<>> /\ Len(c.vouchers) = 0
      /\ ScoreOf(c) = 0 /\ Names(c) = {}
  BY <1>1 DEF Untouched, Candidate, ScoreOf, UrgencyDays, Names
<1>3. Partial(c, sorted, 0, call.cart)
  BY <1>1, <1>2, UntouchedFacts DEF Partial
<1> HIDE DEF c
<1>4. /\ beam \in Seq(Candidate) /\ Len(beam) \in 0..1
      /\ \A i \in 1..Len(beam) : beam[i] = c
      /\ sorted # <<>> => Len(beam) = 1
      /\ sorted = <<>> => beam = <<>>
  <2>1. CASE sorted = <<>> /\ beam = <<>>
    BY <2>1
  <2>2. CASE sorted # <<>> /\ beam = <<c>>
    BY <1>2, <2>2
  <2> QED
    BY <2>1, <2>2 DEF c, SearchIsFresh
<1>5. Len(pool) = 0 /\ pool \in Seq(Candidate) /\ Len(chosen) = 0 /\ chosen \in Seq(Nat)
      /\ DOMAIN memo = {}
  BY DEF SearchIsFresh
<1>6. SearchIsTyped
  <2>1. Len(sorted) \in Nat
    BY DEF InValueOrder, SearchIsFresh
  <2> QED
    BY <1>1, <1>4, <1>5, <2>1 DEF SearchIsTyped, SearchIsFresh
<1>7. PartsAreFound
  BY <1>3, <1>4, <1>5 DEF PartsAreFound, DistinctNames, SearchIsFresh
<1>8. PoolIsOfBeam /\ MemoIsOfPast
  BY <1>5 DEF PoolIsOfBeam, MemoIsOfPast
<1>9. LevelIsKept
  <2> SUFFICES ASSUME sorted # <<>>
               PROVE  \E j \in next..Len(beam) : ScoreOf(beam[j]) >= 70 * greedy
    BY DEF LevelIsKept
  <2>1. 1 \in next..Len(beam) /\ beam[1] = c /\ greedy = 0
    BY <1>4 DEF SearchIsFresh
  <2> QED
    BY <1>2, <2>1
<1>10. BestIsFirst
  BY <1>4, <1>5 DEF BestIsFirst, SearchIsFresh
<1> QED
  BY <1>6, <1>7, <1>8, <1>9, <1>10 DEF SearchInv

\* a call begins a search or has its results at once
LEMMA BeginFacts ==
    ASSUME SearchInv, NEW r \in Calls, Begin(r)
    PROVE  SearchIsFresh' /\ (\A s \in results' : AddsUp(s, call'.cart))
<1> DEFINE eligible == EligibleVouchers(r.cart, inventory)
           vouchers == SortByValue(eligible)
<1>1. /\ call' = r /\ memo' = <<>> /\ at' = 1 /\ next' = 1 /\ pool' = <<>> /\ chosen' = <<>>
      /\ greedy' = 0 /\ inventory' = inventory /\ inventory \in Inventories
  BY DEF Begin, SearchInv, SearchIsTyped
<1>2. IF Len(vouchers) <= ExactLimit
      THEN /\ results' = StackingResults(r.cart, Perks(r),
                             IF vouchers = <<>> THEN {}
                             ELSE AllCombinations(vouchers, r.cart.total))
           /\ sorted' = <<>> /\ beam' = <<>>
      ELSE /\ results' = {}
           /\ sorted' = vouchers /\ beam' = <<Untouched(r.cart.total)>>
  BY DEF Begin
<1>3. /\ inventory \in Seq(Voucher)
      /\ \A i, j \in 1..Len(inventory) : inventory[i].id = inventory[j].id => i = j
  BY <1>1, StackingAssumption
<1>4. /\ eligible \in Seq(Voucher)
      /\ \A i \in 1..Len(eligible) : Usable(eligible[i], r.cart)
      /\ \A i, j \in 1..Len(eligible) : eligible[i].id = eligible[j].id => i = j
  BY <1>3, EligibleFacts
<1> HIDE DEF eligible
<1>5. InValueOrder(vouchers, r.cart)
  BY <1>4, SortedByValue
<1>6. /\ vouchers \in Seq(Voucher) /\ \A i \in 1..Len(vouchers) : Usable(vouchers[i], r.cart)
  BY <1>5 DEF InValueOrder
<1>7. /\ CartIsUsable(r.cart) /\ RateScale \in Nat \ {0} /\ ExactLimit \in Nat
      /\ \A b \in Perks(r) : PerkIsShare(b.benefit)
  BY StackingCallFacts, StackingAssumption DEF Perks
<1> HIDE DEF vouchers
<1>8. CASE Len(vouchers) <= ExactLimit
  <2> DEFINE found == IF vouchers = <<>> THEN {} ELSE AllCombinations(vouchers, r.cart.total)
  <2>1. results' = StackingResults(r.cart, Perks(r), found) /\ sorted' = <<>> /\ beam' = <<>>
    BY <1>2, <1>8
  <2>2. \A c \in found : Combination(c, r.cart)
    <3>1. r.cart.total \in Nat
      BY <1>7 DEF CartIsUsable
    <3>2. \A c \in AllCombinations(vouchers, r.cart.total) : Combination(c, r.cart)
      BY <1>6, <3>1, AllCombinationsFacts
    <3> QED
      BY <3>2
  <2> HIDE DEF found
  <2>3. \A s \in results' : AddsUp(s, r.cart)
    BY <1>7, <2>1, <2>2, ResultsFacts
  <2>4. InValueOrder(<<>>, r.cart)
    BY DEF InValueOrder
  <2>5. SearchIsFresh'
    BY <1>1, <2>1, <2>4 DEF SearchIsFresh
  <2> QED
    BY <1>1, <2>3, <2>5
<1>9. CASE ~(Len(vouchers) <= ExactLimit)
  <2>1. results' = {} /\ sorted' = vouchers /\ beam' = <<Untouched(r.cart.total)>>
    BY <1>2, <1>9
  <2>2. vouchers # <<>>
    BY <1>7, <1>9
  <2>3. SearchIsFresh'
    BY <1>1, <1>5, <2>1, <2>2 DEF SearchIsFresh
  <2> QED
    BY <2>1, <2>3
<1> QED
  BY <1>8, <1>9

-----------------------------------------------------------------------------
\* what burning the first vouchers saves
Values(list) == [i \in 1..Len(list) |-> list[i].value]

GreedyOf(list, k, total) ==
    LET sum == SumOver(Values(list), 1..k)
    IN  IF sum < total THEN sum ELSE total

FirstOf(n) == IF n < MaxStack THEN n ELSE MaxStack

GreedyIsSum == greedy = GreedyOf(sorted, FirstOf(at - 1), call.cart.total)

\* no voucher burned, nothing saved
LEMMA FreshIsSum == SearchIsFresh => GreedyIsSum
<1> SUFFICES ASSUME SearchIsFresh PROVE GreedyIsSum
  OBVIOUS
<1>1. /\ greedy = 0 /\ at = 1 /\ call.cart.total \in Nat /\ MaxStack \in Nat \ {0}
      /\ sorted \in Seq(Voucher)
  BY StackingAssumption DEF SearchIsFresh, InValueOrder
<1>2. FirstOf(at - 1) = 0
  BY <1>1 DEF FirstOf
<1>3. SumOver(Values(sorted), 1..0) = 0
  <2> DEFINE f == Values(sorted)
  <2>1. f \in [1..Len(sorted) -> Nat]
    <3>1. \A i \in 1..Len(sorted) : sorted[i] \in Voucher
      BY <1>1
    <3> QED
      BY <3>1 DEF Values, Voucher
  <2>2. IsFiniteSet(1..Len(sorted))
    BY <1>1, FS_Interval
  <2> HIDE DEF f
  <2>3. SumOver(f, {}) = 0
    BY <2>1, <2>2, SumOfFacts
  <2>4. 1..0 = {}
    OBVIOUS
  <2> QED
    BY <2>3, <2>4 DEF f
<1> QED
  BY <1>1, <1>2, <1>3 DEF GreedyIsSum, GreedyOf

\* burning one voucher more adds its value, up to the total
LEMMA NextIsSum ==
    ASSUME SearchInv, GreedyIsSum, NextVoucher
    PROVE  GreedyIsSum'
<1>1. greedy' = NextGreedy /\ at' = at + 1 /\ UNCHANGED <<sorted, call>>
  BY NextVoucherKeepsSearch DEF NextVoucher
<1>2. /\ at \in 1..Len(sorted) /\ Len(sorted) \in Nat /\ MaxStack \in Nat \ {0}
      /\ call.cart.total \in Nat
  BY SearchTypes DEF NextVoucher
<1>3. InValueOrder(sorted, call.cart)
  BY DEF SearchInv, SearchIsTyped
<1> DEFINE f == Values(sorted)
           total == call.cart.total
           v == sorted[at]
<1>4. f \in [1..Len(sorted) -> Nat] /\ f[at] = v.value /\ v.value \in Nat /\ v.value > 0
  BY <1>2, <1>3 DEF InValueOrder, Values, Voucher, Usable
<1>5. FirstOf(at' - 1) = FirstOf(at)
  BY <1>1, <1>2
<1>6. CASE at <= MaxStack
  <2>1. FirstOf(at - 1) = at - 1 /\ FirstOf(at) = at
    BY <1>2, <1>6 DEF FirstOf
  <2> DEFINE before == SumOver(f, 1..(at - 1))
             sum == SumOver(f, 1..at)
  <2> HIDE DEF f
  <2>2. sum = f[at] + before
    BY <1>2, <1>4, SumOfNext
  <2>3. before \in Nat
    <3>1. at - 1 \in 0..Len(sorted) /\ at \in 0..Len(sorted) /\ at - 1 <= at
      BY <1>2
    <3> QED
      BY <1>2, <1>4, <3>1, SumsGrow
  <2>4. greedy = IF before < total THEN before ELSE total
    BY <2>1 DEF GreedyIsSum, GreedyOf, f
  <2>5. NextGreedy = greedy + Burn(v, total - greedy)
    BY <1>6 DEF NextGreedy
  <2> HIDE DEF before, sum, v
  <2>6. NextGreedy = IF sum < total THEN sum ELSE total
    <3>1. CASE before < total
      BY <1>2, <1>4, <2>2, <2>3, <2>4, <2>5, <3>1 DEF Burn
    <3>2. CASE ~(before < total)
      BY <1>2, <1>4, <2>2, <2>3, <2>4, <2>5, <3>2 DEF Burn
    <3> QED
      BY <3>1, <3>2
  <2> QED
    BY <1>1, <1>5, <2>1, <2>6 DEF GreedyIsSum, GreedyOf, sum, f
<1>7. CASE ~(at <= MaxStack)
  <2>1. FirstOf(at - 1) = MaxStack /\ FirstOf(at) = MaxStack
    BY <1>2, <1>7 DEF FirstOf
  <2>2. NextGreedy = greedy
    BY <1>7 DEF NextGreedy
  <2> QED
    BY <1>1, <1>5, <2>1, <2>2 DEF GreedyIsSum
<1> QED
  BY <1>6, <1>7

\* the results of a search add up
LEMMA NextAddsUp ==
    ASSUME SearchInv, \A s \in results : AddsUp(s, call.cart), NextVoucher
    PROVE  \A s \in results' : AddsUp(s, call.cart)
<1>1. results' = IF at = Len(sorted)
                 THEN StackingResults(call.cart, Perks(call), {beam'[i] : i \in DOMAIN beam'})
                 ELSE results
  BY DEF NextVoucher
<1>2. call \in Calls /\ call' = call
  BY DEF SearchInv, SearchIsTyped, NextVoucher
<1>3. /\ CartIsUsable(call.cart) /\ RateScale \in Nat \ {0}
      /\ \A b \in Perks(call) : PerkIsShare(b.benefit)
  BY <1>2, StackingCallFacts, StackingAssumption DEF Perks
<1> DEFINE found == {beam'[i] : i \in DOMAIN beam'}
<1>4. \A c \in found : Combination(c, call.cart)
  <2>1. SearchInv'
    BY NextVoucherKeepsSearch
  <2>2. beam' \in Seq(Candidate) /\ DOMAIN beam' = 1..Len(beam')
    BY <2>1 DEF SearchInv, SearchIsTyped
  <2>3. \A i \in 1..Len(beam') : Combination(beam'[i], call.cart)
    BY <1>2, <2>1 DEF SearchInv, PartsAreFound, Partial
  <2> QED
    BY <2>2, <2>3
<1> HIDE DEF found
<1>5. \A s \in StackingResults(call.cart, Perks(call), found) : AddsUp(s, call.cart)
  BY <1>3, <1>4, ResultsFacts
<1> QED
  BY <1>1, <1>5 DEF found

\* the search, the level it keeps to, and what its results promise
StackingInv ==
    /\ SearchInv /\ GreedyIsSum
    /\ \A s \in results : AddsUp(s, call.cart)

LEMMA StackingStarts == StackingInit => StackingInv
<1> SUFFICES ASSUME StackingInit PROVE StackingInv
  OBVIOUS
<1>1. InValueOrder(<<>>, call.cart)
  BY DEF InValueOrder
<1>2. SearchIsFresh /\ results = {}
  BY <1>1 DEF StackingInit, SearchIsFresh
<1> QED
  BY <1>2, FreshSearch, FreshIsSum DEF StackingInv

LEMMA StackingSteps == StackingInv /\ [StackingNext]_stackingVars => StackingInv'
<1> SUFFICES ASSUME StackingInv, [StackingNext]_stackingVars PROVE StackingInv'
  OBVIOUS
<1>1. CASE \E r \in Calls : Begin(r)
  <2>1. PICK r \in Calls : Begin(r)
    BY <1>1
  <2>2. SearchIsFresh' /\ \A s \in results' : AddsUp(s, call'.cart)
    BY <2>1, BeginFacts DEF StackingInv
  <2>3. SearchIsFresh' => SearchInv' /\ GreedyIsSum'
    BY FreshSearch, FreshIsSum, PTL
  <2> QED
    BY <2>2, <2>3 DEF StackingInv
<1>2. CASE Extend
  <2>1. SearchInv'
    BY <1>2, ExtendKeepsSearch DEF StackingInv
  <2>2. UNCHANGED <<call, sorted, at, greedy, results>>
    BY <1>2 DEF Extend
  <2> QED
    BY <2>1, <2>2 DEF StackingInv, GreedyIsSum
<1>3. CASE \E p \in DOMAIN pool : Select(p)
  <2>1. PICK p \in DOMAIN pool : Select(p)
    BY <1>3
  <2>2. SearchInv'
    BY <2>1, SelectKeepsSearch DEF StackingInv
  <2>3. UNCHANGED <<call, sorted, at, greedy, results>>
    BY <2>1 DEF Select
  <2> QED
    BY <2>2, <2>3 DEF StackingInv, GreedyIsSum
<1>4. CASE NextVoucher
  <2>1. SearchInv' /\ GreedyIsSum'
    BY <1>4, NextVoucherKeepsSearch, NextIsSum DEF StackingInv
  <2>2. call' = call /\ \A s \in results' : AddsUp(s, call.cart)
    BY <1>4, NextAddsUp DEF StackingInv, NextVoucher
  <2> QED
    BY <2>1, <2>2 DEF StackingInv
<1>5. CASE UNCHANGED stackingVars
  <2>1. UNCHANGED <<inventory, call, sorted, at, beam, next, pool, chosen, memo, greedy, results>>
    BY <1>5 DEF stackingVars
  <2>2. SearchInv'
    <3>1. SearchIsTyped' /\ PartsAreFound'
      BY <2>1 DEF StackingInv, SearchInv, SearchIsTyped, PartsAreFound, Idle, DistinctNames
    <3>2. PoolIsOfBeam' /\ MemoIsOfPast'
      BY <2>1 DEF StackingInv, SearchInv, PoolIsOfBeam, MemoIsOfPast, Idle
    <3>3. LevelIsKept' /\ BestIsFirst'
      BY <2>1 DEF StackingInv, SearchInv, LevelIsKept, BestIsFirst, NextGreedy
    <3> QED
      BY <3>1, <3>2, <3>3 DEF SearchInv
  <2> QED
    BY <2>1, <2>2 DEF StackingInv, GreedyIsSum
<1> QED
  BY <1>1, <1>2, <1>3, <1>4, <1>5 DEF StackingNext

(***************************************************************************)
(* The inductive invariant of the stacking engine, for any inventory, any  *)
(* calls and any widths and limits of the search.                          *)
(***************************************************************************)
THEOREM StackingInvariance == StackingSpec => []StackingInv
BY StackingStarts, StackingSteps, PTL DEF StackingSpec

LEMMA NearlyBestFollows == StackingInv => NearlyBest
<1> SUFFICES ASSUME StackingInv, beam # <<>>, next = 1
             PROVE  \E c \in InBeam : 11 * c.savings >= 10 * greedy
  BY DEF NearlyBest
<1>1. SearchInv
  BY DEF StackingInv
<1>2. sorted # <<>> /\ pool = <<>> /\ beam \in Seq(Candidate) /\ DOMAIN beam = 1..Len(beam)
  BY <1>1 DEF SearchInv, SearchIsTyped
<1>3. PICK j \in 1..Len(beam) : ScoreOf(beam[j]) >= 70 * greedy
  <2>1. Len(pool) = 0
    BY <1>2
  <2> QED
    BY <1>1, <1>2, <2>1 DEF SearchInv, LevelIsKept
<1> DEFINE c == beam[j]
<1>4. c \in Candidate /\ Combination(c, call.cart)
  BY <1>1, <1>3 DEF SearchInv, PartsAreFound, Partial
<1>5. /\ c.savings \in Nat /\ c.urgency \in Nat /\ c.remaining \in Nat
      /\ c.savings + c.remaining = call.cart.total
      /\ c.remaining = 0 \/ c.urgency <= 7 * c.savings
  BY <1>4 DEF Combination
<1>6. greedy \in Nat /\ greedy <= call.cart.total
  BY <1>1, SearchTypes
<1>7. 70 * c.savings + c.urgency >= 70 * greedy
  BY <1>3, <1>5 DEF ScoreOf, UrgencyDays
<1> HIDE DEF c
<1>8. 11 * c.savings >= 10 * greedy
  <2>1. CASE c.remaining = 0
    BY <1>5, <1>6, <2>1
  <2>2. CASE c.urgency <= 7 * c.savings
    BY <1>5, <1>6, <1>7, <2>2
  <2> QED
    BY <1>5, <2>1, <2>2
<1> QED
  BY <1>2, <1>3, <1>8 DEF InBeam, c

LEMMA GreedyIsBestFollows == StackingInv => GreedyIsBest
<1> SUFFICES ASSUME StackingInv, NEW picked \in SUBSET (1..at - 1),
                    Cardinality(picked) <= MaxStack
             PROVE  LET value == Total([i \in picked |-> sorted[i].value])
                    IN  greedy >= IF value < call.cart.total THEN value ELSE call.cart.total
  BY DEF GreedyIsBest
<1>1. /\ Len(sorted) \in Nat /\ at \in Nat \ {0} /\ at <= Len(sorted) + 1
      /\ call.cart.total \in Nat /\ MaxStack \in Nat \ {0}
  BY SearchTypes DEF StackingInv
<1>2. InValueOrder(sorted, call.cart)
  BY DEF StackingInv, SearchInv, SearchIsTyped
<1> DEFINE n == Len(sorted)
           f == Values(sorted)
           k == FirstOf(at - 1)
           total == call.cart.total
           value == Total([i \in picked |-> sorted[i].value])
<1>3. picked \in SUBSET (1..n) /\ IsFiniteSet(picked)
  <2>1. IsFiniteSet(1..(at - 1))
    BY <1>1, FS_Interval
  <2>2. IsFiniteSet(picked)
    BY <2>1, FS_Subset
  <2> QED
    BY <1>1, <2>2
<1>4. k \in 0..n /\ Cardinality(picked) <= k
  <2>1. IsFiniteSet(1..(at - 1)) /\ Cardinality(1..(at - 1)) = at - 1
    <3>1. at - 1 \in Nat
      BY <1>1
    <3> DEFINE m == at - 1
    <3> HIDE DEF m
    <3>2. IsFiniteSet(1..m) /\ Cardinality(1..m) = IF 1 > m THEN 0 ELSE m - 1 + 1
      BY <3>1, FS_Interval DEF m
    <3>3. Cardinality(1..m) = m
      BY <3>1, <3>2 DEF m
    <3> QED
      BY <3>2, <3>3 DEF m
  <2>2. Cardinality(picked) <= at - 1
    BY <2>1, FS_Subset
  <2> QED
    BY <1>1, <2>2 DEF FirstOf
<1>5. /\ f \in [1..n -> Nat] /\ \A i, j \in 1..n : i <= j => f[j] <= f[i]
      /\ \A i \in picked : f[i] = sorted[i].value
  <2>1. \A i \in 1..n : sorted[i] \in Voucher /\ sorted[i].value \in Nat
    <3>1. \A i \in 1..n : sorted[i] \in Voucher
      BY <1>2 DEF InValueOrder
    <3> QED
      BY <3>1 DEF Voucher
  <2>2. \A i, j \in 1..n : i <= j => sorted[j].value <= sorted[i].value
    BY <1>2 DEF InValueOrder
  <2> QED
    BY <1>3, <2>1, <2>2 DEF Values
<1> HIDE DEF f
<1>6. value = SumOver(f, picked)
  <2> DEFINE amounts == [i \in picked |-> sorted[i].value]
  <2>1. DOMAIN amounts = picked /\ \A i \in picked : amounts[i] = f[i]
    BY <1>5
  <2>2. value = Total(amounts)
    OBVIOUS
  <2> HIDE DEF amounts, value
  <2> QED
    BY <1>3, <2>1, <2>2, TotalIsSum, SumsAgree
<1> HIDE DEF value, k
<1>7. SumOver(f, picked) <= SumOver(f, 1..k)
  BY <1>1, <1>3, <1>4, <1>5, FirstsAreMost
<1>8. SumOver(f, picked) \in Nat /\ SumOver(f, 1..k) \in Nat
  <2>1. IsFiniteSet(1..n)
    BY <1>1, FS_Interval
  <2>2. (1..k) \in SUBSET (1..n)
    BY <1>1, <1>4
  <2> QED
    BY <1>3, <1>5, <2>1, <2>2, SumOfFacts
<1>9. greedy = IF SumOver(f, 1..k) < total THEN SumOver(f, 1..k) ELSE total
  BY DEF StackingInv, GreedyIsSum, GreedyOf, f, k
<1>10. greedy >= IF value < total THEN value ELSE total
  BY <1>1, <1>6, <1>7, <1>8, <1>9
<1> QED
  BY <1>10 DEF value

(***************************************************************************)
(* The beam keeps a combination that saves at least ten elevenths of what  *)
(* burning the vouchers in order would, whatever its width, the early exits *)
(* and the memo (stacking-engine.ts, the loop of                           *)
(* generateStackingCombinations and selectTopK).                           *)
(***************************************************************************)
THEOREM BeamIsNearlyBest == StackingSpec => []NearlyBest
BY StackingInvariance, NearlyBestFollows, PTL

(***************************************************************************)
(* No choice of as many vouchers as a stack may have saves more than burning *)
(* those of the greatest value in order (voucher-manager.ts, sortVouchers). *)
(***************************************************************************)
THEOREM OrderIsBest == StackingSpec => []GreedyIsBest
BY StackingInvariance, GreedyIsBestFollows, PTL

LEMMA ResultsAddUpFollows == StackingInv => ResultsAddUp
BY DEF StackingInv, ResultsAddUp, AddsUp

(***************************************************************************)
(* Every result adds up to the cart's total, uses eligible vouchers only,  *)
(* has a perk only where it may stack, and leaves no negative rest unless  *)
(* the cart's total was below its subtotal (stacking-engine.ts).           *)
(***************************************************************************)
THEOREM PromisesAddUp == StackingSpec => []ResultsAddUp
BY StackingInvariance, ResultsAddUpFollows, PTL
=============================================================================
