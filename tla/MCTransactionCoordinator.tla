---------------------- MODULE MCTransactionCoordinator ----------------------
(***************************************************************************)
(* Instances of TransactionCoordinator for TLC: two checkouts that share a *)
(* voucher of 5 and the profile.  The second burns the voucher twice, so   *)
(* that the order of its rollbacks matters; together they ask for more     *)
(* than the voucher holds; the row of the second is there already.         *)
(***************************************************************************)
EXTENDS TransactionCoordinator

CONSTANTS x1, x2, v, r1, r2, p, e0, e1, e2, used, total, old, new

Burn(amount) == [kind |-> "burn", rec |-> v, arg |-> amount]
Save(row, entry) == [kind |-> "save", rec |-> row, arg |-> entry]
Update(field) == [kind |-> "update", rec |-> p, arg |-> [f \in {field} |-> new]]

MCOps == [x \in Txns |->
    IF x = x1 THEN <<Burn(3), Save(r1, e1), Update(used)>>
    ELSE <<Burn(2), Burn(1), Save(r2, e2), Update(total)>>]

MCInitial == [r \in Records |->
    CASE r = v -> 5
      [] r = r1 -> Absent
      [] r = r2 -> e0
      [] r = p -> [f \in Fields |-> old]]
=============================================================================
