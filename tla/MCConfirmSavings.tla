-------------------------- MODULE MCConfirmSavings --------------------------
(***************************************************************************)
(* Instances of ConfirmSavings for TLC.  Three deliveries: first and again *)
(* carry the same key (a redelivered click), other is another purchase     *)
(* that burns one voucher of the first.  cross is a cross-currency confirm.*)
(***************************************************************************)
EXTENDS ConfirmSavings, TLC

CONSTANTS first, again, other, cross, k1, k2, v1, v2, shop, d1, d2

MCKeyOf == [c \in Confirms |-> IF c \in {first, again} THEN k1 ELSE k2]
MCMerchantOf == [c \in Confirms |-> shop]
MCSourcesOf == [c \in Confirms |->
    IF c \in {first, again} THEN {v1, v2} ELSE {v2}]
MCSameCurrency == Confirms \ {cross}
DrainSymmetry == Permutations({d1, d2})
=============================================================================
