---------------------------- MODULE MCCheckout ----------------------------
(***************************************************************************)
(* One tab, where a shop known by its host and one known by what it        *)
(* declares, priced in yen, show a price, none, or one of too many digits. *)
(***************************************************************************)
EXTENDS Checkout

CONSTANTS t1

Shows(host, meta, price) == [host |-> host, meta |-> meta, site |-> {}, price |-> price]

MCContents ==
    {Shows("amazon.in", "none", {7}), Shows("amazon.in", "none", {}),
     Shows("shop.example", "JPY", {7}), Shows("shop.example", "none", {900})}

MCFirst == [t \in {t1} |-> Shows("amazon.in", "none", {7})]
============================================================================
