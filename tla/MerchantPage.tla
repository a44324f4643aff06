---------------------------- MODULE MerchantPage ----------------------------
(***************************************************************************)
(* From a page to the cart the worker is asked about (merchant-detector),  *)
(* and the checks that cart passes (offer-engine/schemas.ts,               *)
(* service-worker.ts, message-schemas.ts).                                 *)
(*                                                                         *)
(* A page is its host, the currency and the site name it declares for Open *)
(* Graph readers, and the set of prices it shows: empty, or one amount in  *)
(* the units it is written in.  Where selectors find it is left out.       *)
(***************************************************************************)
EXTENDS Integers

CONSTANTS
    MaxLiteral   \* the largest amount of MAX_NUMERIC_LITERAL_LENGTH digits

ASSUME LiteralAssumption == MaxLiteral \in Nat /\ MaxLiteral >= 100

Currencies == {"INR", "USD", "EUR", "GBP", "JPY", "SGD", "AED"}

AmazonHosts == {"amazon.in", "amazon.com", "amazon.co.uk", "amazon.de"}

\* parsePriceString: hundredths whatever the currency
MinorUnits(price) == 100 * price

-----------------------------------------------------------------------------
(* The adapters, in the order of the registry                              *)

AmazonHandles(page) == page.host \in AmazonHosts
FlipkartHandles(page) == page.host = "flipkart.com"

AdapterFor(page) ==
    IF AmazonHandles(page) THEN "amazon"
    ELSE IF FlipkartHandles(page) THEN "flipkart" ELSE "generic"

\* the last adapter handles anything, so there is always a merchant
DetectMerchant(page) ==
    IF AdapterFor(page) = "generic" THEN [merchantId |-> page.host, confidence |-> "LOW"]
    ELSE [merchantId |-> AdapterFor(page), confidence |-> "HIGH"]

AmazonCurrency(page) ==
    IF page.host = "amazon.in" THEN "INR"
    ELSE IF page.host = "amazon.co.uk" THEN "GBP"
    ELSE IF page.host = "amazon.de" THEN "EUR" ELSE "USD"

\* rupees, unless the page declares one of the known currencies
MetaCurrency(page) == IF page.meta \in Currencies THEN page.meta ELSE "INR"

\* one item, or none; the total is its price, or zero
CartWith(merchant, currency, price) ==
    [merchantId |-> merchant, currency |-> currency, items |-> price,
     total |-> IF price = {} THEN 0 ELSE MinorUnits(CHOOSE p \in price : TRUE)]

AmazonCart(page) == CartWith("amazon", AmazonCurrency(page), page.price)
FlipkartCart(page) == CartWith("flipkart", "INR", page.price)

\* the declared site name goes before the host, which detection goes by
GenericCart(page) ==
    CartWith(IF page.site = {} THEN page.host ELSE CHOOSE s \in page.site : TRUE,
             MetaCurrency(page), page.price)

ExtractCart(page) ==
    CASE AdapterFor(page) = "amazon"   -> AmazonCart(page)
      [] AdapterFor(page) = "flipkart" -> FlipkartCart(page)
      [] OTHER                         -> GenericCart(page)

-----------------------------------------------------------------------------
(* What the worker checks                                                  *)

\* mutant: the length of numbers is not looked at
PreValidateCartJson_Any(cart) == TRUE

\* preValidateCartJson: no number of more digits than MAX_NUMERIC_LITERAL_LENGTH
PreValidateCartJson(cart) == cart.total <= MaxLiteral

\* CartSchema of the offer engine
CartSchemaAccepts(cart) == cart.total >= 0 /\ cart.currency \in Currencies

\* ConfirmSavingsMessageSchema: the cart may be of any currency, the money of
\* the strategy of four
ConfirmAccepts(cart) ==
    /\ cart.total <= MaxLiteral
    /\ cart.currency \in Currencies
    /\ cart.currency \in {"INR", "USD", "EUR", "GBP"}
=============================================================================
