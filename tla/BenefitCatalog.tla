--------------------------- MODULE BenefitCatalog ---------------------------
(***************************************************************************)
(* What the worker knows of the market.  The public benefit catalog        *)
(* (benefits/catalog/public-catalog.ts) is a graph of programs and the     *)
(* merchants they have benefits at, and answers "what do these memberships *)
(* give at this merchant", remembered for a while; the alerts of           *)
(* benefits/alerts/alerts-engine.ts are made of such answers and of the    *)
(* user's vouchers.  PublicDataManager (offer-engine/manager.ts) keeps a   *)
(* dataset of offers and coupons, replaced as a whole.                     *)
(***************************************************************************)
EXTENDS Integers, Sequences

CONSTANTS
    Programs,
    CatalogMerchants,
    PartnerBenefits,
    CatalogTtl,          \* CACHE_TTL_MS
    Wallets,             \* the sets of vouchers, [id, atMerchant, value, days], of profiles
    Datasets,            \* raw bundles, [valid, offers, coupons]
    MaxEdges,            \* bound: edges of the graph
    MaxCatalogTime       \* bound: the clock

\* a date that can be read is a time
ASSUME CatalogAssumption ==
    /\ {CatalogTtl, MaxEdges, MaxCatalogTime} \subseteq Nat
    /\ \A raw \in Datasets : \A o \in raw.offers : o.from \cup o.until \subseteq Int

VARIABLES
    hour,
    edges,       \* of the graph, in the order they were added; never removed
    memoCache,   \* the answers remembered, each with its question and time
    lookup,      \* the question just answered and its answer, if it was to the catalog
    activeBundle, \* the dataset in use, if one was loaded
    offered,     \* ... or if it was about offers and coupons
    passed       \* auxiliary: the last bundle that its schema accepted

catalogVars == <<hour, edges, memoCache, lookup, activeBundle, offered, passed>>

Edges == [program : Programs, merchant : CatalogMerchants, benefit : PartnerBenefits,
          since : 0..MaxCatalogTime]

CatalogInit ==
    /\ hour = 0
    /\ edges \in {<<>>} \cup {<<[program |-> p, merchant |-> m, benefit |-> b, since |-> 0]>> :
                    p \in Programs, m \in CatalogMerchants, b \in PartnerBenefits}
    /\ memoCache = {} /\ lookup = {}
    /\ activeBundle = {} /\ offered = {} /\ passed = {}

\* an answer is looked at as it is given
Unasked == lookup' = {} /\ offered' = {}

\* registerProgram, for a program with one benefit; the edges of an earlier
\* registration of the program stay
RegisterProgram(p) ==
    /\ Len(edges) < MaxEdges
    /\ \E m \in CatalogMerchants, b \in PartnerBenefits :
            edges' = Append(edges,
                        [program |-> p, merchant |-> m, benefit |-> b, since |-> hour])
    /\ Unasked /\ UNCHANGED <<hour, memoCache, activeBundle, passed>>

\* getMerchantBenefitsForPrograms
MerchantBenefits(merchant, programs) ==
    {edges[i].benefit : i \in {j \in DOMAIN edges : /\ edges[j].merchant = merchant
                                                   /\ edges[j].program \in programs}}

\* mutant: answers are remembered by merchant alone
Remembered_ByMerchant(merchant, programs) ==
    {m \in memoCache : m.merchant = merchant /\ hour - m.at < CatalogTtl}

\* a remembered answer that is fresh
Remembered(merchant, programs) ==
    {m \in memoCache : m.merchant = merchant /\ m.programs = programs
                       /\ hour - m.at < CatalogTtl}

\* getCachedBenefits: a new answer replaces the one remembered for the key
CachedBenefits(merchant, programs) ==
    LET new == [merchant |-> merchant, programs |-> programs, at |-> hour,
                benefits |-> MerchantBenefits(merchant, programs)]
    IN  IF Remembered(merchant, programs) # {}
        THEN CHOOSE m \in Remembered(merchant, programs) : TRUE ELSE new

Remember(answer) ==
    memoCache' = {m \in memoCache : m.merchant # answer.merchant
                                   \/ m.programs # answer.programs} \cup {answer}

\* getExpiringSoon: vouchers with money left that expire within the threshold
ExpiringSoon(vouchers, threshold) ==
    {v \in vouchers : v.value > 0 /\ v.days \in 1..threshold}

LongVouchers(vouchers) == {v \in vouchers : v.atMerchant /\ v.days > 30 /\ v.value > 0}

\* generateAlerts, at one merchant; an urgent voucher has at most three days
GenerateAlerts(benefits, vouchers, hasCart) ==
    {[type |-> "PARTNER_BENEFIT", about |-> b, urgency |-> "HIGH"] : b \in benefits}
    \cup {[type |-> "EXPIRING_VOUCHER", about |-> v.id,
           urgency |-> IF v.days <= 3 THEN "HIGH" ELSE "MEDIUM"] :
              v \in {w \in ExpiringSoon(vouchers, 7) : w.atMerchant}}
    \cup {[type |-> "ANTI_CANNIBALIZATION_WARNING", about |-> "merchant", urgency |-> "LOW"] :
              n \in {1 : v \in IF hasCart /\ benefits # {} THEN LongVouchers(vouchers) ELSE {}}}

\* getBenefitsForMerchant, by itself or for the alerts of a profile
GetBenefitsForMerchant(merchant, programs, vouchers, hasCart) ==
    LET answer == CachedBenefits(merchant, programs)
    IN  /\ lookup' = {[merchant |-> merchant, programs |-> programs, at |-> hour,
                       benefits |-> answer.benefits, vouchers |-> vouchers,
                       alerts |-> GenerateAlerts(answer.benefits, vouchers, hasCart)]}
        /\ Remember(answer)
        /\ offered' = {}
        /\ UNCHANGED <<hour, edges, activeBundle, passed>>

ClearCache ==
    /\ memoCache # {}
    /\ memoCache' = {}
    /\ Unasked /\ UNCHANGED <<hour, edges, activeBundle, passed>>

-----------------------------------------------------------------------------
(* The public data                                                         *)

\* loadBundle: parse throws before the assignment
LoadBundle(raw) ==
    /\ activeBundle' = IF raw.valid THEN {raw} ELSE activeBundle
    /\ passed' = IF raw.valid THEN {raw} ELSE passed
    /\ Unasked /\ UNCHANGED <<hour, edges, memoCache>>

\* an offer whose dates cannot be read, {}, is out; a coupon may have no date
OffersForMerchant(offers, merchant) ==
    {o \in offers : /\ o.merchant = merchant
                    /\ \E from \in o.from, until \in o.until : hour \in from..until}

CouponsForMerchant(coupons, merchant) ==
    {c \in coupons : /\ c.merchant = merchant
                     /\ ~c.dated \/ \E until \in c.until : hour <= until}

\* getOffersForMerchant and getCouponsForMerchant, as the worker asks
QueryOffers(m) ==
    /\ offered' = {[merchant |-> m, at |-> hour, loaded |-> activeBundle # {},
                    offers |-> UNION {OffersForMerchant(b.offers, m) : b \in activeBundle},
                    coupons |-> UNION {CouponsForMerchant(b.coupons, m) : b \in activeBundle}]}
    /\ lookup' = {}
    /\ UNCHANGED <<hour, edges, memoCache, activeBundle, passed>>

-----------------------------------------------------------------------------
CatalogTick ==
    /\ hour < MaxCatalogTime
    /\ hour' = hour + 1
    /\ Unasked /\ UNCHANGED <<edges, memoCache, activeBundle, passed>>

CatalogNext ==
    \/ \E p \in Programs : RegisterProgram(p)
    \/ \E m \in CatalogMerchants, programs \in SUBSET Programs, w \in Wallets, c \in BOOLEAN :
          GetBenefitsForMerchant(m, programs, w, c)
    \/ \E raw \in Datasets : LoadBundle(raw)
    \/ \E m \in CatalogMerchants : QueryOffers(m)
    \/ ClearCache \/ CatalogTick

CatalogSpec == CatalogInit /\ [][CatalogNext]_catalogVars

-----------------------------------------------------------------------------
Known(l, time) ==
    {edges[i].benefit : i \in {j \in DOMAIN edges : /\ edges[j].merchant = l.merchant
                                                   /\ edges[j].program \in l.programs
                                                   /\ edges[j].since <= time}}

Told(l, type) == {a.about : a \in {b \in l.alerts : b.type = type}}

(***************************************************************************)
(* An answer is for the memberships and the merchant asked about, and at   *)
(* most the time to live behind the catalog: it has every benefit that was *)
(* registered that long before, and none that was not registered.  So have *)
(* the alerts made of it, none of which tells the user to burn a voucher   *)
(* of more than a week or to keep one when there is no benefit to use.     *)
(* Whatever failed to load since, the offers given for a merchant are      *)
(* exactly those of the last dataset its schema accepted whose dates can   *)
(* be read and have the time asked about between them, and the coupons     *)
(* exactly those that have no date or one that can be read and is not over *)
(* (getCachedBenefits, generateAlerts, loadBundle, getOffersForMerchant,   *)
(* getCouponsForMerchant).                                                 *)
(***************************************************************************)
AnswersAreRecent ==
    /\ \A l \in lookup :
          /\ Known(l, l.at - CatalogTtl) \subseteq l.benefits
          /\ l.benefits \subseteq Known(l, l.at)
          /\ Told(l, "PARTNER_BENEFIT") = l.benefits
          /\ Told(l, "EXPIRING_VOUCHER") \subseteq
                {v.id : v \in {w \in l.vouchers : w.days \in 1..7}}
          /\ Told(l, "ANTI_CANNIBALIZATION_WARNING") # {} =>
                Known(l, l.at) # {} /\ \E v \in l.vouchers : v.days > 30
    /\ \A o \in offered :
          /\ o.loaded <=> passed # {}
          /\ o.offers = {f \in UNION {b.offers : b \in passed} :
                /\ f.merchant = o.merchant
                /\ \E from \in f.from, until \in f.until : from <= o.at /\ o.at <= until}
          /\ o.coupons = {c \in UNION {b.coupons : b \in passed} :
                /\ c.merchant = o.merchant
                /\ c.dated => \E until \in c.until : o.at <= until}
=============================================================================
