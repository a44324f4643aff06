---------------------------- MODULE SavingsReports ----------------------------
(***************************************************************************)
(* What is made of the savings that were recorded: the queries of          *)
(* SavingsRepository (storage/savings-repository.ts), and the summaries    *)
(* and reports of the savings package, whose own repository knows the same *)
(* database by another version and other rows.                             *)
(*                                                                         *)
(* A row's id starts with the time it was recorded at, followed by a       *)
(* random part, so listing rows by id lists the oldest first.  All rows    *)
(* are of one currency here; the reports add up amounts whatever theirs.   *)
(* An absent part of a filter is the empty set.                            *)
(***************************************************************************)
EXTENDS Collections, SequencesExt

CONSTANTS
    ShopIds,
    Purchases,      \* totals and benefits of strategies that may be confirmed
    StrategyIds,
    HoursPerTick,
    MaxRows,        \* bound: rows recorded
    MaxReportTime   \* bound: the clock

ASSUME ReportsAssumption ==
    /\ Purchases \subseteq [total : Nat, benefit : Nat]
    /\ \A p \in Purchases : p.benefit <= p.total
    /\ {HoursPerTick, MaxRows, MaxReportTime} \subseteq Nat

VARIABLES
    rows,
    reportTime,
    recordedIn  \* for the savings package: a database of its own, or that of the
                \* worker, of the version which the package knows or the next one

reportVars == <<rows, reportTime, recordedIn>>

ReportsInit == rows = {} /\ reportTime = 0 /\ recordedIn \in {"own", "version 1", "version 2"}

\* saveConfirmedOptimization: what is put down as saved is the total less the
\* benefit; the random part of the id falls anywhere among those of that time
RecordSavings(shop, purchase, strategy) ==
    /\ Cardinality(rows) < MaxRows
    /\ \E random \in 1..MaxRows :
        /\ \A r \in rows : r.at # reportTime \/ r.random # random
        /\ rows' = rows \cup {[at |-> reportTime, random |-> random, merchantId |-> shop,
                               strategy |-> strategy, benefit |-> purchase.benefit,
                               savings |-> purchase.total - purchase.benefit]}
    /\ UNCHANGED <<reportTime, recordedIn>>

ReportTick ==
    /\ reportTime < MaxReportTime
    /\ reportTime' = reportTime + 1
    /\ UNCHANGED <<rows, recordedIn>>

ReportsNext ==
    \/ \E shop \in ShopIds, p \in Purchases, s \in StrategyIds : RecordSavings(shop, p, s)
    \/ ReportTick

ReportsSpec == ReportsInit /\ [][ReportsNext]_reportVars

-----------------------------------------------------------------------------
(* SavingsRepository                                                       *)

Older(a, b) == a.at < b.at \/ (a.at = b.at /\ a.random < b.random)

\* list, or what an index gives within a range, in the order of times and ids
OldestFirst(found) ==
    InOrder(found, {pair \in found \X found : Older(pair[1], pair[2])})

ListRows == OldestFirst(rows)

\* mutant: the end is not included
QueryByMerchantAndDateRange_Exclusive(shop, from, to) ==
    OldestFirst({r \in rows : r.merchantId = shop /\ r.at >= from /\ r.at < to})

QueryByMerchantAndDateRange(shop, from, to) ==
    OldestFirst({r \in rows : r.merchantId = shop /\ r.at >= from /\ r.at <= to})

QueryByDateRange(from, to) == OldestFirst({r \in rows : r.at >= from /\ r.at <= to})

QueryByMerchant(shop) == OldestFirst({r \in rows : r.merchantId = shop})

\* query: an index for the merchant and for a whole range; a range with one end
\* is left out, and the amounts are looked at afterwards
SavingsQuery(filter) ==
    LET whole == filter.startDate # {} /\ filter.endDate # {}
        The(part) == CHOOSE x \in part : TRUE
        found == IF whole /\ filter.merchantId # {}
                 THEN QueryByMerchantAndDateRange(The(filter.merchantId),
                                                  The(filter.startDate), The(filter.endDate))
                 ELSE IF whole THEN QueryByDateRange(The(filter.startDate), The(filter.endDate))
                 ELSE IF filter.merchantId # {} THEN QueryByMerchant(The(filter.merchantId))
                 ELSE ListRows
    IN  Kept(found, {i \in DOMAIN found :
                        /\ \A x \in filter.minSavings : found[i].savings >= x
                        /\ \A x \in filter.maxSavings : found[i].savings <= x})

-----------------------------------------------------------------------------
(* SavingsCalculator and the savings package's repository                  *)

CalculateTotalSaved(entries) == Total([i \in DOMAIN entries |-> entries[i].savings])

\* getAggregateStats of a merchant
AggregateStats(shop) ==
    LET entries == QueryByMerchant(shop)
        total == CalculateTotalSaved(entries)
    IN  [totalSavings |-> total, totalTransactions |-> Len(entries),
         averageSavings |-> IF entries = <<>> THEN 0 ELSE total \div Len(entries)]

CalculateMaxSavings(entries) == Max({0} \cup {entries[i].savings : i \in DOMAIN entries})

CalculateMinSavings(entries) ==
    IF entries = <<>> THEN 0 ELSE Min({entries[i].savings : i \in DOMAIN entries})

\* mutant: a group has what its last entry saved
GroupTotals_Overwrites(entries, keyOf) ==
    [k \in {keyOf[entries[i]] : i \in DOMAIN entries} |->
        Last(Kept(entries, {i \in DOMAIN entries : keyOf[entries[i]] = k})).savings]

\* the total of each group of entries, those of one key
GroupTotals(entries, keyOf) ==
    [k \in {keyOf[entries[i]] : i \in DOMAIN entries} |->
        CalculateTotalSaved(Kept(entries, {i \in DOMAIN entries : keyOf[entries[i]] = k}))]

CalculateByMerchant(entries) == GroupTotals(entries, [r \in rows |-> r.merchantId])
CalculateByDayOfWeek(entries) ==
    GroupTotals(entries, [r \in rows |-> ((r.at * HoursPerTick) \div 24) % 7])
CalculateByHour(entries) == GroupTotals(entries, [r \in rows |-> (r.at * HoursPerTick) % 24])

CalculateTrend(entries) ==
    LET midpoint == Len(entries) \div 2
    IN  [firstHalf |-> CalculateTotalSaved(SubSeq(entries, 1, midpoint)),
         secondHalf |-> CalculateTotalSaved(SubSeq(entries, midpoint + 1, Len(entries)))]

\* the strategies that saved most
CalculateTopStrategies(entries, limit) ==
    LET totals == GroupTotals(entries, [r \in rows |-> r.strategy])
        First(s) == Min({i \in DOMAIN entries : entries[i].strategy = s})
        RanksHigher(s, t) ==
            totals[s] > totals[t] \/ (totals[s] = totals[t] /\ First(s) < First(t))
        ids == DOMAIN totals
        ranked == InOrder(ids, {pair \in ids \X ids : RanksHigher(pair[1], pair[2])})
        top == SubSeq(ranked, 1, IF limit < Len(ranked) THEN limit ELSE Len(ranked))
    IN  [i \in DOMAIN top |-> [strategyId |-> top[i], totalSavings |-> totals[top[i]]]]

\* a row that the package has not put in an envelope, out of which it takes nothing
NoEntry == [undefined |-> TRUE]

\* list of the package's repository: the results it may have, none if it rejects, as
\* the version it knows of the database cannot be opened after the next one
PackageList ==
    IF recordedIn = "version 2" THEN {}
    ELSE {[i \in DOMAIN ListRows |-> IF recordedIn = "own" THEN ListRows[i] ELSE NoEntry]}

\* getSummary, which reads every entry
SavingsSummary ==
    {[totalEntries |-> Len(entries), totalSaved |-> CalculateTotalSaved(entries),
      merchantBreakdown |-> CalculateByMerchant(entries)] :
        entries \in {list \in PackageList : \A i \in DOMAIN list : list[i] # NoEntry}}

NewestRows(startDate, endDate) ==
    LET found == {r \in rows : /\ \A x \in startDate : x # 0 => r.at >= x
                               /\ \A x \in endDate : x # 0 => r.at <= x}
        Newer(a, b) == a.at > b.at \/ (a.at = b.at /\ a.random < b.random)
    IN  InOrder(found, {pair \in found \X found : Newer(pair[1], pair[2])})

\* getHistory: the newest first; a limit of 0 is none, and a date of 0 is no date;
\* any other is looked for in every entry, which the sort alone does not do
GetHistory(startDate, endDate, limit) ==
    LET ranged == \E x \in startDate \cup endDate : x # 0
        Limited(list) ==
            IF limit = 0 \/ Len(list) <= limit THEN list ELSE SubSeq(list, 1, limit)
    IN  {Limited(IF recordedIn = "own" THEN NewestRows(startDate, endDate) ELSE list) :
            list \in {l \in PackageList : ranged => \A i \in DOMAIN l : l[i] # NoEntry}}

-----------------------------------------------------------------------------
(***************************************************************************)
(* Each way to break the savings down adds up to the same total: by        *)
(* merchant, from whichever side it is asked, by day, by hour, by half of  *)
(* the history, by strategy; a strategy that a limit cuts off saved no     *)
(* more than any that is listed, and the average is between the least and  *)
(* the most.                                                               *)
(***************************************************************************)
ReportsAddUp ==
    LET entries == ListRows
        total == CalculateTotalSaved(entries)
        byMerchant == CalculateByMerchant(entries)
        trend == CalculateTrend(entries)
        all == CalculateTopStrategies(entries, Len(entries))
    IN  /\ Total(byMerchant) = total /\ \A s \in SavingsSummary : s.totalSaved = total
        /\ Total(CalculateByDayOfWeek(entries)) = total
        /\ Total(CalculateByHour(entries)) = total
        /\ trend.firstHalf + trend.secondHalf = total
        /\ \A shop \in DOMAIN byMerchant :
            AggregateStats(shop).totalSavings = byMerchant[shop]
        /\ Total([i \in DOMAIN all |-> all[i].totalSavings]) = total
        /\ LET top == CalculateTopStrategies(entries, 1)
           IN  \A i \in DOMAIN all, j \in DOMAIN top :
                all[i].totalSavings <= top[j].totalSavings
        /\ CalculateMinSavings(entries) * Len(entries) <= total
        /\ total <= CalculateMaxSavings(entries) * Len(entries)

SomeOrNone(s) == {{}} \cup {{x} : x \in s}

Filters == [merchantId : SomeOrNone(ShopIds),
            startDate : SomeOrNone(0..MaxReportTime), endDate : SomeOrNone(0..MaxReportTime),
            minSavings : SomeOrNone({5}), maxSavings : SomeOrNone({5})]

(***************************************************************************)
(* Whichever index a query goes through, it finds the rows that match, and *)
(* each once; a range with one end only, it ignores. What getHistory shows *)
(* of its own rows are the newest of the range, up to the limit; of rows   *)
(* of the worker it shows none, not even one: what it gives then is        *)
(* undefined or an error.                                                  *)
(***************************************************************************)
QueriesMatch ==
    rows # {} =>
    /\ \A f \in Filters :
        LET whole == f.startDate # {} /\ f.endDate # {}
        IN  /\ ToSet(SavingsQuery(f)) =
                {r \in rows : /\ \A x \in f.merchantId : r.merchantId = x
                              /\ whole => /\ \A x \in f.startDate : r.at >= x
                                          /\ \A x \in f.endDate : r.at <= x
                              /\ \A x \in f.minSavings : r.savings >= x
                              /\ \A x \in f.maxSavings : r.savings <= x}
            /\ IsInjective(SavingsQuery(f))
    /\ \A start, end \in SomeOrNone({0, MaxReportTime}), limit \in 0..MaxRows :
        \A shown \in GetHistory(start, end, limit) :
            LET kept == ToSet(shown)
            IN  IF recordedIn = "own"
                THEN /\ \A i, j \in DOMAIN shown : i < j => shown[i].at >= shown[j].at
                     /\ kept \subseteq rows
                     /\ \A r \in rows \ kept :
                            \/ limit # 0 /\ Len(shown) = limit /\ \A k \in kept : r.at <= k.at
                            \/ \E x \in start : r.at < x
                            \/ \E x \in end : x # 0 /\ r.at > x
                ELSE kept \cap rows = {}

=============================================================================
