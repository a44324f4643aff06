----------------------------- MODULE MCServices -----------------------------
(***************************************************************************)
(* The parts of the extension and its libraries that share no state: the   *)
(* stacking engine, the cart monitor, the plugin registry, the migrations, *)
(* the benefit catalog, the settings, the profile, the loyalty programs,   *)
(* the savings reports, the telemetry and the logger, the explanations,    *)
(* serialized values, the profile manager and imports.  A behaviour is one *)
(* of `part`, the rest of the variables staying where they begin, so that  *)
(* the states of the parts add up; running two of them side by side would  *)
(* show nothing more.                                                      *)
(***************************************************************************)
EXTENDS BenefitStacking, CartMonitor, PluginRegistry, SchemaMigrations, BenefitCatalog,
        ApiKeyStore, ProfileStore, LoyaltyPrograms, SavingsReports, EventLog, Explanations,
        SerializedValues, ProfileManager, StrategyTransfer

VARIABLE part

Symmetry == Permutations(Popups) \cup Permutations(Callers)

MCInventories ==
    {[i \in 1..5 |->
        [id |-> i, merchant |-> IF i = 5 THEN "other" ELSE "amazon",
         value |-> <<3, 100, 60, 35, 9>>[i], daysLeft |-> days[i],
         minimumSpend |-> IF i = 1 THEN {20} ELSE {}]] :
        days \in [1..5 -> {0, 1, 20}]}
    \cup {[i \in 1..6 |->
        [id |-> i, merchant |-> "amazon", value |-> <<100, 60, 35, 3, 1, 0>>[i],
         daysLeft |-> days[i], minimumSpend |-> {}]] : days \in [1..6 -> {1, 20}]}

Perk(benefit, stacks, minimum) ==
    [merchant |-> "amazon", program |-> "prime", validFor |-> {3}, benefit |-> benefit,
     conditions |-> {[type |-> "MINIMUM_SPEND", value |-> minimum]},
     stackableWithVouchers |-> stacks]

Fixed(value) == [type |-> "FIXED_DISCOUNT", value |-> value, cap |-> {}]

MCPerks ==
    {Perk([type |-> "PERCENTAGE_DISCOUNT", value |-> 20, cap |-> {15}], TRUE, 50),
     Perk(Fixed(30), TRUE, 10), Perk(Fixed(40), FALSE, 0),
     [Perk(Fixed(7), TRUE, 0) EXCEPT !.validFor = {0}],
     [Perk(Fixed(8), TRUE, 0) EXCEPT !.program = "accor"]}

MCCalls ==
    {[cart |-> [merchant |-> "amazon", subtotal |-> amounts[1], total |-> amounts[2],
                items |-> {}],
      memberships |-> {"prime"}, perks |-> MCPerks] :
        amounts \in {<<100, 100>>, <<110, 100>>, <<35, 25>>, <<10, 10>>}}

MCMerchantsOf ==
    [p \in Plugins |-> CASE p = "p1" -> <<"m1", "m2">>
                         [] p = "p2" -> <<"m2", "m3">>
                         [] p = "p3" -> <<"m3", "m4">>]

\* days before and after the seven of the alert
MCExpiries == {-30, 8}

MCPurchases == {[total |-> 10, benefit |-> 4], [total |-> 3, benefit |-> 0]}

\* a voucher for each day around those that matter
MCWallets ==
    {{[id |-> days, atMerchant |-> days # 3, value |-> IF days = 2 THEN 0 ELSE 5,
           days |-> days] : days \in {0, 1, 2, 3, 7, 8, 31}}}

Dated(id, merchant, from, until) ==
    [id |-> id, merchant |-> merchant, from |-> from, until |-> until]

MCCoupon(id, merchant, dated, until) ==
    [id |-> id, merchant |-> merchant, dated |-> dated, until |-> until]

MCDatasets ==
    LET coupons == {MCCoupon("c1", "m1", FALSE, {}), MCCoupon("c2", "m1", TRUE, {0}),
                    MCCoupon("c3", "m1", TRUE, {}), MCCoupon("c4", "m2", FALSE, {})}
    IN  {[valid |-> TRUE, coupons |-> coupons,
          offers |-> {Dated("o1", "m1", {0}, {1}), Dated("o2", "m1", {1}, {2}),
                      Dated("o3", "m1", {0}, {}), Dated("o4", "m2", {0}, {2})}],
         [valid |-> TRUE, coupons |-> {}, offers |-> {Dated("o5", "m1", {0}, {2})}],
         [valid |-> FALSE, coupons |-> coupons, offers |-> {}]}

\* the code's, and one that shows everything and may throw
MCLoggers == {[level |-> "INFO", format |-> "human"], [level |-> "DEBUG", format |-> "json"]}

MCRedactPaths == {{}, {<<"details", "voucherId">>}}

\* files of two strategies, and those that the extension and its library write
MCJsonRows ==
    {[id |-> id, amounts |-> <<1, 2, amount>>, currencies |-> <<"INR", currency, "INR">>,
      confident |-> confident] :
        id \in {"", "a", "b"}, amount \in {-1, 3}, currency \in {"INR", "USD", "XXX"},
        confident \in BOOLEAN}

MCCsvRows ==
    {[id |-> id, amounts |-> <<Decimal(1, <<>>), Decimal(0, <<0, 5>>), amount>>,
      currency |-> currency, confident |-> confident] :
        id \in {"a", "b"}, amount \in {Decimal(15, <<5>>), Decimal(15, <<0, 5>>), NoDecimal},
        currency \in {"USD", "JPY", "XXX"}, confident \in BOOLEAN}

MCExported == Strategy("a", <<105, 20, 125>>, <<"INR", "INR", "INR">>)

MCUploads ==
    {[format |-> "json", parses |-> parses, versioned |-> TRUE, rows |-> <<r, s>>] :
        parses \in BOOLEAN, r \in MCJsonRows, s \in MCJsonRows}
    \cup {[format |-> "csv", header |-> header, rows |-> <<r, s>>] :
        header \in {"id", "id and currency"}, r \in MCCsvRows, s \in MCCsvRows}
    \cup {ExportStrategy(MCExported), HandleExportStrategy(<<MCExported>>),
          ExportToCSV(<<MCExported>>), [format |-> "csv", header |-> "id", rows |-> <<>>]}

-----------------------------------------------------------------------------
Parts == {"stacking", "monitor", "plugins", "migrations", "catalog", "settings",
          "profile", "overlaps", "loyalty", "reports", "events", "explanations", "values",
          "manager", "transfer", "log"}

\* of a part that is not run, any one state will do
AnyInventory == CHOOSE i \in Inventories : TRUE
AnyCall == CHOOSE c \in Calls : TRUE
AnyUpload == CHOOSE u \in Uploads : TRUE
SomeDatums == [{"amount", "label"} -> SomeValues]
AnyDatum == CHOOSE d \in SomeDatums : TRUE
AnyOptions == CHOOSE o \in LogOptions : TRUE

Init ==
    /\ part \in Parts
    /\ inventory \in IF part = "stacking" THEN Inventories ELSE {AnyInventory}
    /\ call \in IF part = "stacking" THEN Calls ELSE {AnyCall}
    /\ environment \in IF part = "migrations" THEN Environments ELSE {"browser"}
    /\ savedKey \in IF part = "explanations" THEN {"none", "malformed", "valid"} ELSE {"none"}
    /\ datum \in IF part = "values" THEN SomeDatums ELSE {AnyDatum}
    /\ current \in IF part = "manager" THEN FirstRecords ELSE {{}}
    /\ options \in IF part = "events" THEN LogOptions ELSE {AnyOptions}
    /\ StackingInit /\ MonitorInit /\ RegistryInit /\ MigrationInit
    /\ part # "migrations" => /\ database = NoDatabase
                              /\ runner.migrations = {} /\ runner.irreversible = {}
    /\ CatalogInit
    /\ part # "catalog" => edges = <<>>
    /\ KeyInit
    /\ part # "settings" => keys.session = NoKey /\ keys.local = NoKey
    /\ ProfileInit
    /\ part \notin {"profile", "overlaps", "log"} => ~renders /\ stored.profile = {}
    /\ part = "overlaps" => renders
    /\ LoyaltyInit /\ ReportsInit
    /\ part # "reports" => recordedIn = "own"
    /\ EventInit /\ ExplainInit /\ ValuesInit
    /\ ManagerInit
    /\ IF part = "transfer" THEN TransferInit ELSE upload = AnyUpload /\ import = Begun

\* the parts that a step of part p leaves alone
Rest(p) ==
    /\ UNCHANGED part
    /\ IF p = "stacking" THEN TRUE ELSE UNCHANGED stackingVars
    /\ IF p = "monitor" THEN TRUE ELSE UNCHANGED monitorVars
    /\ IF p = "plugins" THEN TRUE ELSE UNCHANGED registryVars
    /\ IF p = "migrations" THEN TRUE ELSE UNCHANGED migrationVars
    /\ IF p = "catalog" THEN TRUE ELSE UNCHANGED catalogVars
    /\ IF p = "settings" THEN TRUE ELSE UNCHANGED keyVars
    /\ IF p = "profile" THEN TRUE ELSE UNCHANGED profileVars
    /\ IF p = "loyalty" THEN TRUE ELSE UNCHANGED loyaltyVars
    /\ IF p = "reports" THEN TRUE ELSE UNCHANGED reportVars
    /\ IF p = "events" THEN TRUE ELSE UNCHANGED eventVars
    /\ IF p = "explanations" THEN TRUE ELSE UNCHANGED explainVars
    /\ IF p = "values" THEN TRUE ELSE UNCHANGED valueVars
    /\ IF p = "manager" THEN TRUE ELSE UNCHANGED managerVars
    /\ IF p = "transfer" THEN TRUE ELSE UNCHANGED transferVars

\* the profile is run without the log of security events, one write of each popup
\* at a time ("profile") or several that change the cards ("overlaps"); and with the
\* log when no profile is written ("log"): the two meet in the reset alone
FewWrites(most) == \A p \in Popups : Len(popups[p].writes) <= most

OnlyCards ==
    \A p \in Popups : \A i \in DOMAIN popups[p].writes :
        ToSet(popups[p].writes[i].profile.cards) \subseteq Cards

\* bound: of the rows that the savings package cannot read, two will do
FewRows == recordedIn # "own" => Cardinality(rows) <= 2

Next ==
    \/ part = "stacking" /\ StackingNext /\ Rest("stacking")
    \/ part = "monitor" /\ MonitorNext /\ Rest("monitor")
    \/ part = "plugins" /\ RegistryNext /\ Rest("plugins")
    \/ part = "migrations" /\ MigrationNext /\ Rest("migrations")
    \/ part = "catalog" /\ CatalogNext /\ Rest("catalog")
    \/ part = "settings" /\ KeyNext /\ Rest("settings")
    \/ part = "profile" /\ ProfileNext /\ UNCHANGED logging /\ FewWrites(1)' /\ Rest("profile")
    \/ part = "overlaps" /\ ProfileNext /\ UNCHANGED logging /\ OnlyCards' /\ Rest("profile")
    \/ part = "log" /\ ProfileNext /\ FewWrites(0)' /\ Rest("profile")
    \/ part = "loyalty" /\ LoyaltyNext /\ Rest("loyalty")
    \/ part = "reports" /\ ReportsNext /\ FewRows' /\ Rest("reports")
    \/ part = "events" /\ EventNext /\ Rest("events")
    \/ part = "explanations" /\ ExplainNext /\ Rest("explanations")
    \/ part = "values" /\ ValuesNext /\ Rest("values")
    \/ part = "manager" /\ ManagerNext /\ Rest("manager")
    \/ part = "transfer" /\ TransferNext /\ Rest("transfer")

Spec == Init /\ [][Next]_<<part, stackingVars, monitorVars, registryVars, migrationVars, catalogVars,
                           keyVars, profileVars, loyaltyVars, reportVars, eventVars,
                           explainVars, valueVars, managerVars, transferVars>>
=============================================================================
