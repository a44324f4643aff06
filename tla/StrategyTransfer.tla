-------------------------- MODULE StrategyTransfer --------------------------
(***************************************************************************)
(* Files of strategies: what the exporters write (export/src/exporter.ts,  *)
(* popup/Dashboard.tsx) and what the importers make of a file              *)
(* (export/src/importer.ts).  An import reads the whole file and answers   *)
(* with all of its strategies, or with everything that is wrong.           *)
(*                                                                         *)
(* A decimal text is its whole part and the digits after the point; one    *)
(* that is no plain decimal is not plain.  A row's three amounts are those *)
(* of the discount, the reward and the total.                              *)
(***************************************************************************)
EXTENDS Integers, Sequences, FiniteSets, SequencesExt

CONSTANTS
    Uploads         \* the files that are imported

\* a file is a list of rows, of three amounts each: in JSON of minor units, each
\* with its currency, and in a table decimals of at most two digits, or none
ASSUME UploadAssumption ==
    \A f \in Uploads :
        /\ f.format \in {"json", "csv"}
        /\ f.rows \in Seq({f.rows[i] : i \in DOMAIN f.rows})
        /\ \A i \in DOMAIN f.rows, j \in 1..3 :
            LET row == f.rows[i]  amount == row.amounts[j]
            IN  IF f.format = "json"
                THEN row.amounts \in [1..3 -> Int] /\ row.currencies \in [1..3 -> STRING]
                ELSE amount.plain =>
                        /\ amount.whole \in Nat
                        /\ amount.digits \in Seq(0..9) /\ Len(amount.digits) <= 2

VARIABLES
    upload,         \* the file
    import          \* how far it has been read, the strategies and errors so far

transferVars == <<upload, import>>

Currencies == {"INR", "USD", "EUR", "GBP", "JPY", "SGD", "AED"}

\* the minor units of one of a currency
MinorDivisor == [c \in Currencies |-> IF c = "JPY" THEN 1 ELSE 100]

Decimal(whole, digits) == [plain |-> TRUE, whole |-> whole, digits |-> digits]
NoDecimal == [plain |-> FALSE, whole |-> 0, digits |-> <<>>]

Strategy(id, amounts, currencies) ==
    [id |-> id, amounts |-> amounts, currencies |-> currencies]

Begun == [status |-> "begun", row |-> 1, strategies |-> <<>>, errors |-> 0]

TransferInit ==
    /\ upload \in Uploads
    /\ import = Begun

-----------------------------------------------------------------------------
(* Exporters                                                               *)

\* exportStrategy: a header, but no version, before the one strategy
ExportStrategy(s) ==
    [format |-> "json", parses |-> TRUE, versioned |-> FALSE,
     rows |-> <<[id |-> s.id, amounts |-> s.amounts, currencies |-> s.currencies,
                 confident |-> TRUE]>>]

\* handleExportStrategy: the recommendation, without a version, too
HandleExportStrategy(ss) ==
    [format |-> "json", parses |-> TRUE, versioned |-> FALSE,
     rows |-> [i \in DOMAIN ss |-> ExportStrategy(ss[i]).rows[1]]]

\* toFixed(2) of a hundredth of the minor units
Fixed2(minor) == Decimal(minor \div 100, <<(minor % 100) \div 10, minor % 10>>)

\* exportToCSV: in the columns of a table for a reader, none of a currency
ExportToCSV(ss) ==
    [format |-> "csv", header |-> "Strategy ID",
     rows |-> [i \in DOMAIN ss |->
        [id |-> ss[i].id, amounts |-> [j \in 1..3 |-> Fixed2(ss[i].amounts[j])],
         currency |-> "INR", confident |-> TRUE]]]

-----------------------------------------------------------------------------
(* Importers                                                               *)

\* ImportedStrategySchema; amounts are digits of minor units, here numbers
StrategyParses(row) ==
    /\ row.id # "" /\ row.confident
    /\ \A j \in 1..3 : row.amounts[j] >= 0 /\ row.currencies[j] \in Currencies

\* StrategyImportSchema, on what JSON.parse gives
FileParses(f) ==
    /\ f.parses /\ f.versioned
    /\ \A i \in DOMAIN f.rows : StrategyParses(f.rows[i])

Refuse == import' = [import EXCEPT !.status = "refused", !.strategies = <<>>]

\* importStrategy, before its loop
ImportStrategy ==
    /\ import.status = "begun" /\ upload.format = "json"
    /\ \/ FileParses(upload) /\ import' = [import EXCEPT !.status = "reading"]
       \/ ~FileParses(upload) /\ Refuse
    /\ UNCHANGED upload

\* a round of it: an id met before, and currencies of one strategy that differ
CheckReferences ==
    /\ import.status = "reading" /\ upload.format = "json"
    /\ import.row <= Len(upload.rows)
    /\ LET row == upload.rows[import.row]
           twice == \E i \in 1..(import.row - 1) : upload.rows[i].id = row.id
           mixed == Cardinality(ToSet(row.currencies)) > 1
       IN  import' = [import EXCEPT
              !.row = @ + 1,
              !.errors = @ + (IF twice THEN 1 ELSE 0) + (IF mixed THEN 1 ELSE 0),
              !.strategies = Append(@, Strategy(row.id, row.amounts, row.currencies))]
    /\ UNCHANGED upload

\* a plausible slip: the digits are padded in front
ParseAmountMinor_PadsInFront(d) ==
    d.whole * 100 + (IF Len(d.digits) = 2 THEN 10 * d.digits[1] + d.digits[2]
                     ELSE IF Len(d.digits) = 1 THEN d.digits[1] ELSE 0)

\* the digits after the point, with zeros behind, two of them: hundredths, whatever
\* the currency
ParseAmountMinor(d) ==
    LET padded == d.digits \o <<0, 0>>
    IN  d.whole * 100 + 10 * padded[1] + padded[2]

\* importFromCSV (and importFromExcel), before its loop
ImportFromCSV ==
    /\ import.status = "begun" /\ upload.format = "csv"
    /\ \/ /\ upload.rows # <<>> /\ upload.header \in {"id", "id and currency"}
          /\ import' = [import EXCEPT !.status = "reading"]
       \/ /\ upload.rows = <<>> \/ upload.header \notin {"id", "id and currency"}
          /\ Refuse
    /\ UNCHANGED upload

\* a round of it: the first thing wrong with the row, or its strategy; neither
\* the id nor what other rows have is looked at
ReadRow ==
    /\ import.status = "reading" /\ upload.format = "csv"
    /\ import.row <= Len(upload.rows)
    /\ LET row == upload.rows[import.row]
           currency == IF upload.header = "id" THEN "INR" ELSE row.currency
           wrong == \/ currency \notin Currencies
                    \/ \E j \in 1..3 : ~row.amounts[j].plain
                    \/ ~row.confident
       IN  import' = IF wrong THEN [import EXCEPT !.row = @ + 1, !.errors = @ + 1]
                     ELSE [import EXCEPT !.row = @ + 1,
                             !.strategies = Append(@, Strategy(row.id,
                                [j \in 1..3 |-> ParseAmountMinor(row.amounts[j])],
                                [j \in 1..3 |-> currency]))]
    /\ UNCHANGED upload

EndImport ==
    /\ import.status = "reading" /\ import.row > Len(upload.rows)
    /\ \/ import.errors = 0 /\ import' = [import EXCEPT !.status = "accepted"]
       \/ import.errors > 0 /\ Refuse
    /\ UNCHANGED upload

TransferNext ==
    ImportStrategy \/ CheckReferences \/ ImportFromCSV \/ ReadRow \/ EndImport

TransferSpec == TransferInit /\ [][TransferNext]_transferVars

-----------------------------------------------------------------------------
(* What is promised                                                        *)

\* the minor units of its currency that a decimal text stands for
StandsFor(d, currency, minor) ==
    LET scale == <<1, 10, 100>>[Len(d.digits) + 1]
        digits == IF d.digits = <<>> THEN 0
                  ELSE IF Len(d.digits) = 1 THEN d.digits[1]
                  ELSE 10 * d.digits[1] + d.digits[2]
    IN  minor * scale = MinorDivisor[currency] * (d.whole * scale + digits)

\* An import that is accepted has a strategy for every row, in order, each of
\* one known currency and with what the row's amounts stand for, except in a table
\* with amounts of JPY, which has no hundredths and whose amounts the importer makes
\* a hundred times too large; from JSON, whose file must have a version, no id comes
\* twice (importStrategy, importFromCSV).
ImportsAreWhole ==
    import.status = "accepted" =>
        LET ss == import.strategies  rows == upload.rows
        IN  /\ Len(ss) = Len(rows)
            /\ \A i \in DOMAIN ss :
                  /\ ss[i].id = rows[i].id
                  /\ Cardinality(ToSet(ss[i].currencies)) = 1
                  /\ ToSet(ss[i].currencies) \subseteq Currencies
                  /\ \A j \in 1..3 :
                        IF upload.format = "json" THEN ss[i].amounts[j] = rows[i].amounts[j]
                        ELSE ss[i].currencies[j] # "JPY" =>
                                StandsFor(rows[i].amounts[j], ss[i].currencies[j], ss[i].amounts[j])
            /\ upload.format = "json" =>
                  upload.versioned /\ IsInjective([i \in DOMAIN ss |-> ss[i].id])
=============================================================================
