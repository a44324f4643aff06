-------------------------- MODULE SerializedValues --------------------------
(***************************************************************************)
(* Two ways in which values with integers of any size are written as JSON  *)
(* and read again: DomainSerializer (domain/src/serialization.ts), in an   *)
(* envelope with a version and perhaps a time, and ProfileImportExport     *)
(* (profile/src/index.ts), perhaps encrypted.                              *)
(*                                                                         *)
(* A datum has two fields.  A value of a field is its kind and its text;   *)
(* an object is one with the keys __type and value, any other object being *)
(* its fields' matter.  JSON has strings, numbers and objects.  A type or  *)
(* a passphrase that is not there is "none".                               *)
(***************************************************************************)
EXTENDS Integers, FiniteSets

CONSTANTS
    ReaderVersion,  \* SERIALIZATION_VERSION
    MaxShelfTime    \* bound

ASSUME SerializedAssumption == {ReaderVersion, MaxShelfTime} \subseteq Nat

VARIABLES
    datum,          \* what is written
    file,           \* the text written, if there is one
    answer,         \* the outcome of the last read
    shelfTime

valueVars == <<datum, file, answer, shelfTime>>

Value(kind, type, text) == [kind |-> kind, type |-> type, text |-> text]

SomeValues ==
    {Value("bigint", "none", "5"), Value("number", "none", "5"), Value("string", "none", "name"),
     Value("string", "none", "5n"), Value("date", "none", "2026"),
     Value("object", "bigint", "5"), Value("object", "bigint", "name"),
     Value("object", "date", "2026"), Value("object", "other", "5")}

Nothing == [outcome |-> "none", data |-> {}, age |-> 0, limit |-> 0]

ValuesInit ==
    /\ datum \in [{"amount", "label"} -> SomeValues]
    /\ file = {} /\ answer = Nothing /\ shelfTime = 0

-----------------------------------------------------------------------------
(* The two encodings of one value                                          *)

\* toJSON of a date is called before the replacer, which sees a string
Replaced(v) ==
    CASE v.kind = "bigint" -> Value("object", "bigint", v.text)
      [] v.kind = "date" -> Value("string", "none", v.text)
      [] OTHER -> v

IsInteger(text) == text = "5"

\* BigInt throws for what is no integer
RevivalFails(v) == v.kind = "object" /\ v.type = "bigint" /\ ~IsInteger(v.text)

\* a plausible slip: the value is taken for a number
Revived_AsNumber(v) ==
    IF v.kind = "object" /\ v.type = "bigint" THEN Value("number", "none", v.text) ELSE v

Revived(v) ==
    IF v.kind = "object" /\ v.type \in {"bigint", "date"}
    THEN Value(v.type, "none", v.text) ELSE v

Suffixed(v) ==
    CASE v.kind = "bigint" -> Value("string", "none", "5n")
      [] v.kind = "date" -> Value("string", "none", v.text)
      [] OTHER -> v

Unsuffixed(v) == IF v.kind = "string" /\ v.text = "5n" THEN Value("bigint", "none", "5") ELSE v

Each(data, F(_)) == [k \in DOMAIN data |-> F(data[k])]

-----------------------------------------------------------------------------
(* DomainSerializer                                                        *)

\* serialize, with the options that matter to a reader; serializeSimple has
\* no envelope
Serialize(version, timed) ==
    /\ file = {}
    /\ file' = {[codec |-> "domain", version |-> version, timed |-> timed, at |-> shelfTime,
                 passphrase |-> "none", data |-> Each(datum, Replaced)]}
    /\ UNCHANGED <<datum, answer, shelfTime>>

\* deserialize: version, age, and the schema, which here admits every datum
Deserialize(f, allowOlder, maxAge) ==
    /\ f.codec = "domain"
    /\ LET age == shelfTime - f.at
       IN  answer' =
            IF \/ \E k \in DOMAIN f.data : RevivalFails(f.data[k])
               \/ f.version > ReaderVersion
               \/ ~allowOlder /\ f.version < ReaderVersion
               \/ maxAge > 0 /\ f.timed /\ age > maxAge
            THEN [Nothing EXCEPT !.outcome = "refused"]
            ELSE [outcome |-> "read", data |-> Each(f.data, Revived), age |-> age,
                  limit |-> IF f.timed THEN maxAge ELSE 0]
    /\ UNCHANGED <<datum, file, shelfTime>>

-----------------------------------------------------------------------------
(* ProfileImportExport                                                     *)

ExportProfile(passphrase) ==
    /\ file = {}
    /\ file' = {[codec |-> "profile", version |-> ReaderVersion, timed |-> FALSE,
                 at |-> shelfTime, passphrase |-> passphrase, data |-> Each(datum, Suffixed)]}
    /\ UNCHANGED <<datum, answer, shelfTime>>

\* without a passphrase the text is parsed as it is, which makes of an encrypted
\* file an object that is no profile; with one, a plain text does not decrypt
ImportProfile(f, passphrase) ==
    /\ f.codec = "profile"
    /\ answer' =
        CASE passphrase = f.passphrase ->
                [Nothing EXCEPT !.outcome = "read", !.data = Each(f.data, Unsuffixed)]
          [] passphrase = "none" /\ f.passphrase # "none" -> [Nothing EXCEPT !.outcome = "ciphertext"]
          [] OTHER -> [Nothing EXCEPT !.outcome = "refused"]
    /\ UNCHANGED <<datum, file, shelfTime>>

Shelve ==
    /\ shelfTime < MaxShelfTime
    /\ shelfTime' = shelfTime + 1 /\ answer' = Nothing
    /\ UNCHANGED <<datum, file>>

ValuesNext ==
    \/ \E version \in (ReaderVersion - 1)..(ReaderVersion + 1), timed \in BOOLEAN :
          Serialize(version, timed)
    \/ \E f \in file, allowOlder \in BOOLEAN, maxAge \in 0..1 :
          Deserialize(f, allowOlder, maxAge)
    \/ \E passphrase \in {"none", "one"} : ExportProfile(passphrase)
    \/ \E f \in file, passphrase \in {"none", "one", "two"} : ImportProfile(f, passphrase)
    \/ Shelve

ValuesSpec == ValuesInit /\ [][ValuesNext]_valueVars

-----------------------------------------------------------------------------
\* What a reader would take for something else: a date is written as a string,
\* and each encoding has its own look-alikes of an integer
Mistaken(codec, v) ==
    \/ v.kind = "date"
    \/ codec = "domain" /\ v.kind = "object" /\ v.type \in {"bigint", "date"}
    \/ codec = "profile" /\ v.kind = "string" /\ v.text = "5n"

\* A field that is no look-alike is read as it was written, integers of any
\* size included, from a file that is no newer than the reader and, if it has a
\* time, no older than asked (serialize, deserialize, exportProfile,
\* importProfile).
ReadAsWritten ==
    \A f \in file : answer.outcome = "read" =>
        /\ \A k \in DOMAIN datum : Mistaken(f.codec, datum[k]) \/ answer.data[k] = datum[k]
        /\ f.version <= ReaderVersion
        /\ answer.limit > 0 => answer.age <= answer.limit
=============================================================================
