--------------------------- MODULE ProfileManager ---------------------------
(***************************************************************************)
(* ProfileManager (profile/src/index.ts): each operation reads the whole   *)
(* profile, changes it and writes it back, with an await before each, over *)
(* a repository whose calls may fail and whose records carry a hash of     *)
(* their data (storage/src/base-repository.ts): one that does not fit is   *)
(* taken for no record.  Calls of several callers overlap.                 *)
(***************************************************************************)
EXTENDS Collections, SequencesExt

CONSTANTS
    Callers,        \* each has one call under way
    VoucherIds,
    ProgramIds,
    MaxVouchers,    \* bound: vouchers of a profile, and payment methods
    MaxManagerCalls, \* bound
    MaxManagerFaults \* bound

ASSUME ManagerAssumption ==
    {MaxVouchers, MaxManagerCalls, MaxManagerFaults} \subseteq Nat /\ "none" \notin Callers

VARIABLES
    current,        \* the record current-profile, if there is one
    damaged,        \* the record does not fit its hash
    busy,           \* the call each caller has under way
    managerCalls,
    managerFaults,
    done            \* auxiliary: the last write, with what its call had read, what
                    \* it wrote over, and whether no other call wrote in between

managerVars == <<current, damaged, busy, managerCalls, managerFaults, done>>

\* optional fields are sets of at most one; value tells versions of an element apart
BlankProfile == [methods |-> <<>>, vouchers |-> {}, memberships |-> {}, preferences |-> 0]

NoCall == [step |-> "idle", op |-> [type |-> "none"], read |-> {}, alone |-> TRUE]

FirstRecords ==
    {{}, {BlankProfile}, {[BlankProfile EXCEPT !.vouchers = {<<>>}, !.memberships = {<<>>}]}}

ManagerInit ==
    /\ current \in FirstRecords
    /\ damaged = FALSE
    /\ busy = [c \in Callers |-> NoCall]
    /\ managerCalls = 0 /\ managerFaults = 0 /\ done = {}

Operations ==
    [type : {"addPaymentMethod"}, value : {1}]
    \cup [type : {"addVoucher", "updateVoucher"}, id : VoucherIds, value : {1, 2}]
    \cup [type : {"removeVoucher"}, id : VoucherIds]
    \cup [type : {"addMembership"}, id : ProgramIds, value : {1, 2}]
    \cup [type : {"removeMembership"}, id : ProgramIds]
    \cup [type : {"updatePreferences"}, value : {1}]

-----------------------------------------------------------------------------
(* The operations, on the profile read                                     *)

\* an optional list that is not there is taken as empty
ListOf(field) == IF field = {} THEN <<>> ELSE CHOOSE s \in field : TRUE

Without(list, id) == Kept(list, {i \in DOMAIN list : list[i].id # id})

Element(op) == [id |-> op.id, value |-> op.value]

\* a plausible slip: a membership is appended to those of its program
AddMembership_Keeps(p, op) ==
    [p EXCEPT !.memberships = {Append(ListOf(@), Element(op))}]

AddMembership(p, op) ==
    [p EXCEPT !.memberships = {Append(Without(ListOf(@), op.id), Element(op))}]

\* the profile to save
Applied(p, op) ==
    CASE op.type = "addPaymentMethod" -> [p EXCEPT !.methods = Append(@, op.value)]
      [] op.type = "addVoucher" ->
            [p EXCEPT !.vouchers = {Append(ListOf(@), Element(op))}]
      [] op.type = "updateVoucher" ->
            [p EXCEPT !.vouchers = {[i \in DOMAIN ListOf(@) |->
                IF ListOf(@)[i].id = op.id THEN Element(op) ELSE ListOf(@)[i]]}]
      [] op.type = "removeVoucher" ->
            [p EXCEPT !.vouchers = {Without(s, op.id) : s \in @}]
      [] op.type = "addMembership" -> AddMembership(p, op)
      [] op.type = "removeMembership" ->
            [p EXCEPT !.memberships = {Without(s, op.id) : s \in @}]
      [] op.type = "updatePreferences" -> [p EXCEPT !.preferences = op.value]

\* removals from a list that is not there save nothing
SavesNothing(p, op) ==
    \/ op.type = "removeVoucher" /\ p.vouchers = {}
    \/ op.type = "removeMembership" /\ p.memberships = {}

-----------------------------------------------------------------------------
(* The repository                                                          *)

\* get: a record whose data do not fit the hash is undefined
GetRecord == IF damaged THEN {} ELSE current

\* put, by c or by no caller: the record gets the hash of its new data, and
\* whoever has read and not written yet will write over it
PutRecord(profiles, c) ==
    /\ current' = profiles /\ damaged' = FALSE
    /\ busy' = [d \in Callers |->
                  IF d = c THEN NoCall
                  ELSE [busy[d] EXCEPT !.alone = @ /\ busy[d].step # "writing"]]

\* the stored data change under their hash
DamageRecord ==
    /\ current # {} /\ ~damaged /\ managerFaults < MaxManagerFaults
    /\ damaged' = TRUE /\ done' = {}
    /\ managerFaults' = managerFaults + 1
    /\ UNCHANGED <<current, busy, managerCalls>>

-----------------------------------------------------------------------------
Call(c, op) ==
    /\ busy[c].step = "idle" /\ managerCalls < MaxManagerCalls
    /\ \A p \in current :
          /\ op.type = "addVoucher" => Len(ListOf(p.vouchers)) < MaxVouchers
          /\ op.type = "addPaymentMethod" => Len(p.methods) < MaxVouchers
    /\ busy' = [busy EXCEPT ![c] = [NoCall EXCEPT !.step = "reading", !.op = op]]
    /\ managerCalls' = managerCalls + 1 /\ done' = {}
    /\ UNCHANGED <<current, damaged, managerFaults>>

\* getProfile answers; without a profile the call throws
ProfileRead(c) ==
    /\ busy[c].step = "reading"
    /\ busy' = [busy EXCEPT ![c] =
                  IF GetRecord = {} \/ \E p \in GetRecord : SavesNothing(p, busy[c].op)
                  THEN NoCall ELSE [@ EXCEPT !.step = "writing", !.read = GetRecord]]
    /\ done' = {}
    /\ UNCHANGED <<current, damaged, managerCalls, managerFaults>>

\* saveProfile
ProfileWritten(c) ==
    /\ busy[c].step = "writing"
    /\ PutRecord({Applied(p, busy[c].op) : p \in busy[c].read}, c)
    /\ done' = {[op |-> busy[c].op, read |-> busy[c].read, before |-> current,
                 alone |-> busy[c].alone]}
    /\ UNCHANGED <<managerCalls, managerFaults>>

\* either call of the repository rejects, and so does the operation
ManagerFault(c) ==
    /\ busy[c].step # "idle" /\ managerFaults < MaxManagerFaults
    /\ busy' = [busy EXCEPT ![c] = NoCall]
    /\ managerFaults' = managerFaults + 1 /\ done' = {}
    /\ UNCHANGED <<current, damaged, managerCalls>>

\* saveProfile by itself, which the first profile comes from; so does one that
\* takes the place of a damaged record
FirstProfile ==
    /\ GetRecord = {}
    /\ PutRecord({BlankProfile}, "none") /\ done' = {}
    /\ UNCHANGED <<managerCalls, managerFaults>>

ManagerNext ==
    \/ \E c \in Callers :
          \/ \E op \in Operations : Call(c, op)
          \/ ProfileRead(c) \/ ProfileWritten(c) \/ ManagerFault(c)
    \/ FirstProfile \/ DamageRecord

ManagerSpec == ManagerInit /\ [][ManagerNext]_managerVars

-----------------------------------------------------------------------------
(* What is promised                                                        *)

Elements(field) == ToSet(ListOf(field))

Others(field, id) == {e \in Elements(field) : e.id # id}

Named(field, id) == {e.value : e \in Elements(field) \ Others(field, id)}

\* what an operation is for, of the methods, the vouchers, the memberships and
\* the rest
TookEffect(op, old, new) ==
    /\ new.methods = IF op.type = "addPaymentMethod" THEN Append(old.methods, op.value)
                     ELSE old.methods
    /\ op.type \notin {"addVoucher", "updateVoucher", "removeVoucher"} =>
          new.vouchers = old.vouchers
    /\ op.type \notin {"addMembership", "removeMembership"} =>
          new.memberships = old.memberships
    /\ op.type # "updatePreferences" => new.preferences = old.preferences
    /\ "id" \in DOMAIN op =>
          /\ Others(new.vouchers, op.id) = Others(old.vouchers, op.id)
          /\ Others(new.memberships, op.id) = Others(old.memberships, op.id)
    /\ op.type = "addVoucher" => op.value \in Named(new.vouchers, op.id)
    /\ op.type = "updateVoucher" =>
          Named(new.vouchers, op.id) =
              IF Named(old.vouchers, op.id) = {} THEN {} ELSE {op.value}
    /\ op.type = "removeVoucher" => Named(new.vouchers, op.id) = {}
    /\ op.type = "addMembership" => Named(new.memberships, op.id) = {op.value}
    /\ op.type = "removeMembership" => Named(new.memberships, op.id) = {}

\* Every write changes what its operation is for and nothing else, of the
\* profile that its call had read; it can undo the writes of others only when one
\* of them came in between; and even when calls undo each other, no program has
\* two memberships (addMembership, addPaymentMethod and the other operations).
WritesTakeEffect ==
    /\ \A d \in done :
          /\ \A old \in d.read, new \in current : TookEffect(d.op, old, new)
          /\ d.alone => d.before = d.read
    /\ \A p \in current : IsInjective([i \in DOMAIN ListOf(p.memberships) |->
                                          ListOf(p.memberships)[i].id])
=============================================================================
