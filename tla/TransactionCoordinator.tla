----------------------- MODULE TransactionCoordinator -----------------------
(***************************************************************************)
(* TransactionCoordinator.executeAtomically over the three concrete        *)
(* operations: burn part of a voucher, save a savings row, update the      *)
(* profile.  There is no transaction around the steps: each get and each   *)
(* put is an IndexedDB transaction of its own, a failure is compensated by *)
(* putting the previous values back in reverse order, and the list of what *)
(* to put back is in memory only.                                          *)
(*                                                                         *)
(* A step is what runs between two awaits, so the calls of several         *)
(* executeAtomically interleave at every get and put.                      *)
(***************************************************************************)
EXTENDS Integers, Sequences, FiniteSetsExt

CONSTANTS
    Txns,                      \* calls of executeAtomically
    Ops,                       \* the operations each call is given
    Vouchers, Rows, Profiles,  \* ids in the three repositories
    Entries,                   \* savings entries
    Fields, Stamps,            \* a profile maps fields to values
    Absent,                    \* what get resolves to for an unknown id
    Initial,                   \* the store before the first call
    MaxFaults                  \* bound: rejected and lost writes, and kills

Records == Vouchers \cup Rows \cup Profiles

ValuesOf(r) ==
    IF r \in Vouchers THEN Nat
    ELSE IF r \in Rows THEN Entries ELSE [Fields -> Stamps]

IsOperation(op) ==
    \/ op.kind = "burn" /\ op.rec \in Vouchers /\ op.arg \in Nat
    \/ op.kind = "save" /\ op.rec \in Rows /\ op.arg \in Entries
    \/ /\ op.kind = "update" /\ op.rec \in Profiles
       /\ DOMAIN op.arg \subseteq Fields
       /\ \A f \in DOMAIN op.arg : op.arg[f] \in Stamps

ASSUME TransactionAssumption ==
    /\ Vouchers \cap Rows = {} /\ Vouchers \cap Profiles = {}
    /\ Rows \cap Profiles = {}
    /\ \A x \in Txns :
        /\ Len(Ops[x]) \in Nat /\ DOMAIN Ops[x] = 1..Len(Ops[x])
        /\ \A i \in 1..Len(Ops[x]) : IsOperation(Ops[x][i])
    /\ Initial = [r \in Records |-> Initial[r]]
    /\ \A r \in Records : Initial[r] \in ValuesOf(r) \cup {Absent}
    /\ MaxFaults \in Nat

VARIABLES
    store,      \* the records, all repositories together
    phase,      \* where each call is
    done,       \* operations[1..done] are completed and not rolled back
    saved,      \* saved[x][i]: what rolling back operation i puts back
    scars,      \* operations whose rollback failed (it is only logged)
    faults,
    before,     \* history: the store when the call began
    disturbed   \* history: calls whose records another call wrote meanwhile,
                \* or whose acknowledged write was lost

vars == <<store, phase, done, saved, scars, faults, before, disturbed>>

Active == {x \in Txns : phase[x] \in {"next", "writing", "undoing"}}

Touches(x) == {Ops[x][i].rec : i \in 1..Len(Ops[x])}

TypeOK ==
    /\ DOMAIN store = Records
    /\ \A r \in Records : store[r] \in ValuesOf(r) \cup {Absent}
    /\ phase \in [Txns -> {"idle", "next", "writing", "undoing",
                           "committed", "failed", "dead"}]
    /\ done \in [Txns -> Nat]
    /\ \A x \in Txns :
        /\ done[x] \in 0..Len(Ops[x])
        /\ phase[x] = "writing" => done[x] < Len(Ops[x])
        /\ Len(saved[x]) \in done[x]..Len(Ops[x])
        /\ \A i \in 1..Len(saved[x]) :
               saved[x][i] \in ValuesOf(Ops[x][i].rec) \cup {Absent}
    /\ scars \in [Txns -> SUBSET Nat]
    /\ faults \in 0..MaxFaults
    /\ disturbed \subseteq Txns

Init ==
    /\ store = Initial
    /\ phase = [x \in Txns |-> "idle"]
    /\ done = [x \in Txns |-> 0]
    /\ saved = [x \in Txns |-> <<>>]
    /\ scars = [x \in Txns |-> {}]
    /\ faults = 0
    /\ before = [x \in Txns |-> Initial]
    /\ disturbed = {}

Fault == faults < MaxFaults /\ faults' = faults + 1

Goto(x, p) == phase' = [phase EXCEPT ![x] = p]

\* x puts value v into record r
Put(x, r, v) ==
    /\ store' = [store EXCEPT ![r] = v]
    /\ disturbed' = disturbed \cup {y \in Active \ {x} : r \in Touches(y)}

-----------------------------------------------------------------------------
(* The forward pass.                                                       *)

Begin(x) ==
    /\ phase[x] = "idle"
    /\ Goto(x, "next")
    /\ before' = [before EXCEPT ![x] = store]
    /\ UNCHANGED <<store, done, saved, scars, faults, disturbed>>

Op(x) == Ops[x][done[x] + 1]
MoreToDo(x) == phase[x] = "next" /\ done[x] < Len(Ops[x])

Commit(x) ==
    /\ phase[x] = "next" /\ done[x] = Len(Ops[x])
    /\ Goto(x, "committed")
    /\ UNCHANGED <<store, done, saved, scars, faults, before, disturbed>>

\* the deadline is looked at before each operation, never after the last;
\* no time has passed before the first
TimesOut(x) ==
    /\ MoreToDo(x) /\ done[x] > 0
    /\ Goto(x, "undoing")
    /\ UNCHANGED <<store, done, saved, scars, faults, before, disturbed>>

\* unknown voucher or profile, or not enough left on the voucher
Refused(op, cur) ==
    \/ cur = Absent
    \/ op.kind = "burn" /\ op.arg > cur

\* the profile with the updates
Updated(cur, updates) ==
    [f \in DOMAIN cur |-> IF f \in DOMAIN updates THEN updates[f] ELSE cur[f]]

\* what the put of an operation writes over the value that its get returned
NewValue(op, cur) ==
    CASE op.kind = "burn" -> cur - op.arg
      [] op.kind = "save" -> op.arg
      [] op.kind = "update" -> Updated(cur, op.arg)

\* mutant: an operation that is refused is skipped
Get_SkipsRefused(x) ==
    /\ MoreToDo(x) /\ Op(x).kind \in {"burn", "update"}
    /\ LET cur == store[Op(x).rec]
       IN  /\ saved' = [saved EXCEPT ![x] = Append(@, cur)]
           /\ IF Refused(Op(x), cur)
              THEN done' = [done EXCEPT ![x] = @ + 1] /\ UNCHANGED phase
              ELSE Goto(x, "writing") /\ UNCHANGED done
    /\ UNCHANGED <<store, scars, faults, before, disturbed>>

\* the get of a burn or an update: the value is kept as rollback data
Get(x) ==
    /\ MoreToDo(x) /\ Op(x).kind \in {"burn", "update"}
    /\ LET cur == store[Op(x).rec]
       IN  IF Refused(Op(x), cur)
           THEN Goto(x, "undoing") /\ UNCHANGED saved
           ELSE Goto(x, "writing") /\ saved' = [saved EXCEPT ![x] = Append(@, cur)]
    /\ UNCHANGED <<store, done, scars, faults, before, disturbed>>

Completed(x) ==
    /\ done' = [done EXCEPT ![x] = @ + 1]
    /\ Goto(x, "next")
    /\ UNCHANGED <<scars, before>>

\* the put of a burn or an update, computed from the value read before
Write(x) ==
    /\ phase[x] = "writing"
    /\ Put(x, Op(x).rec, NewValue(Op(x), saved[x][done[x] + 1]))
    /\ Completed(x)
    /\ UNCHANGED <<saved, faults>>

\* a savings row is put without a look at what was there
SaveRow(x) ==
    /\ MoreToDo(x) /\ Op(x).kind = "save"
    /\ Put(x, Op(x).rec, Op(x).arg)
    /\ saved' = [saved EXCEPT ![x] = Append(@, Absent)]
    /\ Completed(x)
    /\ UNCHANGED faults

\* IndexedDbRepository.put resolves when the request succeeds; the commit
\* that follows aborts and nobody listens
WriteIsLost(x) ==
    /\ \/ phase[x] = "writing" /\ UNCHANGED saved
       \/ /\ MoreToDo(x) /\ Op(x).kind = "save"
          /\ saved' = [saved EXCEPT ![x] = Append(@, Absent)]
    /\ Fault
    /\ disturbed' = disturbed \cup {x}
    /\ Completed(x)
    /\ UNCHANGED store

\* the get or the put rejects: execute returns success: false
OperationRejects(x) ==
    /\ MoreToDo(x) \/ phase[x] = "writing"
    /\ Fault
    /\ Goto(x, "undoing")
    /\ UNCHANGED <<store, done, saved, scars, before, disturbed>>

-----------------------------------------------------------------------------
(* rollbackOperations: reverse order, one operation after the other.       *)

\* a burn or an update puts the previous value back, a save deletes its row
Undo(x) ==
    /\ phase[x] = "undoing" /\ done[x] > 0
    /\ Put(x, Ops[x][done[x]].rec, saved[x][done[x]])
    /\ done' = [done EXCEPT ![x] = @ - 1]
    /\ UNCHANGED <<phase, saved, scars, faults, before>>

\* a rollback that throws is logged and the next one is tried (one whose
\* acknowledged write is lost leaves the same state)
UndoRejects(x) ==
    /\ phase[x] = "undoing" /\ done[x] > 0
    /\ Fault
    /\ scars' = [scars EXCEPT ![x] = @ \cup {done[x]}]
    /\ done' = [done EXCEPT ![x] = @ - 1]
    /\ UNCHANGED <<store, phase, saved, before, disturbed>>

\* mutant: i > 0 for i >= 0, the first operation is never rolled back
Undone_OffByOne(x) ==
    /\ phase[x] = "undoing" /\ done[x] <= 1
    /\ Goto(x, "failed")
    /\ UNCHANGED <<store, done, saved, scars, faults, before, disturbed>>

\* the loop has run down to the first operation
Undone(x) ==
    /\ phase[x] = "undoing" /\ done[x] = 0
    /\ Goto(x, "failed")
    /\ UNCHANGED <<store, done, saved, scars, faults, before, disturbed>>

\* the worker is killed: the calls and their rollback data are gone
WorkerDies ==
    /\ Active # {}
    /\ Fault
    /\ phase' = [x \in Txns |-> IF x \in Active THEN "dead" ELSE phase[x]]
    /\ UNCHANGED <<store, done, saved, scars, before, disturbed>>

Step(x) ==
    \/ Begin(x) \/ Commit(x) \/ TimesOut(x) \/ Get(x) \/ Write(x) \/ SaveRow(x)
    \/ WriteIsLost(x) \/ OperationRejects(x)
    \/ Undo(x) \/ UndoRejects(x) \/ Undone(x)

Next == WorkerDies \/ \E x \in Txns : Step(x)

Spec == Init /\ [][Next]_vars

-----------------------------------------------------------------------------
(* What a call may rely on, when it is alone on its records.               *)

\* what the operations of x, one after the other, make of record r
Effect(x, r) ==
    LET val[n \in 0..Len(Ops[x])] ==
            IF n = 0 THEN before[x][r]
            ELSE IF Ops[x][n].rec = r THEN NewValue(Ops[x][n], val[n - 1])
            ELSE val[n - 1]
    IN  val[Len(Ops[x])]

\* the first operation on r was not rolled back
Scarred(x, r) ==
    \E i \in scars[x] :
        Ops[x][i].rec = r /\ \A j \in 1..(i - 1) : Ops[x][j].rec # r

\* r is a row that the call overwrote: its rollback deletes it
Overwritten(x, r) == r \in Rows /\ before[x][r] # Absent

(***************************************************************************)
(* "All operations succeed or all are rolled back", first half: a call     *)
(* that nobody disturbed and that reports success has all its effects, on  *)
(* every record, in the order of its operations (executeAtomically).       *)
(***************************************************************************)
AllIfCommitted ==
    [][\A x \in Txns \ disturbed : phase[x] = "next" /\ phase'[x] = "committed" =>
            \A r \in Touches(x) : store'[r] = Effect(x, r)]_vars

(***************************************************************************)
(* Second half: a call that nobody disturbed and that reports failure has  *)
(* no effect left, whichever get, put, deadline or rollback failed on the  *)
(* way.  A failed rollback costs a record only if it is that of the first  *)
(* operation on the record: the later ones are healed by those that follow *)
(* them (rollbackOperations, reverse order).                               *)
(***************************************************************************)
NothingIfFailed ==
    [][\A x \in Txns \ disturbed : phase[x] = "undoing" /\ phase'[x] = "failed" =>
            \A r \in Touches(x) :
                Scarred(x, r) \/ Overwritten(x, r) \/ store'[r] = before[x][r]]_vars

-----------------------------------------------------------------------------
(* What the documentation says and the code does not do.                   *)

\* BurnVoucherOperation "reduces voucher balance atomically": once every
\* call has ended, a voucher has lost what the committed calls burned
BurnsAreAtomic ==
    Active = {} /\ faults = 0 =>
        \A v \in Vouchers :
            LET burnt == UNION {{<<x, i>> : i \in {j \in 1..Len(Ops[x]) :
                              Ops[x][j].kind = "burn" /\ Ops[x][j].rec = v}} :
                        x \in {y \in Txns : phase[y] = "committed"}}
            IN  store[v] = Initial[v]
                    - MapThenSumSet(LAMBDA b : Ops[b[1]][b[2]].arg, burnt)
=============================================================================
