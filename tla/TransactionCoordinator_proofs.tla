------------------- MODULE TransactionCoordinator_proofs -------------------
(***************************************************************************)
(* Proofs about TransactionCoordinator for any calls, operations, records  *)
(* and number of faults.                                                   *)
(***************************************************************************)
EXTENDS TransactionCoordinator, WellFoundedInduction, TLAPS

Values == (UNION {ValuesOf(r) : r \in Records}) \cup {Absent}

\* the shapes that TypeOK leaves to the evaluator
Shapes ==
    /\ store \in [Records -> Values]
    /\ before \in [Txns -> [Records -> Values]]
    /\ saved \in [Txns -> Seq(Values)]

\* rollback data is kept in step with the operations, and a burn that was
\* let through still fits the balance it was checked against
InStep(x) ==
    /\ phase[x] = "idle" => done[x] = 0 /\ saved[x] = <<>>
    /\ phase[x] = "next" => Len(saved[x]) = done[x]
    /\ phase[x] = "writing" =>
           /\ Len(saved[x]) = done[x] + 1
           /\ Op(x).kind # "save"
           /\ ~Refused(Op(x), saved[x][done[x] + 1])

\* no operation among the first n is on record r
NoneOn(x, r, n) == \A j \in 1..n : Ops[x][j].rec # r

\* records that no standing operation is on are as they were before
Untouched(x) ==
    \A r \in Touches(x) : NoneOn(x, r, done[x]) =>
        \/ phase[x] = "undoing" /\ (Scarred(x, r) \/ Overwritten(x, r))
        \/ store[r] = before[x][r]

\* the rollback data of the first operation on a record is what it was before
FirstSaved(x) ==
    \A i \in 1..Len(saved[x]) : NoneOn(x, Ops[x][i].rec, i - 1) =>
        saved[x][i] = IF Ops[x][i].kind = "save" THEN Absent
                      ELSE before[x][Ops[x][i].rec]

CallInv(x) ==
    /\ InStep(x)
    /\ x \in Active \ disturbed => Untouched(x) /\ FirstSaved(x)

IInv == TypeOK /\ Shapes /\ \A x \in Txns : CallInv(x)

-----------------------------------------------------------------------------
\* the records of an operation are records, of the kind it is meant for
LEMMA OperationFacts ==
    ASSUME NEW x \in Txns, NEW i \in 1..Len(Ops[x])
    PROVE  /\ IsOperation(Ops[x][i])
           /\ Ops[x][i].rec \in Records /\ Ops[x][i].rec \in Touches(x)
           /\ Ops[x][i].kind = "save" => Ops[x][i].rec \in Rows
           /\ Ops[x][i].kind = "burn" => Ops[x][i].rec \in Vouchers
BY TransactionAssumption DEF IsOperation, Records, Touches

\* an operation that is not refused writes a value of the record's type
LEMMA NewValueType ==
    ASSUME NEW op, IsOperation(op), NEW cur,
           op.kind # "save" => cur \in ValuesOf(op.rec) /\ ~Refused(op, cur)
    PROVE  NewValue(op, cur) \in ValuesOf(op.rec)
<1>1. CASE op.kind = "burn"
  <2>1. ValuesOf(op.rec) = Nat /\ op.arg \in Nat
    BY <1>1 DEF IsOperation, ValuesOf
  <2> QED
    BY <1>1, <2>1 DEF Refused, NewValue
<1>2. CASE op.kind = "save"
  BY <1>2, TransactionAssumption DEF IsOperation, ValuesOf, NewValue
<1>3. CASE op.kind = "update"
  <2>1. ValuesOf(op.rec) = [Fields -> Stamps]
    BY <1>3, TransactionAssumption DEF IsOperation, ValuesOf
  <2> QED
    BY <1>3, <2>1 DEF IsOperation, NewValue, Updated
<1> QED
  BY <1>1, <1>2, <1>3 DEF IsOperation

\* the initial store, with no call begun, satisfies the invariant
LEMMA InitIInv == Init => IInv
<1> SUFFICES ASSUME Init PROVE IInv
  OBVIOUS
<1>1. TypeOK
  BY TransactionAssumption DEF Init, TypeOK
<1>2. Shapes
  <2>1. Initial \in [Records -> Values]
    BY TransactionAssumption DEF Values
  <2> QED
    BY <2>1 DEF Init, Shapes
<1>3. \A x \in Txns : CallInv(x)
  BY DEF Init, CallInv, InStep, Active
<1> QED
  BY <1>1, <1>2, <1>3 DEF IInv

\* what a call relies on survives the steps of the others, or it is disturbed
LEMMA Frame ==
    ASSUME IInv, NEW y \in Txns, disturbed \subseteq disturbed',
           phase'[y] = phase[y], done'[y] = done[y], saved'[y] = saved[y],
           scars'[y] = scars[y], before'[y] = before[y],
           y \in Active \ disturbed' =>
               \A r \in Touches(y) : store'[r] = store[r]
    PROVE  CallInv(y)'
<1>1. InStep(y)'
  BY DEF IInv, CallInv, InStep, Op
<1>2. ASSUME y \in Active' \ disturbed' PROVE Untouched(y)' /\ FirstSaved(y)'
  <2>1. y \in Active \ disturbed
    BY <1>2 DEF Active
  <2>2. Untouched(y) /\ FirstSaved(y)
    BY <2>1 DEF IInv, CallInv
  <2> QED
    BY <1>2, <2>1, <2>2 DEF Untouched, FirstSaved, Touches, Scarred, Overwritten, Active
<1> QED
  BY <1>1, <1>2 DEF CallInv

\* a put is felt by the calls it disturbs and by no other
LEMMA PutFrame ==
    ASSUME IInv, NEW x \in Txns, NEW r \in Records, NEW w \in ValuesOf(r) \cup {Absent},
           Put(x, r, w)
    PROVE  /\ disturbed \subseteq disturbed' /\ disturbed' \subseteq Txns
           /\ x \in disturbed' => x \in disturbed
           /\ store' \in [Records -> Values]
           /\ \A q \in Records : store'[q] \in ValuesOf(q) \cup {Absent}
           /\ store'[r] = w /\ \A q \in Records \ {r} : store'[q] = store[q]
           /\ \A y \in Txns \ {x} : y \in Active \ disturbed' =>
                  \A q \in Touches(y) : store'[q] = store[q]
<1>1. store \in [Records -> Values] /\ w \in Values
  BY DEF IInv, Shapes, Values
<1>2. store' = [store EXCEPT ![r] = w]
  BY DEF Put
<1>3. /\ store' \in [Records -> Values]
      /\ store'[r] = w /\ \A q \in Records \ {r} : store'[q] = store[q]
  BY <1>1, <1>2
<1>4. \A q \in Records : store'[q] \in ValuesOf(q) \cup {Absent}
  BY <1>3 DEF IInv, TypeOK
<1>5. /\ disturbed \subseteq disturbed' /\ disturbed' \subseteq Txns
      /\ x \in disturbed' => x \in disturbed
  BY DEF Put, IInv, TypeOK, Active
<1>6. ASSUME NEW y \in Txns \ {x}, y \in Active \ disturbed', NEW q \in Touches(y)
      PROVE  store'[q] = store[q]
  <2>1. q # r
    BY <1>6 DEF Put
  <2>2. q \in Records
    BY OperationFacts DEF Touches
  <2> QED
    BY <1>3, <2>1, <2>2
<1> QED
  BY <1>3, <1>4, <1>5, <1>6

\* the actions that move a call along without a put
LEMMA BeginStep ==
    ASSUME IInv, NEW x \in Txns, Begin(x)
    PROVE  IInv'
<1>1. /\ phase[x] = "idle" /\ phase' = [phase EXCEPT ![x] = "next"]
      /\ before' = [before EXCEPT ![x] = store]
      /\ UNCHANGED <<store, done, saved, scars, faults, disturbed>>
  BY DEF Begin, Goto
<1>2. TypeOK' /\ Shapes'
  BY <1>1 DEF IInv, TypeOK, Shapes
<1>3. ASSUME NEW y \in Txns \ {x} PROVE CallInv(y)'
  BY <1>1, Frame DEF IInv, TypeOK, Shapes
<1>4. CallInv(x)'
  <2>1. /\ done'[x] = 0 /\ saved'[x] = <<>> /\ phase'[x] = "next"
        /\ before'[x] = store'
    BY <1>1 DEF IInv, TypeOK, Shapes, CallInv, InStep
  <2>2. InStep(x)'
    BY <2>1 DEF InStep
  <2>3. Untouched(x)' /\ FirstSaved(x)'
    BY <2>1 DEF Untouched, FirstSaved
  <2> QED
    BY <2>2, <2>3 DEF CallInv
<1> QED
  BY <1>2, <1>3, <1>4 DEF IInv

\* committing, giving up and being killed change no record and end, or turn
\* round, the call
LEMMA TurnStep ==
    ASSUME IInv, NEW x \in Txns, NEW p, Goto(x, p),
           phase[x] \in {"next", "writing", "undoing"},
           p \in {"committed", "failed", "undoing"},
           faults' \in 0..MaxFaults,
           UNCHANGED <<store, done, saved, scars, before, disturbed>>
    PROVE  IInv'
<1>1. phase' = [phase EXCEPT ![x] = p]
  BY DEF Goto
<1>2. TypeOK' /\ Shapes'
  BY <1>1 DEF IInv, TypeOK, Shapes
<1>3. ASSUME NEW y \in Txns \ {x} PROVE CallInv(y)'
  BY <1>1, Frame DEF IInv, TypeOK
<1>4. CallInv(x)'
  <2>1. phase'[x] = p
    BY <1>1 DEF IInv, TypeOK
  <2>2. InStep(x)'
    BY <2>1 DEF InStep
  <2>3. x \in (Active \ disturbed)' => x \in Active \ disturbed
    BY DEF Active
  <2>4. x \in (Active \ disturbed)' => Untouched(x)' /\ FirstSaved(x)'
    <3> SUFFICES ASSUME x \in (Active \ disturbed)'
                 PROVE  Untouched(x)' /\ FirstSaved(x)'
      OBVIOUS
    <3>1. Untouched(x) /\ FirstSaved(x) /\ p = "undoing"
      BY <2>1, <2>3 DEF IInv, CallInv, Active
    <3> QED
      BY <2>1, <3>1 DEF Untouched, FirstSaved, Scarred, Overwritten
  <2> QED
    BY <2>2, <2>4 DEF CallInv
<1> QED
  BY <1>2, <1>3, <1>4 DEF IInv

\* reading the current value keeps it as rollback data, or ends the pass
LEMMA GetStep ==
    ASSUME IInv, NEW x \in Txns, Get(x)
    PROVE  IInv'
<1> DEFINE i == done[x] + 1
           cur == store[Op(x).rec]
<1>1. /\ phase[x] = "next" /\ done[x] < Len(Ops[x]) /\ done[x] \in Nat
      /\ Op(x).kind \in {"burn", "update"}
      /\ UNCHANGED <<store, done, scars, faults, before, disturbed>>
  BY DEF Get, MoreToDo, IInv, TypeOK
<1>2. i \in 1..Len(Ops[x]) /\ Op(x) = Ops[x][i]
  BY <1>1, TransactionAssumption DEF Op
<1>3. CASE Refused(Op(x), cur)
  <2>1. Goto(x, "undoing") /\ UNCHANGED saved
    BY <1>3 DEF Get
  <2> QED
    BY <1>1, <2>1, TurnStep DEF IInv, TypeOK
<1>4. CASE ~Refused(Op(x), cur)
  <2>1. /\ phase' = [phase EXCEPT ![x] = "writing"]
        /\ saved' = [saved EXCEPT ![x] = Append(@, cur)]
    BY <1>4 DEF Get, Goto
  <2>2. saved[x] \in Seq(Values) /\ cur \in Values /\ Len(saved[x]) = done[x]
    BY <1>1, <1>2, OperationFacts DEF IInv, Shapes, CallInv, InStep
  <2>3. /\ saved'[x] = Append(saved[x], cur) /\ Len(saved'[x]) = i
        /\ saved'[x][i] = cur
        /\ \A j \in 1..done[x] : saved'[x][j] = saved[x][j]
        /\ phase'[x] = "writing"
        /\ saved' \in [Txns -> Seq(Values)]
        /\ \A y \in Txns \ {x} : saved'[y] = saved[y] /\ phase'[y] = phase[y]
    BY <1>1, <2>1, <2>2 DEF IInv, TypeOK, Shapes
  <2>4. TypeOK' /\ Shapes'
    <3>1. cur \in ValuesOf(Ops[x][i].rec) \cup {Absent}
      BY <1>2, OperationFacts DEF IInv, TypeOK
    <3>2. \A y \in Txns : \A j \in 1..Len(saved'[y]) :
              saved'[y][j] \in ValuesOf(Ops[y][j].rec) \cup {Absent}
      <4> SUFFICES ASSUME NEW y \in Txns, NEW j \in 1..Len(saved'[y])
                   PROVE  saved'[y][j] \in ValuesOf(Ops[y][j].rec) \cup {Absent}
        OBVIOUS
      <4>1. CASE y # x
        BY <2>3, <4>1 DEF IInv, TypeOK
      <4>2. CASE y = x /\ j = i
        BY <2>3, <3>1, <4>2
      <4>3. CASE y = x /\ j # i
        BY <1>1, <2>2, <2>3, <4>3, SMTT(30) DEF IInv, TypeOK
      <4> QED
        BY <4>1, <4>2, <4>3
    <3>3. \A y \in Txns : Len(saved'[y]) \in done'[y]..Len(Ops[y])
      BY <1>1, <1>2, <2>3 DEF IInv, TypeOK
    <3> QED
      BY <1>1, <2>1, <2>3, <3>2, <3>3 DEF IInv, TypeOK, Shapes
  <2>5. ASSUME NEW y \in Txns \ {x} PROVE CallInv(y)'
    BY <1>1, <2>3, Frame
  <2>6. InStep(x)'
    BY <1>1, <1>2, <1>4, <2>3 DEF InStep, Op
  <2>7. ASSUME x \in (Active \ disturbed)'
        PROVE  Untouched(x)' /\ FirstSaved(x)'
    <3>1. Untouched(x) /\ FirstSaved(x)
      BY <1>1, <2>7 DEF IInv, CallInv, Active
    <3>2. Untouched(x)'
      BY <1>1, <2>3, <3>1 DEF Untouched
    <3>3. NoneOn(x, Ops[x][i].rec, i - 1) => cur = before[x][Ops[x][i].rec]
      BY <1>1, <1>2, <3>1, OperationFacts DEF Untouched
    <3>4. FirstSaved(x)'
      <4> SUFFICES ASSUME NEW j \in 1..i, NoneOn(x, Ops[x][j].rec, j - 1)
                   PROVE  saved'[x][j] = IF Ops[x][j].kind = "save" THEN Absent
                                         ELSE before'[x][Ops[x][j].rec]
        BY <2>3 DEF FirstSaved, NoneOn
      <4>1. CASE j = i
        BY <1>1, <1>2, <2>3, <3>3, <4>1
      <4>2. CASE j # i
        BY <1>1, <2>2, <2>3, <3>1, <4>2 DEF FirstSaved
      <4> QED
        BY <4>1, <4>2
    <3> QED
      BY <3>2, <3>4
  <2> QED
    BY <2>4, <2>5, <2>6, <2>7 DEF IInv, CallInv
<1> QED
  BY <1>3, <1>4

\* an operation counts as completed: its rollback data is s[done + 1], and
\* only its own record may have changed
LEMMA CompleteStep ==
    ASSUME IInv, NEW x \in Txns, phase[x] \in {"next", "writing"},
           done[x] + 1 \in 1..Len(Ops[x]), Completed(x), faults' \in 0..MaxFaults,
           NEW s \in Seq(Values), saved' = [saved EXCEPT ![x] = s],
           Len(s) = done[x] + 1,
           \A j \in 1..done[x] : s[j] = saved[x][j],
           s[done[x] + 1] \in ValuesOf(Op(x).rec) \cup {Absent},
           x \notin disturbed /\ NoneOn(x, Op(x).rec, done[x]) =>
               s[done[x] + 1] = IF Op(x).kind = "save" THEN Absent
                                ELSE before[x][Op(x).rec],
           disturbed \subseteq disturbed', disturbed' \subseteq Txns,
           store' \in [Records -> Values],
           \A q \in Records : store'[q] \in ValuesOf(q) \cup {Absent},
           x \notin disturbed' =>
               \A q \in Records \ {Op(x).rec} : store'[q] = store[q],
           \A y \in Txns \ {x} : y \in Active \ disturbed' =>
               \A q \in Touches(y) : store'[q] = store[q]
    PROVE  IInv'
<1> DEFINE i == done[x] + 1
<1>1. /\ phase' = [phase EXCEPT ![x] = "next"] /\ done' = [done EXCEPT ![x] = i]
      /\ UNCHANGED <<scars, before>>
  BY DEF Completed, Goto
<1>2. /\ phase'[x] = "next" /\ done'[x] = i /\ saved'[x] = s
      /\ done[x] \in Nat /\ i - 1 = done[x] /\ Len(saved[x]) >= done[x]
      /\ Op(x) = Ops[x][i]
      /\ \A y \in Txns \ {x} : /\ phase'[y] = phase[y] /\ done'[y] = done[y]
                               /\ saved'[y] = saved[y]
  BY <1>1, TransactionAssumption DEF IInv, TypeOK, Shapes, Op
<1>3. TypeOK' /\ Shapes'
  <2>1. ASSUME NEW y \in Txns, NEW j \in 1..Len(saved'[y])
        PROVE  saved'[y][j] \in ValuesOf(Ops[y][j].rec) \cup {Absent}
    <3>1. CASE y # x
      BY <1>2, <3>1 DEF IInv, TypeOK
    <3>2. CASE y = x /\ j = i
      BY <1>2, <3>2
    <3>3. CASE y = x /\ j # i
      <4>1. j \in 1..done[x] /\ j \in 1..Len(saved[x]) /\ saved'[y][j] = saved[x][j]
        BY <1>2, <3>3 DEF IInv, Shapes
      <4> QED
        BY <3>3, <4>1 DEF IInv, TypeOK
    <3> QED
      BY <3>1, <3>2, <3>3
  <2>2. ASSUME NEW y \in Txns
        PROVE  /\ done'[y] \in 0..Len(Ops[y])
               /\ phase'[y] = "writing" => done'[y] < Len(Ops[y])
               /\ Len(saved'[y]) \in done'[y]..Len(Ops[y])
    BY <1>2, TransactionAssumption DEF IInv, TypeOK
  <2> QED
    BY <1>1, <1>2, <2>1, <2>2 DEF IInv, TypeOK, Shapes
<1>4. ASSUME NEW y \in Txns \ {x} PROVE CallInv(y)'
  BY <1>1, <1>2, <1>4, Frame
<1>5. InStep(x)'
  BY <1>2 DEF InStep
<1>6. ASSUME x \in (Active \ disturbed)'
      PROVE  Untouched(x)' /\ FirstSaved(x)'
  <2>1. x \in Active \ disturbed /\ Untouched(x) /\ FirstSaved(x)
    BY <1>6 DEF IInv, CallInv, Active
  <2>2. ASSUME NEW q \in Touches(x), NoneOn(x, q, i)
        PROVE  store'[q] = before'[x][q]
    <3>1. NoneOn(x, q, done[x]) /\ q # Op(x).rec
      BY <1>2, <2>2 DEF NoneOn
    <3>2. q \in Records
      BY OperationFacts DEF Touches
    <3> QED
      BY <1>1, <1>6, <2>1, <3>1, <3>2 DEF Untouched
  <2>3. Untouched(x)'
    BY <1>2, <2>2 DEF Untouched, NoneOn
  <2>4. ASSUME NEW j \in 1..i, NoneOn(x, Ops[x][j].rec, j - 1)
        PROVE  s[j] = IF Ops[x][j].kind = "save" THEN Absent
                      ELSE before[x][Ops[x][j].rec]
    <3>1. CASE j = i
      BY <1>2, <2>1, <2>4, <3>1
    <3>2. CASE j # i
      BY <1>2, <2>1, <2>4, <3>2 DEF FirstSaved
    <3> QED
      BY <3>1, <3>2
  <2>5. FirstSaved(x)'
    <3> SUFFICES ASSUME NEW j \in 1..i, NoneOn(x, Ops[x][j].rec, j - 1)
                 PROVE  saved'[x][j] = IF Ops[x][j].kind = "save" THEN Absent
                                       ELSE before'[x][Ops[x][j].rec]
      BY <1>2 DEF FirstSaved, NoneOn
    <3> QED
      BY <1>1, <1>2, <2>4
  <2> QED
    BY <2>3, <2>5
<1> QED
  BY <1>3, <1>4, <1>5, <1>6 DEF IInv, CallInv

\* the put that follows a get
LEMMA WriteStep ==
    ASSUME IInv, NEW x \in Txns, Write(x)
    PROVE  IInv'
<1> DEFINE i == done[x] + 1
<1>1. /\ phase[x] = "writing" /\ Completed(x) /\ UNCHANGED <<saved, faults>>
      /\ Put(x, Op(x).rec, NewValue(Op(x), saved[x][i]))
  BY DEF Write
<1>2. /\ i \in 1..Len(Ops[x]) /\ Op(x) = Ops[x][i] /\ done[x] \in Nat
      /\ saved[x] \in Seq(Values) /\ Len(saved[x]) = i
      /\ saved[x][i] \in ValuesOf(Op(x).rec) \cup {Absent}
      /\ Op(x).kind # "save" /\ ~Refused(Op(x), saved[x][i])
  BY <1>1, TransactionAssumption DEF IInv, TypeOK, Shapes, CallInv, InStep, Op
<1>3. NewValue(Op(x), saved[x][i]) \in ValuesOf(Op(x).rec)
  BY <1>2, OperationFacts, NewValueType DEF Refused
<1>4. x \notin disturbed => FirstSaved(x)
  BY <1>1 DEF IInv, CallInv, Active
<1>5. x \notin disturbed /\ NoneOn(x, Op(x).rec, done[x]) =>
          saved[x][i] = before[x][Op(x).rec]
  <2>1. i - 1 = done[x] /\ i \in 1..Len(saved[x])
    BY <1>2
  <2> QED
    BY <1>2, <1>4, <2>1 DEF FirstSaved
<1>6. saved' = [saved EXCEPT ![x] = saved[x]]
  BY <1>1 DEF IInv, Shapes
<1>7. Op(x).rec \in Records
  BY <1>2, OperationFacts
<1>8. /\ disturbed \subseteq disturbed' /\ disturbed' \subseteq Txns
      /\ store' \in [Records -> Values]
      /\ \A q \in Records : store'[q] \in ValuesOf(q) \cup {Absent}
      /\ \A q \in Records \ {Op(x).rec} : store'[q] = store[q]
      /\ \A y \in Txns \ {x} : y \in Active \ disturbed' =>
             \A q \in Touches(y) : store'[q] = store[q]
  BY <1>1, <1>3, <1>7, PutFrame
<1>9. faults' \in 0..MaxFaults /\ \A j \in 1..done[x] : saved[x][j] = saved[x][j]
  BY <1>1 DEF IInv, TypeOK
<1> QED
  BY <1>1, <1>2, <1>5, <1>6, <1>8, <1>9, CompleteStep

\* what appending the rollback data of a save gives
LEMMA SavedAppend ==
    ASSUME IInv, NEW x \in Txns, MoreToDo(x), Op(x).kind = "save",
           saved' = [saved EXCEPT ![x] = Append(@, Absent)]
    PROVE  LET s == Append(saved[x], Absent)
           IN  /\ s \in Seq(Values) /\ saved' = [saved EXCEPT ![x] = s]
               /\ Len(s) = done[x] + 1 /\ s[done[x] + 1] = Absent
               /\ \A j \in 1..done[x] : s[j] = saved[x][j]
               /\ done[x] + 1 \in 1..Len(Ops[x])
               /\ Op(x) = Ops[x][done[x] + 1]
<1>1. /\ saved[x] \in Seq(Values) /\ Len(saved[x]) = done[x] /\ done[x] \in Nat
      /\ done[x] < Len(Ops[x]) /\ Absent \in Values
  BY DEF IInv, TypeOK, Shapes, CallInv, InStep, MoreToDo, Values
<1> QED
  BY <1>1, TransactionAssumption DEF Op

\* a savings row is put
LEMMA SaveRowStep ==
    ASSUME IInv, NEW x \in Txns, SaveRow(x)
    PROVE  IInv'
<1> DEFINE s == Append(saved[x], Absent)
<1>1. /\ MoreToDo(x) /\ Op(x).kind = "save" /\ Completed(x) /\ faults' = faults
      /\ Put(x, Op(x).rec, Op(x).arg)
      /\ saved' = [saved EXCEPT ![x] = Append(@, Absent)]
  BY DEF SaveRow
<1>2. /\ s \in Seq(Values) /\ saved' = [saved EXCEPT ![x] = s]
      /\ Len(s) = done[x] + 1 /\ s[done[x] + 1] = Absent
      /\ \A j \in 1..done[x] : s[j] = saved[x][j]
      /\ done[x] + 1 \in 1..Len(Ops[x]) /\ Op(x) = Ops[x][done[x] + 1]
  BY <1>1, SavedAppend
<1>3. Op(x).rec \in Records /\ IsOperation(Op(x))
  BY <1>2, OperationFacts
<1>4. Op(x).arg \in ValuesOf(Op(x).rec)
  BY <1>1, <1>3, NewValueType DEF NewValue
<1>5. /\ disturbed \subseteq disturbed' /\ disturbed' \subseteq Txns
      /\ store' \in [Records -> Values]
      /\ \A q \in Records : store'[q] \in ValuesOf(q) \cup {Absent}
      /\ \A q \in Records \ {Op(x).rec} : store'[q] = store[q]
      /\ \A y \in Txns \ {x} : y \in Active \ disturbed' =>
             \A q \in Touches(y) : store'[q] = store[q]
  BY <1>1, <1>3, <1>4, PutFrame
<1>6. faults' \in 0..MaxFaults /\ phase[x] \in {"next", "writing"}
  BY <1>1 DEF IInv, TypeOK, MoreToDo
<1>7. s[done[x] + 1] \in ValuesOf(Op(x).rec) \cup {Absent}
  BY <1>2
<1>8. s[done[x] + 1] = IF Op(x).kind = "save" THEN Absent ELSE before[x][Op(x).rec]
  BY <1>1, <1>2
<1> QED
  BY <1>1, <1>2, <1>5, <1>6, <1>7, <1>8, CompleteStep

\* an acknowledged put that never commits disturbs the call itself
LEMMA LostStep ==
    ASSUME IInv, NEW x \in Txns, WriteIsLost(x)
    PROVE  IInv'
<1>1. /\ Fault /\ disturbed' = disturbed \cup {x} /\ Completed(x) /\ store' = store
  BY DEF WriteIsLost
<1>2. /\ disturbed \subseteq disturbed' /\ disturbed' \subseteq Txns
      /\ x \in disturbed'
      /\ store' \in [Records -> Values]
      /\ \A q \in Records : store'[q] \in ValuesOf(q) \cup {Absent}
      /\ \A y \in Txns \ {x} : y \in Active \ disturbed' =>
             \A q \in Touches(y) : store'[q] = store[q]
      /\ faults' \in 0..MaxFaults
  <2>1. faults' \in 0..MaxFaults
    BY <1>1, TransactionAssumption DEF IInv, TypeOK, Fault
  <2> QED
    BY <1>1, <2>1 DEF IInv, TypeOK, Shapes
<1>3. x \notin disturbed' => \A q \in Records \ {Op(x).rec} : store'[q] = store[q]
  BY <1>2
<1>4. CASE phase[x] = "writing" /\ UNCHANGED saved
  <2>1. /\ done[x] + 1 \in 1..Len(Ops[x]) /\ Op(x) = Ops[x][done[x] + 1]
        /\ done[x] \in Nat
        /\ saved[x] \in Seq(Values) /\ Len(saved[x]) = done[x] + 1
        /\ saved[x][done[x] + 1] \in ValuesOf(Op(x).rec) \cup {Absent}
        /\ Op(x).kind # "save"
    BY <1>4, TransactionAssumption DEF IInv, TypeOK, Shapes, CallInv, InStep, Op
  <2>2. saved' = [saved EXCEPT ![x] = saved[x]]
    BY <1>4 DEF IInv, Shapes
  <2>3. x \notin disturbed => FirstSaved(x)
    BY <1>4 DEF IInv, CallInv, Active
  <2>4. x \notin disturbed /\ NoneOn(x, Op(x).rec, done[x]) =>
            saved[x][done[x] + 1] = IF Op(x).kind = "save" THEN Absent
                                    ELSE before[x][Op(x).rec]
    <3> DEFINE i == done[x] + 1
    <3>1. i \in 1..Len(saved[x]) /\ i - 1 = done[x] /\ Op(x) = Ops[x][i]
      BY <2>1
    <3> HIDE DEF i
    <3>2. x \notin disturbed /\ NoneOn(x, Op(x).rec, done[x]) =>
              saved[x][i] = IF Op(x).kind = "save" THEN Absent
                            ELSE before[x][Op(x).rec]
      BY <2>3, <3>1, SMTT(30) DEF FirstSaved
    <3> QED
      BY <3>2 DEF i
  <2>5. \A j \in 1..done[x] : saved[x][j] = saved[x][j]
    OBVIOUS
  <2> QED
    BY <1>1, <1>2, <1>3, <1>4, <2>1, <2>2, <2>4, <2>5, CompleteStep
<1>5. CASE /\ MoreToDo(x) /\ Op(x).kind = "save"
           /\ saved' = [saved EXCEPT ![x] = Append(@, Absent)]
  <2> DEFINE s == Append(saved[x], Absent)
  <2>1. /\ s \in Seq(Values) /\ saved' = [saved EXCEPT ![x] = s]
        /\ Len(s) = done[x] + 1 /\ s[done[x] + 1] = Absent
        /\ \A j \in 1..done[x] : s[j] = saved[x][j]
        /\ done[x] + 1 \in 1..Len(Ops[x]) /\ Op(x) = Ops[x][done[x] + 1]
    BY <1>5, SavedAppend
  <2>2. s[done[x] + 1] \in ValuesOf(Op(x).rec) \cup {Absent}
    BY <2>1
  <2>3. s[done[x] + 1] = IF Op(x).kind = "save" THEN Absent ELSE before[x][Op(x).rec]
    BY <1>5, <2>1
  <2>4. phase[x] \in {"next", "writing"}
    BY <1>5 DEF MoreToDo
  <2> QED
    BY <1>1, <1>2, <1>3, <2>1, <2>2, <2>3, <2>4, CompleteStep, Zenon
<1> QED
  BY <1>4, <1>5 DEF WriteIsLost

\* one operation less to roll back: its record is restored, or was never the
\* business of a later one, or keeps a scar
LEMMA BackStep ==
    ASSUME IInv, NEW x \in Txns, phase[x] = "undoing", done[x] > 0,
           done' = [done EXCEPT ![x] = @ - 1], UNCHANGED <<phase, saved, before>>,
           faults' \in 0..MaxFaults,
           scars' \in [Txns -> SUBSET Nat], scars[x] \subseteq scars'[x],
           \A y \in Txns \ {x} : scars'[y] = scars[y],
           disturbed \subseteq disturbed', disturbed' \subseteq Txns,
           store' \in [Records -> Values],
           \A q \in Records : store'[q] \in ValuesOf(q) \cup {Absent},
           \A q \in Records \ {Ops[x][done[x]].rec} : store'[q] = store[q],
           done[x] \in scars'[x] \/ store'[Ops[x][done[x]].rec] = saved[x][done[x]],
           \A y \in Txns \ {x} : y \in Active \ disturbed' =>
               \A q \in Touches(y) : store'[q] = store[q]
    PROVE  IInv'
<1> DEFINE i == done[x]
           rec == Ops[x][i].rec
<1>1. /\ done'[x] = i - 1 /\ i \in Nat /\ i - 1 \in Nat
      /\ i \in 1..Len(Ops[x]) /\ i \in 1..Len(saved[x])
      /\ \A y \in Txns \ {x} : done'[y] = done[y]
  BY TransactionAssumption DEF IInv, TypeOK, Shapes
<1>2. TypeOK' /\ Shapes'
  <2>1. ASSUME NEW y \in Txns
        PROVE  /\ done'[y] \in 0..Len(Ops[y])
               /\ phase'[y] = "writing" => done'[y] < Len(Ops[y])
               /\ Len(saved'[y]) \in done'[y]..Len(Ops[y])
    <3>1. CASE y = x
      BY <1>1, <3>1 DEF IInv, TypeOK
    <3>2. CASE y # x
      BY <1>1, <3>2 DEF IInv, TypeOK
    <3> QED
      BY <3>1, <3>2
  <2>2. done' \in [Txns -> Nat] /\ DOMAIN store' = Records
    BY <1>1 DEF IInv, TypeOK
  <2> QED
    BY <2>1, <2>2 DEF IInv, TypeOK, Shapes
<1>3. ASSUME NEW y \in Txns \ {x} PROVE CallInv(y)'
  BY <1>1, <1>3, Frame
<1>4. InStep(x)'
  BY DEF InStep
<1>5. ASSUME x \in (Active \ disturbed)' PROVE Untouched(x)' /\ FirstSaved(x)'
  <2>1. Untouched(x) /\ FirstSaved(x)
    BY <1>5 DEF IInv, CallInv, Active
  <2>2. FirstSaved(x)'
    BY <2>1 DEF FirstSaved
  <2>3. ASSUME NEW q \in Touches(x), NoneOn(x, q, i - 1)
        PROVE  Scarred(x, q)' \/ Overwritten(x, q)' \/ store'[q] = before'[x][q]
    <3>1. CASE q # rec
      <4>1. NoneOn(x, q, done[x]) /\ q \in Records
        BY <1>1, <2>3, <3>1, OperationFacts DEF NoneOn, Touches
      <4>2. Scarred(x, q) \/ Overwritten(x, q) \/ store[q] = before[x][q]
        BY <2>1, <4>1 DEF Untouched
      <4> QED
        BY <3>1, <4>1, <4>2 DEF Scarred, Overwritten
    <3>2. CASE q = rec
      <4>1. saved[x][i] = IF Ops[x][i].kind = "save" THEN Absent ELSE before[x][q]
        BY <1>1, <2>1, <2>3, <3>2 DEF FirstSaved
      <4>2. CASE i \in scars'[x]
        BY <1>1, <2>3, <3>2, <4>2 DEF Scarred, NoneOn
      <4>3. CASE store'[q] = saved[x][i]
        BY <1>1, <3>2, <4>1, <4>3, OperationFacts DEF Overwritten
      <4> QED
        BY <3>2, <4>2, <4>3
    <3> QED
      BY <3>1, <3>2
  <2>4. Untouched(x)'
    BY <1>1, <2>3 DEF Untouched, NoneOn
  <2> QED
    BY <2>2, <2>4
<1> QED
  BY <1>2, <1>3, <1>4, <1>5 DEF IInv, CallInv

\* a rollback that works restores the record, one that throws leaves a scar
LEMMA RollbackSteps ==
    ASSUME IInv, NEW x \in Txns, Undo(x) \/ UndoRejects(x)
    PROVE  IInv'
<1> DEFINE i == done[x]
<1>1. i \in 1..Len(Ops[x]) /\ i \in 1..Len(saved[x]) /\ i \in Nat
  BY TransactionAssumption DEF IInv, TypeOK, Shapes, Undo, UndoRejects
<1>2. CASE Undo(x)
  <2>1. /\ phase[x] = "undoing" /\ done[x] > 0
        /\ Put(x, Ops[x][i].rec, saved[x][i])
        /\ done' = [done EXCEPT ![x] = @ - 1]
        /\ UNCHANGED <<phase, saved, scars, faults, before>>
    BY <1>2 DEF Undo
  <2>2. /\ Ops[x][i].rec \in Records
        /\ saved[x][i] \in ValuesOf(Ops[x][i].rec) \cup {Absent}
    BY <1>1, OperationFacts DEF IInv, TypeOK
  <2>3. /\ disturbed \subseteq disturbed' /\ disturbed' \subseteq Txns
        /\ store' \in [Records -> Values]
        /\ \A q \in Records : store'[q] \in ValuesOf(q) \cup {Absent}
        /\ \A q \in Records \ {Ops[x][i].rec} : store'[q] = store[q]
        /\ store'[Ops[x][i].rec] = saved[x][i]
        /\ \A y \in Txns \ {x} : y \in Active \ disturbed' =>
               \A q \in Touches(y) : store'[q] = store[q]
    BY <2>1, <2>2, PutFrame
  <2>4. /\ faults' \in 0..MaxFaults
        /\ scars' \in [Txns -> SUBSET Nat] /\ scars[x] \subseteq scars'[x]
        /\ \A y \in Txns \ {x} : scars'[y] = scars[y]
    BY <2>1 DEF IInv, TypeOK
  <2> QED
    BY <2>1, <2>3, <2>4, BackStep
<1>3. CASE UndoRejects(x)
  <2>1. /\ phase[x] = "undoing" /\ done[x] > 0 /\ Fault
        /\ scars' = [scars EXCEPT ![x] = @ \cup {i}]
        /\ done' = [done EXCEPT ![x] = @ - 1]
        /\ UNCHANGED <<store, phase, saved, before, disturbed>>
    BY <1>3 DEF UndoRejects
  <2>2. /\ scars' \in [Txns -> SUBSET Nat] /\ scars[x] \subseteq scars'[x]
        /\ i \in scars'[x] /\ \A y \in Txns \ {x} : scars'[y] = scars[y]
    BY <1>1, <2>1 DEF IInv, TypeOK
  <2>3. faults' \in 0..MaxFaults
    BY <2>1, TransactionAssumption DEF IInv, TypeOK, Fault
  <2>4. /\ disturbed \subseteq disturbed' /\ disturbed' \subseteq Txns
        /\ store' \in [Records -> Values]
        /\ \A q \in Records : store'[q] \in ValuesOf(q) \cup {Absent}
        /\ \A q \in Records \ {Ops[x][i].rec} : store'[q] = store[q]
        /\ \A y \in Txns \ {x} : y \in Active \ disturbed' =>
               \A q \in Touches(y) : store'[q] = store[q]
    BY <2>1 DEF IInv, TypeOK, Shapes
  <2> QED
    BY <2>1, <2>2, <2>3, <2>4, BackStep
<1> QED
  BY <1>2, <1>3

\* the death of the worker ends every call where it is
LEMMA DeathStep ==
    ASSUME IInv, WorkerDies
    PROVE  IInv'
<1>1. /\ Fault /\ UNCHANGED <<store, done, saved, scars, before, disturbed>>
      /\ phase' = [x \in Txns |-> IF x \in Active THEN "dead" ELSE phase[x]]
  BY DEF WorkerDies
<1>2. faults' \in 0..MaxFaults
  BY <1>1, TransactionAssumption DEF IInv, TypeOK, Fault
<1>3. TypeOK' /\ Shapes'
  BY <1>1, <1>2 DEF IInv, TypeOK, Shapes
<1>4. ASSUME NEW x \in Txns PROVE CallInv(x)'
  <2>1. phase'[x] \notin {"next", "writing", "undoing"}
    BY <1>1 DEF Active
  <2>2. InStep(x)'
    BY <1>1, <2>1 DEF IInv, CallInv, InStep, Active
  <2> QED
    BY <2>1, <2>2 DEF CallInv, Active
<1> QED
  BY <1>3, <1>4 DEF IInv

\* every step keeps the inductive invariant
LEMMA NextIInv == IInv /\ [Next]_vars => IInv'
<1> SUFFICES ASSUME IInv, [Next]_vars PROVE IInv'
  OBVIOUS
<1>1. ASSUME NEW x \in Txns, Step(x) PROVE IInv'
  <2>1. CASE Begin(x)
    BY <2>1, BeginStep
  <2>2. CASE Commit(x) \/ TimesOut(x) \/ Undone(x)
    <3>1. /\ \E p \in {"committed", "failed", "undoing"} : Goto(x, p)
          /\ phase[x] \in {"next", "writing", "undoing"}
          /\ UNCHANGED <<store, done, saved, scars, faults, before, disturbed>>
      BY <2>2 DEF Commit, TimesOut, Undone, MoreToDo
    <3> QED
      BY <3>1, TurnStep DEF IInv, TypeOK
  <2>3. CASE OperationRejects(x)
    <3>1. /\ Goto(x, "undoing") /\ Fault
          /\ phase[x] \in {"next", "writing", "undoing"}
          /\ UNCHANGED <<store, done, saved, scars, before, disturbed>>
      BY <2>3 DEF OperationRejects, MoreToDo
    <3>2. faults' \in 0..MaxFaults
      BY <3>1, TransactionAssumption DEF IInv, TypeOK, Fault
    <3> QED
      BY <3>1, <3>2, TurnStep
  <2>4. CASE Get(x)
    BY <2>4, GetStep
  <2>5. CASE Write(x) \/ SaveRow(x) \/ WriteIsLost(x)
    BY <2>5, WriteStep, SaveRowStep, LostStep
  <2>6. CASE Undo(x) \/ UndoRejects(x)
    BY <2>6, RollbackSteps
  <2> QED
    BY <1>1, <2>1, <2>2, <2>3, <2>4, <2>5, <2>6 DEF Step
<1>2. CASE WorkerDies
  BY <1>2, DeathStep
<1>3. CASE UNCHANGED vars
  BY <1>3 DEF vars, IInv, TypeOK, Shapes, CallInv, InStep, Untouched, FirstSaved,
              Touches, Scarred, Overwritten, Active, Op
<1> QED
  BY <1>1, <1>2, <1>3 DEF Next

(***************************************************************************)
(* The inductive invariant holds of every reachable state.                 *)
(***************************************************************************)
THEOREM Invariance == Spec => []IInv
<1> QED
  BY InitIInv, NextIInv, PTL DEF Spec

(***************************************************************************)
(* Records keep their types; in particular no voucher balance is ever      *)
(* negative, although burns are computed from reads that may be stale and  *)
(* rollbacks write old balances (BurnVoucherOperation).                    *)
(***************************************************************************)
THEOREM TypeCorrect == Spec => []TypeOK
<1>1. IInv => TypeOK
  BY DEF IInv
<1> QED
  BY <1>1, Invariance, PTL

(***************************************************************************)
(* A call that reports failure and was not disturbed has left no effect,   *)
(* whatever failed on the way (rollbackOperations).                        *)
(***************************************************************************)
THEOREM Compensated == Spec => NothingIfFailed
<1>1. IInv /\ [Next]_vars =>
        [\A x \in Txns \ disturbed : phase[x] = "undoing" /\ phase'[x] = "failed" =>
            \A r \in Touches(x) :
                Scarred(x, r) \/ Overwritten(x, r) \/ store'[r] = before[x][r]]_vars
  <2> SUFFICES ASSUME IInv, Next, NEW x \in Txns \ disturbed,
                      phase[x] = "undoing", phase'[x] = "failed", NEW r \in Touches(x)
               PROVE  Scarred(x, r) \/ Overwritten(x, r) \/ store'[r] = before[x][r]
    BY DEF vars
  <2>1. Undone(x)
    <3>1. ASSUME NEW y \in Txns, Step(y) PROVE Undone(x)
      <4>1. phase' = phase \/ \E p \in {"next", "writing", "undoing", "committed"} :
                                   phase' = [phase EXCEPT ![y] = p]
            \/ Undone(y)
        BY <3>1 DEF Step, Begin, Commit, TimesOut, Get, Write, SaveRow, WriteIsLost,
                    OperationRejects, Undo, UndoRejects, Completed, Goto
      <4>2. CASE Undone(y)
        BY <4>2 DEF Undone, Goto, IInv, TypeOK
      <4> QED
        BY <4>1, <4>2 DEF IInv, TypeOK
    <3>2. ~WorkerDies
      BY DEF WorkerDies, Active
    <3> QED
      BY <3>1, <3>2 DEF Next
  <2>2. done[x] = 0 /\ store' = store /\ Untouched(x)
    BY <2>1 DEF Undone, IInv, CallInv, Active
  <2> QED
    BY <2>2 DEF Untouched, NoneOn
<1> QED
  BY <1>1, Invariance, PTL DEF Spec, NothingIfFailed

-----------------------------------------------------------------------------
(* What the operations make of a record, up to any of them                 *)

LEMMA LeastNumber ==
    ASSUME NEW S \in SUBSET Nat, S # {}
    PROVE  \E m \in S : \A k \in S : ~(k < m)
<1> DEFINE R == OpToRel(<, Nat)
<1>1. IsWellFoundedOn(R, Nat)
  BY NatLessThanWellFounded
<1>2. \A k, m \in Nat : k < m => <<k, m>> \in R
  BY DEF OpToRel
<1> HIDE DEF R
<1>3. \E m \in S : \A k \in S : ~(<<k, m>> \in R)
  BY <1>1, WFMin
<1> QED
  BY <1>2, <1>3

\* what an operation makes of the value of r
Made(op, r, v) == IF op.rec = r THEN NewValue(op, v) ELSE v

IsProgress(f, ops, r, b, m) ==
    f = [n \in 0..m |-> IF n = 0 THEN b ELSE Made(ops[n], r, f[n - 1])]

\* the values of r, first b, as the operations are done
Progress(ops, r, b) == CHOOSE f : IsProgress(f, ops, r, b, Len(ops))

LEMMA ProgressGrows ==
    ASSUME NEW f, NEW ops, NEW r, NEW b, NEW m \in Nat, IsProgress(f, ops, r, b, m)
    PROVE  \E g : IsProgress(g, ops, r, b, m + 1)
<1> DEFINE g == [n \in 0..(m + 1) |-> IF n = m + 1 THEN Made(ops[n], r, f[m]) ELSE f[n]]
           h == [n \in 0..(m + 1) |-> IF n = 0 THEN b ELSE Made(ops[n], r, g[n - 1])]
<1>1. \A n \in 0..m : f[n] = IF n = 0 THEN b ELSE Made(ops[n], r, f[n - 1])
  BY DEF IsProgress
<1>2. ASSUME NEW n \in 0..(m + 1) PROVE g[n] = h[n]
  <2>1. CASE n = 0
    BY <1>1, <2>1
  <2>2. CASE n \in 1..m
    <3>1. n - 1 \in 0..(m + 1) /\ n - 1 # m + 1 /\ n # m + 1 /\ n # 0 /\ n \in 0..m
      BY <2>2
    <3>2. g[n] = f[n] /\ g[n - 1] = f[n - 1]
      BY <3>1
    <3> QED
      BY <1>1, <3>1, <3>2
  <2>3. CASE n = m + 1
    <3>1. n - 1 = m /\ m \in 0..(m + 1) /\ m # m + 1 /\ n # 0
      BY <2>3
    <3>2. g[m] = f[m]
      BY <3>1
    <3> QED
      BY <2>3, <3>1, <3>2
  <2> QED
    BY <2>1, <2>2, <2>3
<1>3. g = h
  BY <1>2
<1>4. IsProgress(g, ops, r, b, m + 1)
  <2> HIDE DEF g
  <2> QED
    BY <1>3 DEF IsProgress
<1> QED
  BY <1>4

LEMMA ProgressExists ==
    ASSUME NEW ops, NEW r, NEW b, NEW l \in Nat
    PROVE  \E f : IsProgress(f, ops, r, b, l)
<1> DEFINE Without == {m \in Nat : ~\E f : IsProgress(f, ops, r, b, m)}
<1> SUFFICES ASSUME Without # {} PROVE FALSE
  OBVIOUS
<1>1. PICK m \in Without : \A k \in Without : ~(k < m)
  <2>1. Without \in SUBSET Nat
    OBVIOUS
  <2> HIDE DEF Without
  <2> QED
    BY <2>1, LeastNumber
<1>2. m # 0
  <2> DEFINE f == [n \in 0..0 |-> b]
  <2>1. f = [n \in 0..0 |-> IF n = 0 THEN b ELSE Made(ops[n], r, f[n - 1])]
    OBVIOUS
  <2>2. IsProgress(f, ops, r, b, 0)
    <3> HIDE DEF f
    <3> QED
      BY <2>1 DEF IsProgress
  <2> QED
    BY <2>2
<1>3. m - 1 \in Nat /\ m - 1 < m /\ (m - 1) + 1 = m
  BY <1>2
<1>4. PICK f : IsProgress(f, ops, r, b, m - 1)
  BY <1>1, <1>3
<1> QED
  BY <1>3, <1>4, ProgressGrows

\* the operations are applied one after the other, up to the last
LEMMA ProgressFacts ==
    ASSUME NEW ops, NEW r, NEW b, Len(ops) \in Nat
    PROVE  /\ Progress(ops, r, b)[0] = b
           /\ \A n \in 1..Len(ops) :
                Progress(ops, r, b)[n] = Made(ops[n], r, Progress(ops, r, b)[n - 1])
<1> DEFINE f == Progress(ops, r, b)
<1>1. IsProgress(f, ops, r, b, Len(ops))
  BY ProgressExists DEF Progress
<1>2. \A n \in 0..Len(ops) : f[n] = IF n = 0 THEN b ELSE Made(ops[n], r, f[n - 1])
  <2> HIDE DEF f
  <2> QED
    BY <1>1 DEF IsProgress
<1>3. 0 \in 0..Len(ops) /\ \A n \in 1..Len(ops) : n \in 0..Len(ops) /\ n # 0
  OBVIOUS
<1> HIDE DEF f
<1>4. f[0] = b /\ \A n \in 1..Len(ops) : f[n] = Made(ops[n], r, f[n - 1])
  BY <1>2, <1>3
<1> QED
  BY <1>4 DEF f

LEMMA EffectIsProgress ==
    ASSUME NEW x, NEW r
    PROVE  Effect(x, r) = Progress(Ops[x], r, before[x][r])[Len(Ops[x])]
BY DEF Effect, Progress, IsProgress, Made

-----------------------------------------------------------------------------
(* The forward pass of a call that nobody disturbs                         *)

\* what the operations done so far make of record r
Reached(x, r) == Progress(Ops[x], r, before[x][r])[done[x]]

\* every record is where the operations done so far lead, and the value that
\* is about to be written was computed from what is stored
AppliedBy(x) ==
    x \notin disturbed /\ phase[x] \in {"next", "writing"} =>
        /\ \A r \in Touches(x) : store[r] = Reached(x, r)
        /\ phase[x] = "writing" => saved[x][done[x] + 1] = store[Op(x).rec]

Applied == \A x \in Txns : AppliedBy(x)

\* what the steps of others leave alone
LEMMA AppliedFrame ==
    ASSUME NEW y \in Txns, AppliedBy(y), disturbed \subseteq disturbed',
           phase'[y] = phase[y], done'[y] = done[y], saved'[y] = saved[y],
           before'[y] = before[y], done[y] \in Nat,
           phase[y] = "writing" => Op(y).rec \in Touches(y),
           y \in Active \ disturbed' => \A r \in Touches(y) : store'[r] = store[r]
    PROVE  AppliedBy(y)'
<1> SUFFICES ASSUME y \notin disturbed', phase[y] \in {"next", "writing"}
             PROVE  /\ \A r \in Touches(y) : store'[r] = Reached(y, r)'
                    /\ phase[y] = "writing" =>
                            saved'[y][done'[y] + 1] = store'[Op(y)'.rec]
  BY DEF AppliedBy, Touches
<1>1. y \in Active \ disturbed' /\ y \notin disturbed
  BY DEF Active
<1>2. \A r \in Touches(y) : store[r] = Reached(y, r) /\ store'[r] = store[r]
  BY <1>1 DEF AppliedBy
<1>3. \A r \in Touches(y) : Reached(y, r)' = Reached(y, r)
  BY DEF Reached
<1>4. Op(y)' = Op(y)
  BY DEF Op
<1>5. phase[y] = "writing" => saved[y][done[y] + 1] = store[Op(y).rec]
  BY <1>1 DEF AppliedBy
<1> QED
  BY <1>2, <1>3, <1>4, <1>5

\* an operation is done: its record has what the operation makes of it
LEMMA AppliedCompletes ==
    ASSUME IInv, NEW x \in Txns, AppliedBy(x), done[x] + 1 \in 1..Len(Ops[x]),
           phase[x] \in {"next", "writing"}, Completed(x), x \notin disturbed',
           disturbed \subseteq disturbed',
           store'[Op(x).rec] = NewValue(Op(x), store[Op(x).rec]),
           \A q \in Records \ {Op(x).rec} : store'[q] = store[q]
    PROVE  AppliedBy(x)'
<1> DEFINE i == done[x] + 1
           ops == Ops[x]
<1>1. /\ phase'[x] = "next" /\ done'[x] = i /\ before'[x] = before[x]
      /\ done[x] \in Nat /\ i - 1 = done[x] /\ Op(x) = ops[i] /\ Len(ops) \in Nat
  BY TransactionAssumption DEF Completed, Goto, IInv, TypeOK, Op
<1>2. \A r \in Touches(x) : store[r] = Progress(ops, r, before[x][r])[i - 1]
  BY <1>1 DEF AppliedBy, Reached
<1>3. ASSUME NEW r \in Touches(x)
      PROVE  store'[r] = Progress(ops, r, before[x][r])[i]
  <2>1. Progress(ops, r, before[x][r])[i] = Made(ops[i], r, store[r])
    <3>1. \A n \in 1..Len(ops) :
            Progress(ops, r, before[x][r])[n]
                = Made(ops[n], r, Progress(ops, r, before[x][r])[n - 1])
      BY <1>1, ProgressFacts
    <3> QED
      BY <1>2, <3>1
  <2>2. r \in Records
    BY OperationFacts DEF Touches
  <2>3. store'[r] = Made(Op(x), r, store[r])
    BY <2>2 DEF Made
  <2> QED
    BY <1>1, <2>1, <2>3
<1> HIDE DEF i
<1>4. \A r \in Touches(x) : store'[r] = Reached(x, r)'
  BY <1>1, <1>3 DEF Reached
<1> QED
  BY <1>1, <1>4 DEF AppliedBy, Touches

\* the call's own step
LEMMA AppliedStep ==
    ASSUME IInv, NEW x \in Txns, AppliedBy(x), Step(x)
    PROVE  AppliedBy(x)'
<1> SUFFICES ASSUME x \notin disturbed', phase'[x] \in {"next", "writing"}
             PROVE  AppliedBy(x)'
  BY DEF AppliedBy
<1>1. Begin(x) \/ Get(x) \/ Write(x) \/ SaveRow(x) \/ WriteIsLost(x)
      \/ (Undo(x) \/ UndoRejects(x))
  BY DEF Step, Commit, TimesOut, OperationRejects, Undone, Goto, IInv, TypeOK
<1>2. CASE Begin(x)
  <2>1. /\ done'[x] = 0 /\ before'[x] = store /\ store' = store /\ phase'[x] = "next"
        /\ Len(Ops[x]) \in Nat
    BY <1>2, TransactionAssumption
       DEF Begin, Goto, IInv, TypeOK, Shapes, CallInv, InStep
  <2>2. ASSUME NEW r \in Touches(x) PROVE Reached(x, r)' = store[r]
    <3>1. Reached(x, r)' = Progress(Ops[x], r, store[r])[0]
      BY <2>1 DEF Reached
    <3>2. Progress(Ops[x], r, store[r])[0] = store[r]
      BY <2>1, ProgressFacts
    <3> QED
      BY <3>1, <3>2
  <2> QED
    BY <2>1, <2>2 DEF AppliedBy, Touches
<1>3. CASE Get(x)
  <2> DEFINE cur == store[Op(x).rec]
             i == done[x] + 1
  <2>1. /\ phase[x] = "next" /\ done[x] < Len(Ops[x]) /\ done[x] \in Nat
        /\ UNCHANGED <<store, done, before, disturbed>>
    BY <1>3 DEF Get, MoreToDo, IInv, TypeOK
  <2>2. phase'[x] = "writing" /\ saved' = [saved EXCEPT ![x] = Append(@, cur)]
    BY <1>3 DEF Get, Goto, IInv, TypeOK
  <2>3. i \in 1..Len(Ops[x]) /\ Op(x) = Ops[x][i]
    BY <2>1, TransactionAssumption DEF Op
  <2>4. saved[x] \in Seq(Values) /\ cur \in Values /\ Len(saved[x]) = done[x]
    BY <2>1, <2>3, OperationFacts DEF IInv, Shapes, CallInv, InStep
  <2>5. saved'[x][i] = cur
    BY <2>1, <2>2, <2>4 DEF IInv, Shapes
  <2>6. \A r \in Touches(x) : store'[r] = Reached(x, r)'
    BY <2>1 DEF AppliedBy, Reached
  <2>7. Op(x)' = Op(x)
    BY <2>1 DEF Op
  <2> QED
    BY <2>1, <2>2, <2>5, <2>6, <2>7 DEF AppliedBy, Touches
<1>4. CASE Write(x)
  <2> DEFINE i == done[x] + 1
             v == NewValue(Op(x), saved[x][i])
  <2>1. /\ phase[x] = "writing" /\ Completed(x) /\ Put(x, Op(x).rec, v)
    BY <1>4 DEF Write
  <2>2. /\ i \in 1..Len(Ops[x]) /\ Op(x) = Ops[x][i]
        /\ saved[x][i] \in ValuesOf(Op(x).rec) \cup {Absent}
        /\ Op(x).kind # "save" /\ ~Refused(Op(x), saved[x][i])
    BY <2>1, TransactionAssumption DEF IInv, TypeOK, Shapes, CallInv, InStep, Op
  <2>3. v \in ValuesOf(Op(x).rec) /\ Op(x).rec \in Records
    BY <2>2, OperationFacts, NewValueType DEF Refused
  <2>4. /\ disturbed \subseteq disturbed' /\ store'[Op(x).rec] = v
        /\ \A q \in Records \ {Op(x).rec} : store'[q] = store[q]
    <3> HIDE DEF v
    <3> QED
      BY <2>1, <2>3, PutFrame
  <2>5. saved[x][i] = store[Op(x).rec]
    BY <2>1, <2>4 DEF AppliedBy
  <2> QED
    BY <2>1, <2>2, <2>4, <2>5, AppliedCompletes
<1>5. CASE SaveRow(x)
  <2>1. /\ MoreToDo(x) /\ Op(x).kind = "save" /\ Completed(x) /\ Put(x, Op(x).rec, Op(x).arg)
        /\ phase[x] = "next" /\ saved' = [saved EXCEPT ![x] = Append(@, Absent)]
    BY <1>5 DEF SaveRow, MoreToDo
  <2>2. done[x] + 1 \in 1..Len(Ops[x]) /\ Op(x) = Ops[x][done[x] + 1]
    BY <2>1, SavedAppend
  <2>3. /\ Op(x).rec \in Records /\ IsOperation(Op(x))
        /\ Op(x).arg = NewValue(Op(x), store[Op(x).rec])
    BY <2>1, <2>2, OperationFacts DEF NewValue
  <2>4. Op(x).arg \in ValuesOf(Op(x).rec)
    BY <2>1, <2>3, NewValueType
  <2>5. /\ disturbed \subseteq disturbed' /\ store'[Op(x).rec] = Op(x).arg
        /\ \A q \in Records \ {Op(x).rec} : store'[q] = store[q]
    BY <2>1, <2>3, <2>4, PutFrame
  <2> QED
    BY <2>1, <2>2, <2>3, <2>5, AppliedCompletes
<1>6. CASE WriteIsLost(x)
  BY <1>6 DEF WriteIsLost
<1>7. CASE Undo(x) \/ UndoRejects(x)
  BY <1>7 DEF Undo, UndoRejects
<1> QED
  BY <1>1, <1>2, <1>3, <1>4, <1>5, <1>6, <1>7

\* a step of one call changes nothing of another, or it disturbs it
LEMMA OthersKept ==
    ASSUME IInv, NEW x \in Txns, Step(x), NEW y \in Txns \ {x}
    PROVE  /\ disturbed \subseteq disturbed'
           /\ phase'[y] = phase[y] /\ done'[y] = done[y] /\ saved'[y] = saved[y]
           /\ before'[y] = before[y]
           /\ y \in Active \ disturbed' => \A r \in Touches(y) : store'[r] = store[r]
<1> USE DEF Goto, Completed
<1>1. /\ DOMAIN phase = Txns
      /\ DOMAIN done = Txns /\ DOMAIN saved = Txns /\ DOMAIN before = Txns
  BY DEF IInv, TypeOK, Shapes
<1>2. phase'[y] = phase[y]
  BY <1>1 DEF Step, Begin, Commit, TimesOut, Get, Write, SaveRow, WriteIsLost,
              OperationRejects, Undo, UndoRejects, Undone, IInv, TypeOK
<1>3. done'[y] = done[y]
  BY <1>1 DEF Step, Begin, Commit, TimesOut, Get, Write, SaveRow, WriteIsLost,
              OperationRejects, Undo, UndoRejects, Undone
<1>4. saved'[y] = saved[y] /\ before'[y] = before[y]
  BY <1>1 DEF Step, Begin, Commit, TimesOut, Get, Write, SaveRow, WriteIsLost,
              OperationRejects, Undo, UndoRejects, Undone
<1>5. \/ store' = store /\ disturbed \subseteq disturbed'
      \/ \E r, w : Put(x, r, w)
  BY DEF Step, Begin, Commit, TimesOut, Get, Write, SaveRow, WriteIsLost,
              OperationRejects, Undo, UndoRejects, Undone
<1>6. /\ disturbed \subseteq disturbed'
      /\ y \in Active \ disturbed' => \A r \in Touches(y) : store'[r] = store[r]
  <2>1. ASSUME NEW r, NEW w, Put(x, r, w)
        PROVE  /\ disturbed \subseteq disturbed'
               /\ y \in Active \ disturbed' => \A q \in Touches(y) : store'[q] = store[q]
    <3>1. \A q \in Touches(y) : q \in Records
      BY OperationFacts DEF Touches
    <3> QED
      BY <2>1, <3>1 DEF Put, IInv, Shapes
  <2> QED
    BY <1>5, <2>1
<1> QED
  BY <1>2, <1>3, <1>4, <1>6

THEOREM Application == Spec => []Applied
<1>1. Init => Applied
  BY DEF Init, Applied, AppliedBy
<1>2. IInv /\ Applied /\ [Next]_vars => Applied'
  <2> SUFFICES ASSUME IInv, Applied, [Next]_vars, NEW y \in Txns PROVE AppliedBy(y)'
    BY DEF Applied
  <2>1. AppliedBy(y) /\ done[y] \in Nat
    BY DEF Applied, IInv, TypeOK
  <2>2. phase[y] = "writing" => Op(y).rec \in Touches(y)
    <3> SUFFICES ASSUME phase[y] = "writing" PROVE Op(y).rec \in Touches(y)
      OBVIOUS
    <3>1. done[y] + 1 \in 1..Len(Ops[y])
      BY TransactionAssumption DEF IInv, TypeOK
    <3> QED
      BY <3>1 DEF Op, Touches
  <2>3. CASE UNCHANGED vars
    BY <2>1, <2>2, <2>3, AppliedFrame DEF vars
  <2>4. CASE WorkerDies
    <3>1. phase'[y] \notin {"next", "writing"}
      BY <2>4 DEF WorkerDies, Active
    <3> QED
      BY <3>1 DEF AppliedBy
  <2>5. ASSUME NEW x \in Txns, Step(x) PROVE AppliedBy(y)'
    <3>1. CASE y = x
      BY <2>1, <2>5, <3>1, AppliedStep
    <3>2. CASE y # x
      <4>1. y \in Txns \ {x}
        BY <3>2
      <4> QED
        BY <2>1, <2>2, <2>5, <4>1, OthersKept, AppliedFrame
    <3> QED
      BY <3>1, <3>2
  <2> QED
    BY <2>3, <2>4, <2>5 DEF Next
<1> QED
  BY <1>1, <1>2, Invariance, PTL DEF Spec

(***************************************************************************)
(* A call that reports success and was not disturbed has all its effects,  *)
(* on every record, in the order of its operations (executeAtomically).    *)
(***************************************************************************)
THEOREM AllIsApplied == Spec => AllIfCommitted
<1>1. IInv /\ Applied /\ [Next]_vars =>
        [\A x \in Txns \ disturbed : phase[x] = "next" /\ phase'[x] = "committed" =>
            \A r \in Touches(x) : store'[r] = Effect(x, r)]_vars
  <2> SUFFICES ASSUME IInv, Applied, Next, NEW x \in Txns \ disturbed,
                      phase[x] = "next", phase'[x] = "committed", NEW r \in Touches(x)
               PROVE  store'[r] = Effect(x, r)
    BY DEF vars
  <2>1. PICK y \in Txns : Step(y)
    BY DEF Next, WorkerDies
  <2>2. y = x
    BY <2>1, OthersKept
  <2>3. Commit(x)
    BY <2>1, <2>2 DEF Step, Begin, TimesOut, Get, Write, SaveRow, WriteIsLost,
                      OperationRejects, Undo, UndoRejects, Undone, Completed, Goto,
                      IInv, TypeOK
  <2>4. done[x] = Len(Ops[x]) /\ store' = store
    BY <2>3 DEF Commit
  <2>5. store[r] = Reached(x, r)
    BY DEF Applied, AppliedBy
  <2> QED
    BY <2>4, <2>5, EffectIsProgress DEF Reached
<1> QED
  BY <1>1, Invariance, Application, PTL DEF Spec, AllIfCommitted
=============================================================================
