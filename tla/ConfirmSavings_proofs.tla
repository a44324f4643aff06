----------------------- MODULE ConfirmSavings_proofs -----------------------
(***************************************************************************)
(* Proofs about ConfirmSavings for any set of deliveries, keys, sources    *)
(* and drain loops, and any number of attempts, kills and faults.          *)
(***************************************************************************)
EXTENDS ConfirmSavings, TLAPS

-----------------------------------------------------------------------------
(* What the queue operations do to the task they are called on.            *)

\* enqueue stores one fresh pending record and touches no other task
LEMMA EnqueueEffect ==
    ASSUME QueueTypeOK, NEW t \in Tasks, Enqueue(t)
    PROVE  /\ QueueTypeOK'
           /\ task'[t] = [status |-> "pending", attempts |-> 0, wait |-> 0]
           /\ \A u \in Tasks \ {t} : task'[u] = task[u]
BY DEF QueueTypeOK, TaskRecord, Enqueue

\* markCompleted changes the status of one task and keeps its attempts
LEMMA MarkCompletedEffect ==
    ASSUME QueueTypeOK, NEW t \in Tasks, MarkCompleted(t)
    PROVE  /\ QueueTypeOK'
           /\ task'[t].status = "completed"
           /\ task'[t].attempts = task[t].attempts
           /\ \A u \in Tasks \ {t} : task'[u] = task[u]
BY DEF QueueTypeOK, TaskRecord, MarkCompleted

\* markFailed counts one attempt, dead-letters on the last one, and leaves
\* every other task alone
LEMMA MarkFailedEffect ==
    ASSUME QueueTypeOK, NEW t \in Tasks, MarkFailed(t)
    PROVE  /\ QueueTypeOK'
           /\ task'[t].attempts = task[t].attempts + 1
           /\ task'[t].status = IF task[t].attempts + 1 >= MaxAttempts
                                THEN "failed" ELSE task[t].status
           /\ \A u \in Tasks \ {t} : task'[u] = task[u]
<1> DEFINE failures == task[t].attempts + 1
<1>1. task \in [Tasks -> TaskRecord] /\ task[t] \in TaskRecord
  BY DEF QueueTypeOK
<1>2. failures \in Nat \ {0}
  BY <1>1 DEF TaskRecord
<1>3. CASE failures >= MaxAttempts
  <2>1. task' = [task EXCEPT ![t] =
                   [@ EXCEPT !.attempts = failures, !.status = "failed"]]
    BY <1>3 DEF MarkFailed
  <2>2. [task[t] EXCEPT !.attempts = failures, !.status = "failed"] \in TaskRecord
    BY <1>1, <1>2 DEF TaskRecord
  <2> QED
    BY <1>1, <1>3, <2>1, <2>2 DEF QueueTypeOK, TaskRecord
<1>4. CASE ~(failures >= MaxAttempts)
  <2>1. BackoffTicks(failures) \in Nat
    BY <1>2, <1>4, QueueAssumption
  <2>2. task' = [task EXCEPT ![t] =
                   [@ EXCEPT !.attempts = failures,
                             !.wait = BackoffTicks(failures)]]
    BY <1>4 DEF MarkFailed
  <2>3. [task[t] EXCEPT !.attempts = failures, !.wait = BackoffTicks(failures)]
            \in TaskRecord
    BY <1>1, <1>2, <2>1 DEF TaskRecord
  <2> QED
    BY <1>1, <1>4, <2>2, <2>3 DEF QueueTypeOK, TaskRecord
<1> QED
  BY <1>3, <1>4

\* the passing of time changes no status and no attempt count
LEMMA QueueTickEffect ==
    ASSUME QueueTypeOK, QueueTick
    PROVE  /\ QueueTypeOK'
           /\ \A u \in Tasks : /\ task'[u].status = task[u].status
                               /\ task'[u].attempts = task[u].attempts
<1>1. task \in [Tasks -> TaskRecord]
  BY DEF QueueTypeOK
<1>2. ASSUME NEW u \in Tasks
      PROVE  /\ task'[u] = [task[u] EXCEPT !.wait = IF @ = 0 THEN 0 ELSE @ - 1]
             /\ task'[u] \in TaskRecord
  <2>1. task[u] \in TaskRecord /\ task[u].wait \in Nat
    BY <1>1 DEF TaskRecord
  <2>2. (IF task[u].wait = 0 THEN 0 ELSE task[u].wait - 1) \in Nat
    BY <2>1
  <2>3. task'[u] = [task[u] EXCEPT !.wait = IF @ = 0 THEN 0 ELSE @ - 1]
    BY DEF QueueTick
  <2> QED
    BY <2>1, <2>2, <2>3 DEF TaskRecord
<1> QED
  BY <1>1, <1>2 DEF QueueTypeOK, QueueTick, TaskRecord

-----------------------------------------------------------------------------
(* The inductive invariant.  NothingStranded alone is not inductive: it    *)
(* says nothing of what the handlers and the drain loops are about to do.  *)

\* a task not yet stored has no attempts
FreshTasks == \A t \in Confirms \ Stored : task[t].attempts = 0

\* a handler stores its task once, before it saves, and saves before it marks
HandlerInv ==
    \A c \in Confirms :
        /\ handler[c] \in {"new", "counting", "enqueuing"} => c \notin Stored
        /\ handler[c] \in {"saving", "marking"} => c \in Stored
        /\ handler[c] = "marking" => c \in ledger

\* a drain loop holds stored tasks, and saves before it marks
DrainInv ==
    \A k \in Drains :
        /\ drain[k].todo \subseteq Stored
        /\ drain[k].stage \in {"saving", "completing", "failing"} =>
               drain[k].cur \in Stored
        /\ drain[k].stage = "completing" => drain[k].cur \in ledger

IInv == TypeOK /\ NothingStranded /\ FreshTasks /\ HandlerInv /\ DrainInv

\* the empty stores and the fresh worker satisfy the inductive invariant
LEMMA InitIInv == Init => IInv
BY ConfirmAssumption
   DEF Init, QueueInit, NoTask, NoLease, Idle, IInv, TypeOK, QueueTypeOK,
       TaskRecord, NothingStranded, FreshTasks, HandlerInv, DrainInv,
       HandlerState, Stored, Pending, Completed, DeadLettered

\* the queue invariants read nothing but the two stores
LEMMA StoresUnchanged ==
    ASSUME NothingStranded, FreshTasks, UNCHANGED durable
    PROVE  NothingStranded' /\ FreshTasks'
BY DEF durable, NothingStranded, FreshTasks, Stored, Pending, Completed,
       DeadLettered

\* steps of a handler that touch neither store
LEMMA GateSteps ==
    ASSUME IInv, NEW c \in Confirms,
           \/ AnswerAtOnce(c) \/ StartCount(c) \/ Refuse(c) \/ Admit(c)
           \/ CountFails(c) \/ EnqueueFails(c) \/ SaveFails(c)
           \/ MarkFails(c) \/ HandlerHangs(c)
    PROVE  IInv'
<1> USE DEF IInv
<1>1. UNCHANGED durable /\ UNCHANGED drain
  BY DEF AnswerAtOnce, StartCount, Refuse, Admit, CountFails, EnqueueFails,
         SaveFails, MarkFails, HandlerHangs
<1>2. /\ handler' = [handler EXCEPT ![c] = handler'[c]]
      /\ handler'[c] \in {"counting", "enqueuing", "hung"} \cup Replies
      /\ handler'[c] \in {"counting", "enqueuing"} =>
             handler[c] \in {"new", "counting"}
  BY DEF AnswerAtOnce, StartCount, Refuse, Admit, CountFails, EnqueueFails,
         SaveFails, MarkFails, HandlerHangs, Acknowledge, TypeOK, Replies
<1>3. TypeOK'
  <2>1. QueueTypeOK' /\ ledger' \subseteq Confirms
    BY <1>1 DEF TypeOK, QueueTypeOK, durable
  <2>2. handler' \in [Confirms -> HandlerState]
    BY <1>2 DEF TypeOK, HandlerState, Awaiting
  <2>3. range' \in [Confirms -> SUBSET Confirms] /\ today' \subseteq Confirms
    BY DEF AnswerAtOnce, StartCount, Refuse, Admit, CountFails, EnqueueFails,
           SaveFails, MarkFails, HandlerHangs, TypeOK
  <2>4. processed' \subseteq Keys
    BY ConfirmAssumption
       DEF AnswerAtOnce, StartCount, Refuse, Admit, CountFails, EnqueueFails,
           SaveFails, MarkFails, HandlerHangs, Acknowledge, TypeOK
  <2>5. lease' \in [Sources -> [owner : Keys \cup {NoKey}, left : 0..LeaseTicks]]
    <3>1. CASE Admit(c)
      <4>1. [owner |-> KeyOf[c], left |-> LeaseTicks]
                \in [owner : Keys \cup {NoKey}, left : 0..LeaseTicks]
        BY ConfirmAssumption
      <4> QED
        BY <3>1, <4>1 DEF Admit, AcquireBurnLeases, TypeOK
    <3>2. CASE ~Admit(c)
      BY <3>2 DEF AnswerAtOnce, StartCount, Refuse, CountFails, EnqueueFails,
                  SaveFails, MarkFails, HandlerHangs, TypeOK
    <3> QED
      BY <3>1, <3>2
  <2>6. drain' = drain /\ disruptions' \in 0..MaxDisruptions
    BY <1>1, ConfirmAssumption
       DEF AnswerAtOnce, StartCount, Refuse, Admit, CountFails, EnqueueFails,
           SaveFails, MarkFails, HandlerHangs, Disrupt, TypeOK
  <2> QED
    BY <2>1, <2>2, <2>3, <2>4, <2>5, <2>6 DEF TypeOK
<1>4. NothingStranded' /\ FreshTasks'
  BY <1>1, StoresUnchanged
<1>5. Stored' = Stored /\ ledger' = ledger /\ drain' = drain
  BY <1>1 DEF Stored, durable
<1>6. HandlerInv'
  BY <1>2, <1>5 DEF HandlerInv, TypeOK, Replies
<1>7. DrainInv'
  BY <1>5 DEF DrainInv
<1> QED
  BY <1>3, <1>4, <1>6, <1>7

\* a step on one task t: every other task is untouched
LEMMA OneTask ==
    ASSUME NothingStranded, FreshTasks, QueueTypeOK, QueueTypeOK',
           NEW t \in Confirms,
           \A u \in Confirms \ {t} : task'[u] = task[u],
           task'[t].status # "absent",
           ledger \subseteq ledger',
           task'[t].status = "completed" => t \in ledger',
           task'[t].status = "failed" => task'[t].attempts >= MaxAttempts,
           task'[t].status = "pending" => task'[t].attempts < MaxAttempts
    PROVE  /\ NothingStranded' /\ FreshTasks'
           /\ Stored' = Stored \cup {t}
BY ConfirmAssumption
   DEF NothingStranded, FreshTasks, Stored, Pending, Completed, DeadLettered

\* the write-ahead record of a fresh delivery keeps the invariant (enqueue)
LEMMA EnqueueStep ==
    ASSUME IInv, NEW c \in Confirms, EnqueueCommits(c)
    PROVE  IInv'
<1> USE DEF IInv
<1>1. /\ QueueTypeOK'
      /\ task'[c] = [status |-> "pending", attempts |-> 0, wait |-> 0]
      /\ \A u \in Confirms \ {c} : task'[u] = task[u]
  BY EnqueueEffect, ConfirmAssumption DEF EnqueueCommits, TypeOK
<1>2. TypeOK'
  BY <1>1 DEF EnqueueCommits, TypeOK, HandlerState, Awaiting
<1>3. NothingStranded' /\ FreshTasks' /\ Stored' = Stored \cup {c}
  BY <1>1, OneTask, QueueAssumption DEF EnqueueCommits, TypeOK
<1>4. HandlerInv'
  BY <1>3 DEF EnqueueCommits, HandlerInv, TypeOK
<1>5. DrainInv'
  BY <1>3 DEF EnqueueCommits, DrainInv
<1> QED
  BY <1>2, <1>3, <1>4, <1>5

\* the row of a queued delivery keeps the invariant (executeSaveTask)
LEMMA SaveStep ==
    ASSUME IInv, NEW c \in Confirms, SaveCommits(c)
    PROVE  IInv'
<1> USE DEF IInv
<1>1. TypeOK'
  BY DEF SaveCommits, TypeOK, QueueTypeOK, HandlerState, Awaiting
<1>2. Stored' = Stored /\ ledger \subseteq ledger' /\ c \in ledger'
  BY DEF SaveCommits, Stored
<1>3. NothingStranded' /\ FreshTasks'
  BY <1>2 DEF SaveCommits, NothingStranded, FreshTasks, Stored, Pending,
              Completed, DeadLettered
<1>4. HandlerInv'
  BY <1>2 DEF SaveCommits, HandlerInv, TypeOK
<1>5. DrainInv'
  BY <1>2 DEF SaveCommits, DrainInv
<1> QED
  BY <1>1, <1>3, <1>4, <1>5

\* retiring a saved task keeps the invariant, whatever a drain made of the
\* task meanwhile (markCompleted in persistConfirmedSavings)
LEMMA MarkStep ==
    ASSUME IInv, NEW c \in Confirms, MarkCommits(c)
    PROVE  IInv'
<1> USE DEF IInv
<1>1. /\ QueueTypeOK'
      /\ task'[c].status = "completed"
      /\ \A u \in Confirms \ {c} : task'[u] = task[u]
  BY MarkCompletedEffect, ConfirmAssumption DEF MarkCommits, TypeOK
<1>2. TypeOK'
  <2>1. TypeOK /\ KeyOf[c] \in Keys /\ "CONFIRMED" \in HandlerState
    BY ConfirmAssumption DEF HandlerState, Replies
  <2>2. handler' \in [Confirms -> HandlerState] /\ processed' \subseteq Keys
    BY <2>1 DEF MarkCommits, Acknowledge, TypeOK
  <2> QED
    BY <1>1, <2>1, <2>2 DEF MarkCommits, TypeOK
<1>3. c \in Stored /\ c \in ledger /\ ledger' = ledger
  BY DEF MarkCommits, HandlerInv
<1>4. NothingStranded' /\ FreshTasks' /\ Stored' = Stored
  <2>1. NothingStranded' /\ FreshTasks' /\ Stored' = Stored \cup {c}
    BY <1>1, <1>3, OneTask DEF TypeOK
  <2> QED
    BY <1>3, <2>1
<1>5. HandlerInv'
  BY <1>3, <1>4 DEF MarkCommits, Acknowledge, HandlerInv, TypeOK
<1>6. DrainInv'
  BY <1>3, <1>4 DEF MarkCommits, DrainInv
<1> QED
  BY <1>2, <1>4, <1>5, <1>6

\* handlers wait for nothing a drain loop does: they keep their invariant
\* as long as no task and no row disappears
LEMMA HandlersUndisturbed ==
    ASSUME HandlerInv, UNCHANGED handler, Stored' = Stored,
           ledger \subseteq ledger'
    PROVE  HandlerInv'
BY DEF HandlerInv

\* every step of a drain loop keeps the invariant (drainDurableQueue)
LEMMA DrainSteps ==
    ASSUME IInv, NEW k \in Drains, DrainClaims(k) \/ DrainStep(k)
    PROVE  IInv'
<1> USE DEF IInv
<1> DEFINE t == drain[k].cur
<1>0. /\ drain \in [Drains ->
            [stage : {"idle", "next", "saving", "completing", "failing"},
             todo : SUBSET Confirms, cur : Confirms \cup {NoConfirm}]]
      /\ drain[k].todo \subseteq Stored
      /\ Stored \subseteq Confirms
  BY ConfirmAssumption DEF TypeOK, DrainInv, Stored
<1>1. CASE DrainClaims(k)
  <2>1. DueTasks \subseteq Stored
    BY DEF DueTasks, Pending, Stored
  <2>2. TypeOK'
    BY <1>0, <1>1, <2>1 DEF DrainClaims, TypeOK, QueueTypeOK, durable
  <2>3. NothingStranded' /\ FreshTasks' /\ Stored' = Stored
    BY <1>1, StoresUnchanged DEF DrainClaims, Stored, durable
  <2>4. HandlerInv' /\ DrainInv'
    BY <1>0, <1>1, <2>1, <2>3, HandlersUndisturbed
       DEF DrainClaims, DrainInv, durable
  <2> QED
    BY <2>2, <2>3, <2>4
<1>2. CASE DrainTakes(k)
  <2>1. TypeOK'
    BY <1>0, <1>2 DEF DrainTakes, TypeOK, QueueTypeOK, durable
  <2>2. NothingStranded' /\ FreshTasks' /\ Stored' = Stored
    BY <1>2, StoresUnchanged DEF DrainTakes, Stored, durable
  <2>3. HandlerInv' /\ DrainInv'
    BY <1>0, <1>2, <2>2, HandlersUndisturbed DEF DrainTakes, DrainInv, durable
  <2> QED
    BY <2>1, <2>2, <2>3
<1>3. CASE DrainSaves(k)
  <2>1. t \in Stored /\ t \in Confirms
    BY <1>0, <1>3 DEF DrainSaves, At, DrainInv
  <2>2. TypeOK'
    <3>1. ledger' \subseteq Confirms
      BY <1>3, <2>1 DEF DrainSaves, TypeOK
    <3>2. drain' \in [Drains ->
            [stage : {"idle", "next", "saving", "completing", "failing"},
             todo : SUBSET Confirms, cur : Confirms \cup {NoConfirm}]]
      BY <1>0, <1>3 DEF DrainSaves
    <3>3. QueueTypeOK'
      BY <1>3 DEF DrainSaves, TypeOK, QueueTypeOK
    <3>4. UNCHANGED <<handler, range, today, processed, lease, disruptions>>
      BY <1>3 DEF DrainSaves
    <3> QED
      BY <3>1, <3>2, <3>3, <3>4 DEF TypeOK
  <2>3. Stored' = Stored /\ ledger \subseteq ledger' /\ t \in ledger'
    BY <1>3 DEF DrainSaves, Stored
  <2>4. NothingStranded' /\ FreshTasks'
    BY <1>3, <2>3 DEF DrainSaves, NothingStranded, FreshTasks, Stored, Pending,
                      Completed, DeadLettered
  <2>5. HandlerInv'
    BY <1>3, <2>3, HandlersUndisturbed DEF DrainSaves
  <2>6. DrainInv'
    BY <1>0, <1>3, <2>1, <2>3 DEF DrainSaves, DrainInv
  <2> QED
    BY <2>2, <2>4, <2>5, <2>6
<1>4. CASE DrainSaveFails(k) \/ DrainCompleteFails(k)
  <2>1. t \in Stored
    BY <1>4 DEF DrainSaveFails, DrainCompleteFails, At, DrainInv
  <2>2. TypeOK'
    <3>1. drain' \in [Drains ->
            [stage : {"idle", "next", "saving", "completing", "failing"},
             todo : SUBSET Confirms, cur : Confirms \cup {NoConfirm}]]
      BY <1>0, <1>4 DEF DrainSaveFails, DrainCompleteFails
    <3>2. disruptions' \in 0..MaxDisruptions
      BY <1>4, ConfirmAssumption
         DEF DrainSaveFails, DrainCompleteFails, Disrupt, TypeOK
    <3>3. UNCHANGED <<durable, handler, range, today, processed, lease>>
      BY <1>4 DEF DrainSaveFails, DrainCompleteFails
    <3> QED
      BY <3>1, <3>2, <3>3 DEF TypeOK, QueueTypeOK, durable
  <2>3. NothingStranded' /\ FreshTasks' /\ Stored' = Stored
    BY <1>4, StoresUnchanged
       DEF DrainSaveFails, DrainCompleteFails, Stored, durable
  <2>4. HandlerInv' /\ DrainInv'
    BY <1>0, <1>4, <2>1, <2>3, HandlersUndisturbed
       DEF DrainSaveFails, DrainCompleteFails, DrainInv, durable
  <2> QED
    BY <2>2, <2>3, <2>4
<1>5. CASE DrainAbandons(k)
  <2>1. TypeOK'
    BY <1>0, <1>5, ConfirmAssumption
       DEF DrainAbandons, Idle, Disrupt, TypeOK, QueueTypeOK, durable
  <2>2. NothingStranded' /\ FreshTasks' /\ Stored' = Stored
    BY <1>5, StoresUnchanged DEF DrainAbandons, Stored, durable
  <2>3. HandlerInv' /\ DrainInv'
    BY <1>0, <1>5, <2>2, HandlersUndisturbed
       DEF DrainAbandons, Idle, DrainInv, durable
  <2> QED
    BY <2>1, <2>2, <2>3
<1>6. CASE DrainCompletes(k) \/ DrainRecordsFailure(k)
  <2>1. t \in Stored /\ t \in Confirms
    BY <1>0, <1>6 DEF DrainCompletes, DrainRecordsFailure, At, DrainInv
  <2>2. /\ Continue(k, drain[k].todo)
        /\ UNCHANGED <<ledger, handler, range, today, processed, lease,
                       disruptions>>
    BY <1>6 DEF DrainCompletes, DrainRecordsFailure
  <2>3. /\ QueueTypeOK'
        /\ \A u \in Confirms \ {t} : task'[u] = task[u]
        /\ task'[t].status # "absent"
        /\ task'[t].status = "completed" => t \in ledger
        /\ task'[t].status = "failed" => task'[t].attempts >= MaxAttempts
        /\ task'[t].status = "pending" => task'[t].attempts < MaxAttempts
    <3>1. CASE DrainCompletes(k)
      BY <2>1, <3>1, MarkCompletedEffect, ConfirmAssumption
         DEF DrainCompletes, At, DrainInv, TypeOK
    <3>2. CASE DrainRecordsFailure(k)
      <4>1. /\ QueueTypeOK'
            /\ task'[t].attempts = task[t].attempts + 1
            /\ task'[t].status = IF task[t].attempts + 1 >= MaxAttempts
                                 THEN "failed" ELSE task[t].status
            /\ \A u \in Confirms \ {t} : task'[u] = task[u]
        BY <2>1, <3>2, MarkFailedEffect, ConfirmAssumption
           DEF DrainRecordsFailure, TypeOK
      <4>2. /\ task[t].attempts \in Nat
            /\ task[t].status # "absent"
            /\ task[t].status = "completed" => t \in ledger
            /\ task[t].status = "failed" => task[t].attempts >= MaxAttempts
        BY <2>1, ConfirmAssumption
           DEF TypeOK, QueueTypeOK, TaskRecord, Stored, NothingStranded,
               Completed, DeadLettered
      <4> QED
        BY <4>1, <4>2, QueueAssumption
    <3> QED
      BY <1>6, <3>1, <3>2
  <2>4. TypeOK'
    BY <1>0, <2>2, <2>3 DEF Continue, Idle, TypeOK
  <2>5. NothingStranded' /\ FreshTasks' /\ Stored' = Stored
    <3>1. NothingStranded' /\ FreshTasks' /\ Stored' = Stored \cup {t}
      BY <2>1, <2>2, <2>3, OneTask DEF TypeOK
    <3> QED
      BY <2>1, <3>1
  <2>6. HandlerInv'
    BY <2>2, <2>5, HandlersUndisturbed
  <2>7. DrainInv'
    BY <1>0, <2>2, <2>5 DEF Continue, Idle, DrainInv
  <2> QED
    BY <2>4, <2>5, <2>6, <2>7
<1> QED
  BY <1>1, <1>2, <1>3, <1>4, <1>5, <1>6 DEF DrainStep

\* losing the memory of the worker at any await keeps the invariant
LEMMA RestartStep ==
    ASSUME IInv, WorkerRestarts
    PROVE  IInv'
<1> USE DEF IInv
<1>1. UNCHANGED durable /\ Stored' = Stored /\ ledger' = ledger
  BY DEF WorkerRestarts, durable, Stored
<1>2. TypeOK'
  <2>1. QueueTypeOK' /\ ledger' \subseteq Confirms /\ today' \subseteq Confirms
    BY <1>1 DEF WorkerRestarts, TypeOK, QueueTypeOK, durable
  <2>2. handler' \in [Confirms -> HandlerState]
    BY DEF WorkerRestarts, TypeOK, HandlerState
  <2>3. /\ range' \in [Confirms -> SUBSET Confirms]
        /\ processed' \subseteq Keys
        /\ lease' \in [Sources -> [owner : Keys \cup {NoKey}, left : 0..LeaseTicks]]
        /\ disruptions' \in 0..MaxDisruptions
    BY ConfirmAssumption DEF WorkerRestarts, NoLease, Disrupt, TypeOK
  <2>4. drain' \in [Drains ->
            [stage : {"idle", "next", "saving", "completing", "failing"},
             todo : SUBSET Confirms, cur : Confirms \cup {NoConfirm}]]
    BY DEF WorkerRestarts, Idle
  <2> QED
    BY <2>1, <2>2, <2>3, <2>4 DEF TypeOK
<1>3. NothingStranded' /\ FreshTasks'
  BY <1>1, StoresUnchanged
<1>4. HandlerInv'
  BY <1>1 DEF WorkerRestarts, HandlerInv, Awaiting
<1>5. DrainInv'
  BY DEF WorkerRestarts, Idle, DrainInv
<1> QED
  BY <1>2, <1>3, <1>4, <1>5

\* waiting keeps the invariant: only waits and leases get shorter
LEMMA TimeStep ==
    ASSUME IInv, TimePasses
    PROVE  IInv'
<1> USE DEF IInv
<1>1. /\ QueueTypeOK'
      /\ \A u \in Confirms : /\ task'[u].status = task[u].status
                            /\ task'[u].attempts = task[u].attempts
  BY QueueTickEffect, ConfirmAssumption DEF TimePasses, TypeOK
<1>2. TypeOK'
  <2>1. ASSUME NEW l \in [owner : Keys \cup {NoKey}, left : 0..LeaseTicks]
        PROVE  LeaseAfterTick(l)
                  \in [owner : Keys \cup {NoKey}, left : 0..LeaseTicks]
    BY ConfirmAssumption DEF LeaseAfterTick, NoLease
  <2>2. lease' \in [Sources -> [owner : Keys \cup {NoKey}, left : 0..LeaseTicks]]
    BY <2>1 DEF TimePasses, TypeOK
  <2> QED
    BY <1>1, <2>2 DEF TimePasses, TypeOK
<1>3. UNCHANGED <<ledger, handler, drain>>
  BY DEF TimePasses
<1>4. /\ Stored' = Stored /\ Pending' = Pending
      /\ Completed' = Completed /\ DeadLettered' = DeadLettered
  BY <1>1, ConfirmAssumption DEF Stored, Pending, Completed, DeadLettered
<1>5. NothingStranded' /\ FreshTasks'
  BY <1>1, <1>3, <1>4, ConfirmAssumption
     DEF NothingStranded, FreshTasks, Pending, DeadLettered
<1>6. HandlerInv' /\ DrainInv'
  BY <1>3, <1>4 DEF HandlerInv, DrainInv
<1> QED
  BY <1>2, <1>5, <1>6

\* a stutter or the end of the day keeps the invariant
LEMMA StutterOrMidnight ==
    ASSUME IInv, Midnight \/ UNCHANGED vars
    PROVE  IInv'
<1>1. /\ UNCHANGED <<task, ledger, handler, range, processed, lease, drain,
                     disruptions>>
      /\ today' = {} \/ today' = today
  BY DEF Midnight, vars, durable, memory
<1>2. Stored' = Stored /\ UNCHANGED durable
  BY <1>1 DEF Stored, durable
<1>3. NothingStranded' /\ FreshTasks'
  BY <1>2, StoresUnchanged DEF IInv
<1>4. TypeOK'
  BY <1>1 DEF IInv, TypeOK, QueueTypeOK
<1>5. HandlerInv' /\ DrainInv'
  BY <1>1, <1>2 DEF IInv, HandlerInv, DrainInv
<1> QED
  BY <1>3, <1>4, <1>5 DEF IInv

\* every step keeps the inductive invariant
LEMMA NextIInv == IInv /\ [Next]_vars => IInv'
<1> SUFFICES ASSUME IInv, [Next]_vars
             PROVE  IInv'
  OBVIOUS
<1>1. ASSUME NEW c \in Confirms, HandlerStep(c)
      PROVE  IInv'
  BY <1>1, GateSteps, EnqueueStep, SaveStep, MarkStep DEF HandlerStep
<1>2. ASSUME NEW k \in Drains, DrainClaims(k) \/ DrainStep(k)
      PROVE  IInv'
  BY <1>2, DrainSteps
<1>3. CASE WorkerRestarts
  BY <1>3, RestartStep
<1>4. CASE TimePasses
  BY <1>4, TimeStep
<1>5. CASE Midnight \/ UNCHANGED vars
  BY <1>5, StutterOrMidnight
<1> QED
  BY <1>1, <1>2, <1>3, <1>4, <1>5 DEF Next

(***************************************************************************)
(* The inductive invariant holds of every reachable state.                 *)
(***************************************************************************)
THEOREM Invariance == Spec => []IInv
BY InitIInv, NextIInv, PTL DEF Spec

(***************************************************************************)
(* The worker's memory and the two stores always have their types, whatever *)
(* is killed, lost or retried in drainDurableQueue and the handler.        *)
(***************************************************************************)
THEOREM TypeCorrect == Spec => []TypeOK
<1>1. IInv => TypeOK
  BY DEF IInv
<1> QED
  BY <1>1, Invariance, PTL

(***************************************************************************)
(* No task is ever stranded: completed implies saved, failed implies       *)
(* exhausted, pending implies claimable (durable-task-queue.ts).           *)
(***************************************************************************)
THEOREM NeverStranded == Spec => []NothingStranded
<1>1. IInv => NothingStranded
  BY DEF IInv
<1> QED
  BY <1>1, Invariance, PTL

-----------------------------------------------------------------------------
(* What any step of the worker can do to the two stores.                   *)

StoreStep(t) ==
    \/ t \notin Stored /\ Enqueue(t) /\ ledger' = ledger
    \/ t \in Stored /\ ledger' = ledger \cup {t} /\ task' = task
    \/ t \in Stored \cap ledger /\ MarkCompleted(t) /\ ledger' = ledger
    \/ t \in Stored /\ MarkFailed(t) /\ ledger' = ledger

\* every step either leaves both stores alone (up to waits) or is one store
\* operation on one task
LEMMA StoreSteps ==
    ASSUME IInv, [Next]_vars
    PROVE  \/ UNCHANGED durable
           \/ QueueTick /\ ledger' = ledger
           \/ \E t \in Confirms : StoreStep(t)
<1>1. ASSUME NEW c \in Confirms, HandlerStep(c)
      PROVE  UNCHANGED durable \/ StoreStep(c)
  <2>1. CASE EnqueueCommits(c)
    BY <2>1 DEF IInv, HandlerInv, EnqueueCommits, StoreStep
  <2>2. CASE SaveCommits(c)
    BY <2>2 DEF IInv, HandlerInv, SaveCommits, StoreStep
  <2>3. CASE MarkCommits(c)
    BY <2>3 DEF IInv, HandlerInv, MarkCommits, StoreStep
  <2>4. CASE ~EnqueueCommits(c) /\ ~SaveCommits(c) /\ ~MarkCommits(c)
    BY <1>1, <2>4
       DEF HandlerStep, AnswerAtOnce, StartCount, Refuse, Admit, CountFails,
           EnqueueFails, SaveFails, MarkFails, HandlerHangs
  <2> QED
    BY <2>1, <2>2, <2>3, <2>4
<1>2. ASSUME NEW k \in Drains, DrainClaims(k) \/ DrainStep(k)
      PROVE  UNCHANGED durable \/ \E t \in Confirms : StoreStep(t)
  <2> DEFINE t == drain[k].cur
  <2>1. Stored \subseteq Confirms
    BY ConfirmAssumption DEF Stored
  <2>2. CASE DrainSaves(k)
    BY <2>1, <2>2 DEF IInv, DrainInv, DrainSaves, At, StoreStep
  <2>3. CASE DrainCompletes(k)
    BY <2>1, <2>3 DEF IInv, DrainInv, DrainCompletes, At, StoreStep
  <2>4. CASE DrainRecordsFailure(k)
    BY <2>1, <2>4 DEF IInv, DrainInv, DrainRecordsFailure, At, StoreStep
  <2>5. CASE ~DrainSaves(k) /\ ~DrainCompletes(k) /\ ~DrainRecordsFailure(k)
    BY <1>2, <2>5
       DEF DrainStep, DrainClaims, DrainTakes, DrainSaveFails,
           DrainCompleteFails, DrainAbandons
  <2> QED
    BY <2>2, <2>3, <2>4, <2>5
<1>3. CASE WorkerRestarts \/ Midnight \/ UNCHANGED vars
  BY <1>3 DEF WorkerRestarts, Midnight, vars, durable
<1>4. CASE TimePasses
  BY <1>4 DEF TimePasses
<1> QED
  BY <1>1, <1>2, <1>3, <1>4 DEF Next

\* a store step seen through the sets the outbox talks about
LEMMA StoreStepEffect ==
    ASSUME IInv, NEW t \in Confirms, StoreStep(t)
    PROVE  /\ \A u \in Confirms \ {t} : task'[u] = task[u]
           /\ task'[t].attempts >= task[t].attempts
           /\ task'[t].status # "absent"
           /\ t \in Completed \cup DeadLettered => task'[t].status # "pending"
           /\ \/ t \notin Stored /\ task'[t].status = "pending" /\ ledger' = ledger
              \/ t \in Stored /\ ledger' = ledger \cup {t} /\ task' = task
              \/ t \in Stored \cap ledger /\ task'[t].status = "completed"
                    /\ ledger' = ledger
              \/ t \in Stored /\ task'[t].status = "failed" /\ ledger' = ledger
              \/ t \in Stored /\ task'[t].status = task[t].status /\ ledger' = ledger
<1>1. /\ QueueTypeOK /\ Tasks = Confirms
      /\ task[t].attempts \in Nat
      /\ t \in Stored => task[t].status # "absent"
      /\ t \notin Stored => task[t].attempts = 0
      /\ t \in Completed \cup DeadLettered =>
             task[t].status \in {"completed", "failed"} /\ t \in Stored
  BY ConfirmAssumption
     DEF IInv, TypeOK, QueueTypeOK, TaskRecord, FreshTasks, Stored, Completed,
         DeadLettered
<1>2. CASE t \notin Stored /\ Enqueue(t) /\ ledger' = ledger
  BY <1>1, <1>2, EnqueueEffect
<1>3. CASE t \in Stored /\ ledger' = ledger \cup {t} /\ task' = task
  BY <1>1, <1>3
<1>4. CASE t \in Stored \cap ledger /\ MarkCompleted(t) /\ ledger' = ledger
  BY <1>1, <1>4, MarkCompletedEffect
<1>5. CASE t \in Stored /\ MarkFailed(t) /\ ledger' = ledger
  <2>1. /\ task'[t].attempts = task[t].attempts + 1
        /\ task'[t].status \in {"failed", task[t].status}
        /\ \A u \in Confirms \ {t} : task'[u] = task[u]
    BY <1>1, <1>5, MarkFailedEffect
  <2> QED
    BY <1>1, <1>5, <2>1
<1> QED
  BY <1>2, <1>3, <1>4, <1>5 DEF StoreStep

(***************************************************************************)
(* Rows, attempts and final statuses are never undone by a later or a      *)
(* concurrent report on the same task (markCompleted, markFailed).         *)
(***************************************************************************)
THEOREM NeverUndone == Spec => NothingUndone
<1> DEFINE Kept ==
        /\ ledger \subseteq ledger'
        /\ \A t \in Confirms :
               /\ task'[t].attempts >= task[t].attempts
               /\ t \in Stored => task'[t].status # "absent"
               /\ t \in Completed \cup DeadLettered => task'[t].status # "pending"
<1>1. ASSUME IInv, [Next]_vars
      PROVE  Kept
  <2>1. \A t \in Confirms :
            /\ task[t].attempts \in Nat
            /\ t \in Stored => task[t].status # "absent"
            /\ t \in Completed \cup DeadLettered => task[t].status # "pending"
    BY <1>1, ConfirmAssumption
       DEF IInv, TypeOK, QueueTypeOK, TaskRecord, Stored, Completed, DeadLettered
  <2>2. CASE UNCHANGED durable
    BY <2>1, <2>2 DEF durable
  <2>3. CASE QueueTick /\ ledger' = ledger
    <3>1. \A t \in Confirms : /\ task'[t].status = task[t].status
                              /\ task'[t].attempts = task[t].attempts
      BY <1>1, <2>3, QueueTickEffect, ConfirmAssumption DEF IInv, TypeOK
    <3> QED
      BY <2>1, <2>3, <3>1
  <2>4. ASSUME NEW t \in Confirms, StoreStep(t)
        PROVE  Kept
    BY <1>1, <2>1, <2>4, StoreStepEffect
  <2> QED
    BY <1>1, <2>2, <2>3, <2>4, StoreSteps
<1> QED
  BY <1>1, Invariance, PTL DEF Spec, NothingUndone

(***************************************************************************)
(* The confirm path implements the abstract outbox: every step is one of   *)
(* its steps or a stutter (persistConfirmedSavings, drainDurableQueue).    *)
(***************************************************************************)
THEOREM Refinement == Spec => ImplementsOutbox
<1>1. Init => Outbox!Init
  BY ConfirmAssumption
     DEF Init, QueueInit, NoTask, Outbox!Init, Stored, Completed, DeadLettered
<1>2. ASSUME IInv, [Next]_vars
      PROVE  [Outbox!Next]_Outbox!vars
  <2> USE ConfirmAssumption
  <2>1. CASE UNCHANGED durable
    BY <2>1 DEF durable, Outbox!vars, Stored, Completed, DeadLettered
  <2>2. CASE QueueTick /\ ledger' = ledger
    <3>1. \A t \in Confirms : task'[t].status = task[t].status
      BY <1>2, <2>2, QueueTickEffect DEF IInv, TypeOK
    <3> QED
      BY <2>2, <3>1 DEF Outbox!vars, Stored, Completed, DeadLettered
  <2>3. ASSUME NEW t \in Confirms, StoreStep(t)
        PROVE  [Outbox!Next]_Outbox!vars
    <3>1. \A u \in Confirms \ {t} : task'[u] = task[u]
      BY <1>2, <2>3, StoreStepEffect
    <3>2. CASE t \notin Stored /\ task'[t].status = "pending" /\ ledger' = ledger
      <4>1. Outbox!Accept(t)
        BY <3>1, <3>2 DEF Outbox!Accept, Stored, Completed, DeadLettered
      <4> QED
        BY <4>1 DEF Outbox!Next
    <3>3. CASE t \in Stored /\ ledger' = ledger \cup {t} /\ task' = task
      <4>1. Outbox!Write(t)
        BY <3>3 DEF Outbox!Write, Stored, Completed, DeadLettered
      <4> QED
        BY <4>1 DEF Outbox!Next
    <3>4. CASE t \in Stored \cap ledger /\ task'[t].status = "completed"
                 /\ ledger' = ledger
      <4>1. Outbox!Retire(t)
        BY <3>1, <3>4 DEF Outbox!Retire, Stored, Completed, DeadLettered
      <4> QED
        BY <4>1 DEF Outbox!Next
    <3>5. CASE t \in Stored /\ task'[t].status = "failed" /\ ledger' = ledger
      <4>1. Outbox!GiveUp(t)
        BY <3>1, <3>5 DEF Outbox!GiveUp, Stored, Completed, DeadLettered
      <4> QED
        BY <4>1 DEF Outbox!Next
    <3>6. CASE t \in Stored /\ task'[t].status = task[t].status /\ ledger' = ledger
      BY <3>1, <3>6 DEF Outbox!vars, Stored, Completed, DeadLettered
    <3> QED
      BY <1>2, <2>3, <3>2, <3>3, <3>4, <3>5, <3>6, StoreStepEffect
  <2> QED
    BY <1>2, <2>1, <2>2, <2>3, StoreSteps
<1> QED
  BY <1>1, <1>2, Invariance, PTL DEF Spec, ImplementsOutbox, Outbox!Spec

(***************************************************************************)
(* Burn leases are whole in every reachable state (acquireBurnLeases).     *)
(* The type invariant is all the induction needs besides.                  *)
(***************************************************************************)
THEOREM LeasesWhole == Spec => []LeasesAreWhole
<1>1. Init => LeasesAreWhole
  BY DEF Init, NoLease, LeasesAreWhole
<1>2. ASSUME TypeOK, LeasesAreWhole, [Next]_vars
      PROVE  LeasesAreWhole'
  <2> USE ConfirmAssumption
  <2>1. CASE lease' = lease
    BY <1>2, <2>1 DEF LeasesAreWhole
  <2>2. ASSUME NEW c \in Confirms, Admit(c)
        PROVE  LeasesAreWhole'
    <3>1. /\ lease' = [s \in Sources |->
                  IF s \in SourcesOf[c]
                  THEN [owner |-> KeyOf[c], left |-> LeaseTicks]
                  ELSE lease[s]]
          /\ \A s \in SourcesOf[c] :
                 lease[s].left > 0 => lease[s].owner = KeyOf[c]
      BY <2>2 DEF Admit, AcquireBurnLeases, Locked
    <3>2. SUFFICES ASSUME NEW s \in Sources, lease'[s].left > 0
                   PROVE  \E d \in Confirms :
                             /\ KeyOf[d] = lease'[s].owner
                             /\ s \in SourcesOf[d]
                             /\ \A r \in SourcesOf[d] :
                                   /\ lease'[r].owner = lease'[s].owner
                                   /\ lease'[r].left >= lease'[s].left
      BY DEF LeasesAreWhole
    <3>3. CASE s \in SourcesOf[c]
      BY <3>1, <3>3
    <3>4. CASE s \notin SourcesOf[c]
      <4>1. lease'[s] = lease[s] /\ lease[s].left > 0
        BY <3>1, <3>2, <3>4
      <4>2. PICK d \in Confirms :
               /\ KeyOf[d] = lease[s].owner
               /\ s \in SourcesOf[d]
               /\ \A r \in SourcesOf[d] :
                      /\ lease[r].owner = lease[s].owner
                      /\ lease[r].left >= lease[s].left
        BY <1>2, <4>1 DEF LeasesAreWhole
      <4>3. ASSUME NEW r \in SourcesOf[d]
            PROVE  /\ lease'[r].owner = lease'[s].owner
                   /\ lease'[r].left >= lease'[s].left
        <5>1. /\ r \in Sources
              /\ lease[s].left \in 0..LeaseTicks /\ lease[r].left \in 0..LeaseTicks
          BY <1>2 DEF TypeOK
        <5>2. CASE r \in SourcesOf[c]
          BY <3>1, <4>1, <4>2, <5>1, <5>2
        <5>3. CASE r \notin SourcesOf[c]
          BY <3>1, <4>1, <4>2, <5>1, <5>3
        <5> QED
          BY <5>2, <5>3
      <4> QED
        BY <4>1, <4>2, <4>3
    <3> QED
      BY <3>3, <3>4
  <2>3. CASE WorkerRestarts
    BY <2>3 DEF WorkerRestarts, NoLease, LeasesAreWhole
  <2>4. CASE TimePasses
    <3>1. \A s \in Sources :
             /\ lease[s].left \in Nat
             /\ lease'[s] = LeaseAfterTick(lease[s])
             /\ lease'[s].left > 0 =>
                    /\ lease[s].left > 1
                    /\ lease'[s].owner = lease[s].owner
                    /\ lease'[s].left = lease[s].left - 1
             /\ lease[s].left > 1 =>
                    /\ lease'[s].owner = lease[s].owner
                    /\ lease'[s].left = lease[s].left - 1
      <4> SUFFICES ASSUME NEW s \in Sources
                   PROVE  /\ lease[s].left \in Nat
                          /\ lease'[s] = LeaseAfterTick(lease[s])
                          /\ lease[s].left <= 1 => lease'[s].left = 0
                          /\ lease[s].left > 1 =>
                                 /\ lease'[s].owner = lease[s].owner
                                 /\ lease'[s].left = lease[s].left - 1
        OBVIOUS
      <4>1. lease[s] \in [owner : Keys \cup {NoKey}, left : 0..LeaseTicks]
        BY <1>2 DEF TypeOK
      <4>2. lease'[s] = LeaseAfterTick(lease[s])
        BY <2>4 DEF TimePasses
      <4> QED
        BY <4>1, <4>2 DEF LeaseAfterTick, NoLease
    <3> QED
      BY <1>2, <3>1 DEF LeasesAreWhole
  <2> QED
    BY <1>2, <2>1, <2>2, <2>3, <2>4
       DEF Next, HandlerStep, AnswerAtOnce, StartCount, Refuse, CountFails,
           EnqueueCommits, EnqueueFails, SaveCommits, SaveFails, MarkCommits,
           MarkFails, HandlerHangs, DrainClaims, DrainStep, DrainTakes,
           DrainSaves, DrainSaveFails, DrainCompletes, DrainCompleteFails,
           DrainRecordsFailure, DrainAbandons, Midnight, vars, memory
<1> QED
  BY <1>1, <1>2, TypeCorrect, PTL DEF Spec
=============================================================================
