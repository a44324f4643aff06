-------------------------- MODULE DurableTaskQueue --------------------------
(***************************************************************************)
(* The durable background task queue (durable-task-queue.ts): a persistent *)
(* store of tasks that the service worker writes BEFORE it attempts the    *)
(* work, and drains on every wake.                                         *)
(*                                                                         *)
(* The store survives the worker.  Every operation is one IndexedDB        *)
(* transaction, hence one step here; what may happen around a transaction  *)
(* (rejection, an abort nobody listens to, the death of the worker) is the *)
(* business of the module that calls the operation.                        *)
(*                                                                         *)
(* A task is named by the savings entry it carries, because each handler   *)
(* run draws a fresh random entry id and a fresh random task id.  The      *)
(* field nextAttemptAt, an absolute time in the code, is the time left     *)
(* until then, so no clock grows: a task is due when none is left.         *)
(***************************************************************************)
EXTENDS Naturals

CONSTANTS
    Tasks,        \* the entries a task can be created for
    MaxAttempts,  \* DurableQueueConfig.maxAttempts
    BackoffBase   \* DurableQueueConfig.backoffBaseMs, in ticks

\* delay before attempt n + 1, once n attempts have failed
BackoffTicks(n) == BackoffBase * 2^(n - 1)

ASSUME QueueAssumption ==
    /\ MaxAttempts \in Nat \ {0}
    /\ \A n \in 1..MaxAttempts : BackoffTicks(n) \in Nat

VARIABLE task     \* task[t]: the stored record, or NoTask

NoTask == [status |-> "absent", attempts |-> 0, wait |-> 0]

TaskRecord ==
    [status : {"absent", "pending", "completed", "failed"},
     attempts : Nat, wait : Nat]

QueueTypeOK == task \in [Tasks -> TaskRecord]

QueueInit == task = [t \in Tasks |-> NoTask]

Stored == {t \in Tasks : task[t].status # "absent"}
Pending == {t \in Tasks : task[t].status = "pending"}
Completed == {t \in Tasks : task[t].status = "completed"}
DeadLettered == {t \in Tasks : task[t].status = "failed"}

-----------------------------------------------------------------------------
\* enqueue: the record is committed before the work starts, due at once
Enqueue(t) ==
    task' = [task EXCEPT ![t] =
                [status |-> "pending", attempts |-> 0, wait |-> 0]]

\* mutant: the last attempt is never claimed
DueTasks_LastAttemptLost ==
    {t \in Pending : task[t].wait = 0 /\ task[t].attempts + 1 < MaxAttempts}

\* claimDueTasks: a read-only snapshot; nothing is locked
DueTasks ==
    {t \in Pending : task[t].wait = 0 /\ task[t].attempts < MaxAttempts}

\* markCompleted: overwrites whatever status is stored
MarkCompleted(t) ==
    task' = [task EXCEPT ![t].status = "completed"]

\* mutant: > for >= when the attempts are exhausted
MarkFailed_OffByOne(t) ==
    LET failures == task[t].attempts + 1
    IN  task' = [task EXCEPT ![t] =
                    IF failures > MaxAttempts
                    THEN [@ EXCEPT !.attempts = failures, !.status = "failed"]
                    ELSE [@ EXCEPT !.attempts = failures,
                                   !.wait = BackoffTicks(failures)]]

\* mutant: a retry is put back to pending, whatever happened meanwhile
MarkFailed_Requeues(t) ==
    LET failures == task[t].attempts + 1
    IN  task' = [task EXCEPT ![t] =
                    IF failures >= MaxAttempts
                    THEN [@ EXCEPT !.attempts = failures, !.status = "failed"]
                    ELSE [status |-> "pending", attempts |-> failures,
                          wait |-> BackoffTicks(failures)]]

\* markFailed: overwrites too; the last attempt dead-letters the task, the
\* earlier ones move its next attempt away
MarkFailed(t) ==
    LET failures == task[t].attempts + 1
    IN  task' = [task EXCEPT ![t] =
                    IF failures >= MaxAttempts
                    THEN [@ EXCEPT !.attempts = failures, !.status = "failed"]
                    ELSE [@ EXCEPT !.attempts = failures,
                                   !.wait = BackoffTicks(failures)]]

\* time passes: one tick closer to every nextAttemptAt
QueueTick ==
    task' = [t \in Tasks |->
                [task[t] EXCEPT !.wait = IF @ = 0 THEN 0 ELSE @ - 1]]
=============================================================================
