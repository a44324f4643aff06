--------------------------- MODULE ConfirmSavings ---------------------------
(***************************************************************************)
(* The CONFIRM_SAVINGS path of the background service worker: the message  *)
(* handler with its in-memory gates (processedConfirms, voucherLeases, the *)
(* per-day cap), the write-ahead queue it goes through, the savings store, *)
(* and the drain loops that retry what a dead worker left behind.          *)
(*                                                                         *)
(* Handlers and drains are asynchronous functions of one JavaScript worker.*)
(* A step of the model is what runs between two awaits: everything in it   *)
(* is atomic, and any other handler or drain may run at every await.  The  *)
(* browser may kill the worker at every await as well: memory is lost, the *)
(* two IndexedDB stores (task, ledger) stay.                               *)
(*                                                                         *)
(* A confirm is one delivery of a message.  Its savings entry and its task *)
(* have fresh random ids in the code, so both are named by the confirm.    *)
(***************************************************************************)
EXTENDS DurableTaskQueue, FiniteSets

CONSTANTS
    Confirms,        \* deliveries of CONFIRM_SAVINGS
    Keys, KeyOf,     \* idempotency key of each delivery
    NoKey, NoConfirm,
    Merchants, MerchantOf,
    Sources,         \* benefit sources (vouchers, cards) a lease can cover
    SourcesOf,       \* the sources named by the recipe of each delivery
    SameCurrency,    \* deliveries whose cart and strategy currencies agree
    Drains,          \* drain loops that may be running at the same time
    CapPerDay,       \* CONFIRM_PER_MERCHANT_PER_DAY
    LeaseTicks,      \* BURN_LEASE_MS, in ticks
    MaxDisruptions   \* bound: worker kills, lost and failed status updates

ASSUME ConfirmAssumption ==
    /\ Tasks = Confirms
    /\ KeyOf \in [Confirms -> Keys]
    /\ MerchantOf \in [Confirms -> Merchants]
    /\ SourcesOf \in [Confirms -> SUBSET Sources]
    /\ SameCurrency \subseteq Confirms
    /\ NoKey \notin Keys /\ NoConfirm \notin Confirms
    /\ CapPerDay \in Nat /\ LeaseTicks \in Nat \ {0} /\ MaxDisruptions \in Nat

VARIABLES
    ledger,      \* rows of the savings store
    handler,     \* where each delivery is, or how it was answered
    range,       \* entries dated inside the cap query of each delivery
    today,       \* entries dated the current day
    processed,   \* processedConfirms: keys answered in this worker life
    lease,       \* voucherLeases: owner and time left, NoLease once expired
    drain,       \* the drain loops
    disruptions

durable == <<task, ledger>>
memory == <<handler, range, processed, lease, drain>>
vars == <<task, ledger, handler, range, today, processed, lease, drain,
          disruptions>>

Replies == {"CONFIRMED", "RATE_LIMITED", "VOUCHER_LOCKED", "INVALID_REQUEST"}
Awaiting == {"counting", "enqueuing", "saving", "marking"}
HandlerState == {"new", "hung", "killed"} \cup Awaiting \cup Replies

NoLease == [owner |-> NoKey, left |-> 0]

Idle == [stage |-> "idle", todo |-> {}, cur |-> NoConfirm]

TypeOK ==
    /\ QueueTypeOK
    /\ ledger \subseteq Confirms
    /\ handler \in [Confirms -> HandlerState]
    /\ range \in [Confirms -> SUBSET Confirms]
    /\ today \subseteq Confirms
    /\ processed \subseteq Keys
    /\ lease \in [Sources -> [owner : Keys \cup {NoKey}, left : 0..LeaseTicks]]
    /\ drain \in [Drains ->
            [stage : {"idle", "next", "saving", "completing", "failing"},
             todo : SUBSET Confirms,
             cur : Confirms \cup {NoConfirm}]]
    /\ disruptions \in 0..MaxDisruptions

Init ==
    /\ QueueInit
    /\ ledger = {}
    /\ handler = [c \in Confirms |-> "new"]
    /\ range = [c \in Confirms |-> {}]
    /\ today = {}
    /\ processed = {}
    /\ lease = [s \in Sources |-> NoLease]
    /\ drain = [k \in Drains |-> Idle]
    /\ disruptions = 0

Disrupt == disruptions < MaxDisruptions /\ disruptions' = disruptions + 1

-----------------------------------------------------------------------------
(* The handler of one delivery.                                            *)

\* the replies that need no store: a key this worker already answered, and
\* the currency guard (which answers CONFIRMED too, and remembers nothing)
AnswerAtOnce(c) ==
    /\ handler[c] = "new"
    /\ KeyOf[c] \in processed \/ c \notin SameCurrency
    /\ handler' = [handler EXCEPT ![c] = "CONFIRMED"]
    /\ UNCHANGED <<durable, range, today, processed, lease, drain, disruptions>>

\* the cap query is issued: its date range is fixed now, its result is not
StartCount(c) ==
    /\ handler[c] = "new"
    /\ KeyOf[c] \notin processed
    /\ c \in SameCurrency
    /\ handler' = [handler EXCEPT ![c] = "counting"]
    /\ range' = [range EXCEPT ![c] = today]
    /\ UNCHANGED <<durable, today, processed, lease, drain, disruptions>>

TodayCount(c) ==
    Cardinality({e \in ledger \cap range[c] : MerchantOf[e] = MerchantOf[c]})

\* mutant: the owner test the wrong way round
Locked_OwnerSwapped(c) ==
    \E s \in SourcesOf[c] : lease[s].left > 0 /\ lease[s].owner = KeyOf[c]

\* acquireBurnLeases: the first pass finds a live lease of another owner
Locked(c) ==
    \E s \in SourcesOf[c] : lease[s].left > 0 /\ lease[s].owner # KeyOf[c]

AcquireBurnLeases(c) ==
    lease' = [s \in Sources |->
                IF s \in SourcesOf[c]
                THEN [owner |-> KeyOf[c], left |-> LeaseTicks]
                ELSE lease[s]]

\* the query's result arrives and the handler runs up to the enqueue
Refuse(c) ==
    /\ handler[c] = "counting"
    /\ \/ /\ TodayCount(c) >= CapPerDay
          /\ handler' = [handler EXCEPT ![c] = "RATE_LIMITED"]
       \/ /\ TodayCount(c) < CapPerDay
          /\ Locked(c)
          /\ handler' = [handler EXCEPT ![c] = "VOUCHER_LOCKED"]
    /\ range' = [range EXCEPT ![c] = {}]
    /\ UNCHANGED <<durable, today, processed, lease, drain, disruptions>>

Admit(c) ==
    /\ handler[c] = "counting"
    /\ TodayCount(c) < CapPerDay
    /\ ~Locked(c)
    /\ AcquireBurnLeases(c)
    /\ today' = today \cup {c}
    /\ handler' = [handler EXCEPT ![c] = "enqueuing"]
    /\ range' = [range EXCEPT ![c] = {}]
    /\ UNCHANGED <<durable, processed, drain, disruptions>>

\* the query rejects (or the cart does not parse): the outer catch answers
CountFails(c) ==
    /\ handler[c] = "counting"
    /\ handler' = [handler EXCEPT ![c] = "INVALID_REQUEST"]
    /\ range' = [range EXCEPT ![c] = {}]
    /\ UNCHANGED <<durable, today, processed, lease, drain, disruptions>>

\* the end of the handler, reached with or without an error: the catch of
\* saveConfirmedOptimization only logs
Acknowledge(c) ==
    /\ processed' = processed \cup {KeyOf[c]}
    /\ handler' = [handler EXCEPT ![c] = "CONFIRMED"]

EnqueueCommits(c) ==
    /\ handler[c] = "enqueuing"
    /\ Enqueue(c)
    /\ handler' = [handler EXCEPT ![c] = "saving"]
    /\ UNCHANGED <<ledger, range, today, processed, lease, drain, disruptions>>

\* mutant: the rejection is swallowed one call too early, the write goes on
EnqueueFails_Ignored(c) ==
    /\ handler[c] = "enqueuing"
    /\ handler' = [handler EXCEPT ![c] = "saving"]
    /\ UNCHANGED <<durable, range, today, processed, lease, drain, disruptions>>

EnqueueFails(c) ==
    /\ handler[c] = "enqueuing"
    /\ Acknowledge(c)
    /\ UNCHANGED <<durable, range, today, lease, drain, disruptions>>

SaveCommits(c) ==
    /\ handler[c] = "saving"
    /\ ledger' = ledger \cup {c}
    /\ handler' = [handler EXCEPT ![c] = "marking"]
    /\ UNCHANGED <<task, range, today, processed, lease, drain, disruptions>>

SaveFails(c) ==
    /\ handler[c] = "saving"
    /\ Acknowledge(c)
    /\ UNCHANGED <<durable, range, today, lease, drain, disruptions>>

MarkCommits(c) ==
    /\ handler[c] = "marking"
    /\ MarkCompleted(c)
    /\ Acknowledge(c)
    /\ UNCHANGED <<ledger, range, today, lease, drain, disruptions>>

MarkFails(c) ==
    /\ handler[c] = "marking"
    /\ Acknowledge(c)
    /\ UNCHANGED <<durable, range, today, lease, drain, disruptions>>

\* transactions without an abort handler (the cap query, updateTask): when
\* the commit aborts, the promise never settles and the handler never ends
HandlerHangs(c) ==
    /\ handler[c] \in {"counting", "marking"}
    /\ Disrupt
    /\ handler' = [handler EXCEPT ![c] = "hung"]
    /\ range' = [range EXCEPT ![c] = {}]
    /\ UNCHANGED <<durable, today, processed, lease, drain>>

HandlerStep(c) ==
    \/ AnswerAtOnce(c) \/ StartCount(c) \/ Refuse(c) \/ Admit(c)
    \/ CountFails(c) \/ EnqueueCommits(c) \/ EnqueueFails(c)
    \/ SaveCommits(c) \/ SaveFails(c) \/ MarkCommits(c) \/ MarkFails(c)
    \/ HandlerHangs(c)

-----------------------------------------------------------------------------
(* drainDurableQueue: one run at startup and one per alarm tick; nothing   *)
(* keeps two runs, or a run and a handler, off the same task.              *)

At(k, stage) == drain[k].stage = stage

DrainClaims(k) ==
    /\ At(k, "idle")
    /\ DueTasks # {}
    /\ drain' = [drain EXCEPT ![k] =
            [stage |-> "next", todo |-> DueTasks, cur |-> NoConfirm]]
    /\ UNCHANGED <<durable, handler, range, today, processed, lease, disruptions>>

\* the loop moves on with the tasks still to do, or ends
Continue(k, todo) ==
    drain' = [drain EXCEPT ![k] =
        IF todo = {} THEN Idle
                     ELSE [stage |-> "next", todo |-> todo, cur |-> NoConfirm]]

\* task ids sort by creation time and, within a millisecond, at random
DrainTakes(k) ==
    /\ At(k, "next")
    /\ \E t \in drain[k].todo :
        drain' = [drain EXCEPT ![k] =
            [stage |-> "saving", todo |-> drain[k].todo \ {t}, cur |-> t]]
    /\ UNCHANGED <<durable, handler, range, today, processed, lease, disruptions>>

DrainSaves(k) ==
    /\ At(k, "saving")
    /\ ledger' = ledger \cup {drain[k].cur}
    /\ drain' = [drain EXCEPT ![k].stage = "completing"]
    /\ UNCHANGED <<task, handler, range, today, processed, lease, disruptions>>

DrainSaveFails(k) ==
    /\ At(k, "saving")
    /\ drain' = [drain EXCEPT ![k].stage = "failing"]
    /\ UNCHANGED <<durable, handler, range, today, processed, lease, disruptions>>

DrainCompletes(k) ==
    /\ At(k, "completing")
    /\ MarkCompleted(drain[k].cur)
    /\ Continue(k, drain[k].todo)
    /\ UNCHANGED <<ledger, handler, range, today, processed, lease, disruptions>>

\* markCompleted rejects inside the same try: the saved task counts as failed
DrainCompleteFails(k) ==
    /\ At(k, "completing")
    /\ Disrupt
    /\ drain' = [drain EXCEPT ![k].stage = "failing"]
    /\ UNCHANGED <<durable, handler, range, today, processed, lease>>

DrainRecordsFailure(k) ==
    /\ At(k, "failing")
    /\ MarkFailed(drain[k].cur)
    /\ Continue(k, drain[k].todo)
    /\ UNCHANGED <<ledger, handler, range, today, processed, lease, disruptions>>

\* markFailed rejects (the outer catch gives up on the rest of the claim),
\* or a status update aborts unheard and the loop never resumes
DrainAbandons(k) ==
    /\ At(k, "failing") \/ At(k, "completing")
    /\ Disrupt
    /\ drain' = [drain EXCEPT ![k] = Idle]
    /\ UNCHANGED <<durable, handler, range, today, processed, lease>>

DrainStep(k) ==
    \/ DrainTakes(k) \/ DrainSaves(k) \/ DrainSaveFails(k)
    \/ DrainCompletes(k) \/ DrainCompleteFails(k) \/ DrainRecordsFailure(k)
    \/ DrainAbandons(k)

-----------------------------------------------------------------------------
(* The environment.                                                        *)

\* the worker is killed at some await and woken later: memory is gone
WorkerRestarts ==
    /\ Disrupt
    /\ handler' = [c \in Confirms |->
            IF handler[c] \in Awaiting \cup {"hung"}
            THEN "killed" ELSE handler[c]]
    /\ range' = [c \in Confirms |-> {}]
    /\ processed' = {}
    /\ lease' = [s \in Sources |-> NoLease]
    /\ drain' = [k \in Drains |-> Idle]
    /\ UNCHANGED <<durable, today>>

\* an expired lease is as good as none: every reader prunes first
LeaseAfterTick(l) ==
    IF l.left <= 1 THEN NoLease ELSE [l EXCEPT !.left = @ - 1]

TimePasses ==
    /\ \/ \E t \in Confirms : task[t].wait > 0
       \/ \E s \in Sources : lease[s].left > 0
    /\ QueueTick
    /\ lease' = [s \in Sources |-> LeaseAfterTick(lease[s])]
    /\ UNCHANGED <<ledger, handler, range, today, processed, drain, disruptions>>

Midnight ==
    /\ today # {}
    /\ today' = {}
    /\ UNCHANGED <<durable, memory, disruptions>>

Next ==
    \/ \E c \in Confirms : HandlerStep(c)
    \/ \E k \in Drains : DrainClaims(k) \/ DrainStep(k)
    \/ WorkerRestarts \/ TimePasses \/ Midnight

Spec == Init /\ [][Next]_vars

(***************************************************************************)
(* The alarm fires every minute and wakes the worker, so some drain always *)
(* starts again; an IndexedDB request of a drain settles, one way or the   *)
(* other; time passes.  Nothing is assumed of the handlers, of a write     *)
(* succeeding, or of the user coming back.                                 *)
(***************************************************************************)
Fairness ==
    /\ WF_vars(TimePasses)
    /\ \A k \in Drains : WF_vars(DrainClaims(k)) /\ WF_vars(DrainStep(k))

FairSpec == Spec /\ Fairness

-----------------------------------------------------------------------------
(* What holds.                                                             *)

(***************************************************************************)
(* A task that left the retry loop as completed has its row, one that left *)
(* it as failed has used up its attempts, and one still pending has        *)
(* attempts left: no task can sit in the store unsaved, unclaimable and    *)
(* unreported, whatever two drains and the handler do to it at once        *)
(* (claimDueTasks skips exhausted pending tasks without a word).           *)
(***************************************************************************)
NothingStranded ==
    /\ Completed \subseteq ledger
    /\ \A t \in DeadLettered : task[t].attempts >= MaxAttempts
    /\ \A t \in Pending : task[t].attempts < MaxAttempts

(***************************************************************************)
(* Burn leases are taken all or none: a live lease belongs to a confirm    *)
(* whose other sources are leased to the same key for at least as long, so *)
(* no confirm is ever admitted on half of its vouchers (acquireBurnLeases  *)
(* checks every id before it writes one).                                  *)
(***************************************************************************)
LeasesAreWhole ==
    \A s \in Sources : lease[s].left > 0 =>
        \E c \in Confirms :
            /\ KeyOf[c] = lease[s].owner
            /\ s \in SourcesOf[c]
            /\ \A r \in SourcesOf[c] :
                   lease[r].owner = lease[s].owner /\ lease[r].left >= lease[s].left

(***************************************************************************)
(* Progress is never undone: rows stay, attempts only grow, a stored task  *)
(* stays stored, and a task that left the retry loop never re-enters it,   *)
(* even when a worker with a stale claim reports on it afterwards          *)
(* ("completed tasks are never re-claimed", drainDurableQueue).            *)
(***************************************************************************)
NothingUndone ==
    [][ /\ ledger \subseteq ledger'
        /\ \A t \in Confirms :
               /\ task'[t].attempts >= task[t].attempts
               /\ t \in Stored => task'[t].status # "absent"
               /\ t \in Completed \cup DeadLettered => task'[t].status # "pending"
      ]_vars

(***************************************************************************)
(* The path implements the outbox it is meant to be: whatever is written   *)
(* was accepted durably before, whatever is retired was written.           *)
(***************************************************************************)
Outbox == INSTANCE SavingsOutbox WITH
    Entries <- Confirms, accepted <- Stored, written <- ledger,
    retired <- Completed, dead <- DeadLettered

ImplementsOutbox == Outbox!Spec

(***************************************************************************)
(* "If the service worker dies at any point, the next wake's drain loop    *)
(* retries the queued entry": every queued entry ends up saved or as a     *)
(* dead letter, once the disruptions stop.                                 *)
(***************************************************************************)
RetriesSettle ==
    \A t \in Confirms : t \in Pending ~> t \in Completed \cup DeadLettered

-----------------------------------------------------------------------------
(* What the comments say and the code does not do.                         *)

\* message-schemas.ts: "duplicate delivery returns the prior entry instead
\* of writing a second row"
OneRowPerKey ==
    \A c, d \in ledger : KeyOf[c] = KeyOf[d] => c = d

=============================================================================
