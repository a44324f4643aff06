# A TLA+ verification of payments-optimizer

payments-optimizer is a browser extension (Manifest V3) that recommends how to
pay for a cart, and a set of packages under `packages/` that it is built from.
This directory holds TLA+ models of its stateful parts, TLC configurations that
check them on small instances, and TLAPS proofs of their main properties.
Paths below are relative to the repository.

    tlc -workers 2 -config ConfirmSavings.cfg MCConfirmSavings
    tlapm ConfirmSavings_proofs.tla

## 1. Inventory

### 1.1 Parts with state, and their operations

| Part | State | Operations | Hard behaviour |
|---|---|---|---|
| Durable task queue (`packages/storage/src/durable-task-queue.ts`) | IndexedDB store of tasks | enqueue, claimDueTasks, markCompleted, markFailed, pendingTasks | claims take no lock; `updateTask` has no abort handler; backoff and dead letters at the last attempt |
| Service worker (`apps/extension/src/background/service-worker.ts`) | `processedConfirms`, `voucherLeases`, `memoryLimiter` (memory); the queue, the savings store, `optimizationRateLimit`, `security-events`, the recommendations (durable) | message handler for OPTIMIZE_PAYMENT and CONFIRM_SAVINGS; drain at startup and on each alarm | everything interleaves at awaits; the browser kills the worker at any await |
| Transaction coordinator (`packages/storage/src/transaction-coordinator.ts`, `operations.ts`) | list of completed operations (memory), three repositories | executeAtomically, rollbackOperations; BurnVoucher, SaveSavings, UpdateProfile | no isolation between concurrent calls, compensation in reverse, timeouts between steps, kills |
| Repositories (`packages/storage/src/base-repository.ts`, `savings-repository.ts`, `loyalty-repository.ts`) | IndexedDB stores | get, put, delete, getAll, queries over indexes | put resolves before its transaction commits; the id is taken out of what is stored; a damaged record reads as none |
| Migrations (`packages/storage/src/index.ts`, `migrations/`) | schema version, stores, indexes | open with upgrade, migrate, rollback | a step that throws half way |
| Circuit breaker (`packages/domain/src/circuit-breaker.ts`), used by `offer-api-client.ts` | state, two counters, next attempt time | execute, reset, forceOpen, forceClosed | overlapping calls whose results land in a later state |
| Rate limiter (`packages/domain/src/rate-limiter.ts`) and the two gates built on it (service worker, `ai-explain.ts`) | hits (memory), stored counter | isLimited, isOptimizationRateLimited, isRateLimited | read-modify-write of the counter; restart forgets the hits |
| Content script (`apps/extension/src/content/content-script.ts`) and merchant detector | observer, throttle clock | run, the observer's callback over a batch of mutations | passes overlap; updates dropped by the throttle; the worker dies under a request |
| Popup (`apps/extension/src/popup`) | React state, the stored profile and key | load, forms of the profile, loyalty balances, key, import, reset, explanation, history | each form writes the whole profile it was rendered with; several popups |
| Profile manager (`packages/profile`) | one stored profile | add and remove methods, memberships, vouchers, preferences | get-then-put from several callers |
| Loyalty alerts (`background/loyalty-alerts.ts`) | notifications | daily check, notification | identity of what is notified |
| Checkout monitor (`packages/checkout-monitor`) | callbacks, debounce timer, last cart | start, stop, on, off, mutation, navigation | callbacks that re-enter the loop that calls them |
| Plugins (`packages/plugins`) | two maps | register, unregister, clear, lookup | adapters claimed by two plugins, loads and unloads that throw |
| Stacking engine (`packages/benefits/src/stacking`) | memo | generateStackingCombinations | beam search, early exits, memo |
| Benefit catalog and offer data (`packages/benefits/src/catalog`, `packages/offer-engine`) | graph, cache, dataset | register, query, load bundle | a cache in front of data that changes |
| Telemetry and logger (`packages/domain/src/telemetry.ts`, `logger.ts`) | event queue, timers | record, flush, measure, log | recording during a flush, flushes that overlap or fail; several redactions in a row |
| Optimizer (`packages/optimizer`), rules engine (`packages/rules-engine`), unified optimizer (`packages/benefits/src/ranking`) | none between calls | generate, prune, rank; evaluate offers, rewards, caps | integer rounding, comparisons at boundaries, Pareto pruning |
| Savings reports (`packages/savings`, `SavingsHistory.tsx`), serialization (`packages/domain/src/serialization.ts`), export and import (`packages/export`) | none between calls | totals and queries; write and read | ranges, orders, integers of any size in JSON |

Without behaviour of their own: types and error classes, validation, security,
UI, benchmarks, tools. `packages/resilience` and `packages/observability` repeat
classes of `packages/domain`. `packages/exchange` is a table with a cache.

### 1.2 How they interact

A content script detects a merchant, extracts a cart and sends
OPTIMIZE_PAYMENT. The service worker passes it through the gate (rate limiter,
then stored counter), loads the profile, builds candidates with the optimizer,
the rules engine and the stacking engine, stores the recommendation for the tab
and as a fallback, and answers. The popup reads the fallback, then the tab's
own. The user chooses a strategy and CONFIRM_SAVINGS is sent with an idempotency
key. The worker checks the key, the currency, the daily cap and the leases on
the vouchers involved, enqueues a task, saves the row, marks the task completed
and answers. An alarm each minute, and each startup, drains tasks that were left
behind; another, daily, looks for loyalty balances that expire. The popup's
forms write the profile the worker reads; both write the log of security events.
The coordinator burns vouchers and updates profiles through the repositories.
The offer API is called through the circuit breaker.

### 1.3 What makes each part correct

* Queue and confirm flow: what was accepted is saved or visibly dead; nothing
  saved or settled is taken back; leases are all or nothing; each key gives one
  row.
* Coordinator: a commit leaves all its effects, a rejection none.
* Breaker: every transition is earned by its threshold and none is owed; it
  closes again once the server is well.
* Gates: one life of the worker (of a popup) never serves more than the limit in
  any window, and no refusal without a full window behind it.
* Optimizer: the pruned list is the Pareto front, filtering after it loses
  nothing better, the first answer is the cheapest.
* Stacking: the beam's loss is bounded, and the parts of a result add up to the
  cart.
* Page to popup: a quiet tab has the recommendation for what it shows; the popup
  never goes back; each request ends; the observer starts.
* Stored things: nothing shown that was not saved; nothing stored that the worker
  refuses; nothing half-migrated; events accounted for and without identifiers in
  what is recorded of them; values read as written; imports whole or refused.

The places where these are hard to test are listed one by one, with file and
line, in the hazards of `PROJECT.json`.

## 2. The modules

| Module | Models | Extends or instantiates |
|---|---|---|
| `Collections` | `filter` and `sort`, as functions of sets of places, and sums | |
| `DurableTaskQueue` | the queue's operations on its store | |
| `SavingsOutbox` | the abstract outbox: accept, write, retire, give up | |
| `ConfirmSavings` | CONFIRM_SAVINGS, leases, drains, restarts, time | `DurableTaskQueue`; `SavingsOutbox` as refinement target |
| `TransactionCoordinator` | executeAtomically, its operations and rollbacks | |
| `CircuitBreaker` | the breaker, overlapping calls, the server behind it | |
| `OptimizationGate` | rate limiter and stored counter | |
| `RewardRules` | arithmetic, eligibility, benefits and rewards of the rules engine | |
| `CandidateGenerator` | generateCandidates and the popup's simulator, as operators of a request | `RewardRules` |
| `VoucherCombinations` | eligibility of vouchers and perks, what a combination gives | `Collections` |
| `BenefitStacking` | the stacking engine over calls: exhaustive search, beam, memo | `VoucherCombinations` |
| `UnifiedOptimizer` | each stacking result with each payment method | `CandidateGenerator`, `VoucherCombinations` |
| `StrategySelection` | filterDominated, then rankStrategies, on one request | |
| `MerchantPage` | adapters, the cart of a page, the checks it passes | |
| `Checkout` | content script, OPTIMIZE_PAYMENT, what is stored, the popup's load | `MerchantPage` |
| `CartMonitor` | CartMonitor and its callbacks | |
| `PluginRegistry` | plugins and their adapters | |
| `SchemaMigrations` | the savings database's upgrade, the migration runner | |
| `BenefitCatalog` | benefit graph, catalog with cache, alerts, offer data | |
| `ApiKeyStore` | the key in two storage areas, the settings view | |
| `ProfileStore` | the profile's forms, import, reset, the log of security events | `Collections` |
| `LoyaltyPrograms` | balances, their view, the daily check | |
| `SavingsReports` | queries and aggregates over saved rows | `Collections` |
| `EventLog` | telemetry and logger | |
| `Explanations` | the explanation dialog behind its two limits | |
| `SerializedValues` | the two ways to write values as JSON | |
| `ProfileManager` | read-modify-write of the profile package | `Collections` |
| `StrategyTransfer` | files of strategies, written and read | |
| `MC*` | the instances TLC runs; `MCServices` composes the parts without common state | the modules of those names |
| `Packages_proofs` | theorems about `PluginRegistry`, `SchemaMigrations`, `EventLog`, `CartMonitor`, `BenefitCatalog`, `ProfileManager`, `StrategyTransfer`, `SerializedValues`, and the lemmas about lists and sums | those modules, `TLAPS` |
| `Selection_proofs` | theorems about `StrategySelection` and `BenefitStacking` | those modules, `Packages_proofs` |
| `Popup_proofs` | theorems about `ApiKeyStore`, `ProfileStore`, `Explanations`, `SavingsReports` | those modules, `Packages_proofs` |
| other `*_proofs` | theorems and proofs | the module of that name, `TLAPS` |

In all of them a step is what runs between two awaits. JavaScript runs that
much without interruption; at every await any other handler, drain or call may
run, or the worker may be killed.

### 2.1 DurableTaskQueue and ConfirmSavings

`task` is the IndexedDB store `tasks`: status, attempts, and the ticks left
until `nextAttemptAt` (a relative time, so that no clock grows). `ledger` is the
set of rows in the savings store. The code draws a fresh random id for the entry
and the task of each delivery, so both are named by the delivery (a *confirm*),
and two confirms may carry one key. `handler[c]` says at which await delivery
`c` is, or how it was answered; `range[c]` the entries dated inside its cap
query, fixed when the query is issued, while the rows are read when it answers;
`today` the entries dated today, which `Midnight` empties. `processed` and
`lease` are the two module-level maps of the worker; `drain[k]` is a run of
`drainDurableQueue` with the tasks it still has to do.

| Code | Actions |
|---|---|
| idempotency and currency guards | `AnswerAtOnce` |
| `queryByMerchantAndDateRange` | `StartCount`, then `Refuse`, `Admit`, `CountFails` |
| `acquireBurnLeases` | `Locked`, `AcquireBurnLeases`; pruning in `LeaseAfterTick` |
| `persistConfirmedSavings` | `EnqueueCommits`, `SaveCommits`, `MarkCommits` |
| catch of `saveConfirmedOptimization` | `EnqueueFails`, `SaveFails`, `MarkFails`: all of them end in `Acknowledge` |
| a transaction that aborts unheard | `HandlerHangs`, `DrainAbandons` |
| `drainDurableQueue` | `DrainClaims`, `DrainTakes`, `DrainSaves`, `DrainSaveFails`, `DrainCompletes`, `DrainCompleteFails`, `DrainRecordsFailure`, `DrainAbandons` |
| kill and wake of the worker | `WorkerRestarts` |

`SavingsOutbox` is what the header comments promise: accept durably, write what
was accepted, retire what was written, or give it up visibly. `ImplementsOutbox`
maps `accepted` to the stored tasks, `written` to the ledger, `retired` to the
completed and `dead` to the dead-lettered ones.

### 2.2 TransactionCoordinator

`store` holds the records of the three repositories; a call `x` has a `phase`,
the number `done` of completed operations, and `saved`, the rollback data, which
the code keeps in `completedResults` and in the results of each operation. A
burn or an update is a `Get` and a `Write`, two transactions of IndexedDB; a
saved row is one put. Any call may reject (`OperationRejects`, `UndoRejects`),
an acknowledged put may be lost when its transaction aborts (`WriteIsLost`), the
deadline may have passed before any operation but the first (`TimesOut`), and the
worker may die (`WorkerDies`). `before` and `disturbed` are history variables:
the properties speak of calls whose records nobody else wrote meanwhile, because
the code has no isolation; `BurnsAreAtomic` shows what that costs.

### 2.3 CircuitBreaker

`state` and the two consecutive counters are the class's fields, and `wait` is
`nextAttemptTime` as the ticks left until it. `call` holds the calls in flight,
each of them sound or doomed, a doomed one having met an outage of the `service`.
`evidence` is history: the results in a row since the state was entered.
`OnSuccess` and `OnFailure` are the code's handlers with the transitions they
make; `ForceOpen`, `ForceClosed` (and `reset`) are the manual interventions.

### 2.4 OptimizationGate

`hits` is the memory of `RateLimiter`, `stored` the counter in
`chrome.storage.local`. `Arrive` is the in-memory gate, `StorageReads` the
moment the browser serves the read, `Decide` the callback, whose notion of now
was taken before the read. `phase` keeps apart the two ways to be refused.

### 2.5 RewardRules, CandidateGenerator, UnifiedOptimizer, StrategySelection

OPTIMIZE_PAYMENT builds candidates, prunes and ranks them. The rules engine and
`generateCandidates` have no state and are operators: `Candidates(r)` is the set
of strategies of a request `r`, each with the amounts, the confidence and the
complexity the code reports. `Simulations` is what the Dashboard's simulator asks
for, with the demonstration offer and coupon of the card catalog. `Strategies`
is the unified optimizer: each result of the stacking engine, paid with each
method. All money is in the cart's currency (the code throws on another), fees
are zero, as `calculatePaymentFees` returns them, and an optional field is a set
of at most one value. The code's id is a string that ends in a running number;
here it is a number of the candidate's place.

`StrategySelection` takes the requests as a constant, so that its theorems hold
whatever makes the candidates. A step is one round of the pruning loop
(`Consider`, with the early exit and the removal of accepted strategies of the
same cost) or the next place of the sorted answer (`Rank`). The sort by cost is
stable, so equal costs keep an order that depends on profile and offers: it is
any order in the model.

### 2.6 VoucherCombinations, BenefitStacking

`VoucherCombinations` has what is pure: eligible vouchers in descending value,
what one voucher takes off a total, the results of a combination with a perk or
without. `BenefitStacking` has the searches over several calls of one engine,
whose memo and beam widths are fields of it. A step is one candidate of the inner loop
or one place that `selectTopK` fills; `greedy` is history, what burning the
vouchers in order would have saved so far. `NearlyBest` bounds the beam's loss by
the bonus of ten percent for vouchers about to expire, and `GreedyIsBest` shows
that the yardstick is the right one.

### 2.7 MerchantPage, Checkout

A *pass* is one asynchronous activity of a content script: the first run, or the
observer's callback over a batch of mutations. It takes the page as it is, sends
the cart and waits; the handler it starts in the worker is part of the pass
(`gate`, `profile`, `session`, `cache`, then `answered`). `session[t]` is the
recommendation of a tab, `cached` the fallback, `popup` the popup's loadState
with its two reads. `excuses` is history: the reasons a tab may be without the
recommendation for what it shows (unobserved, throttled, nothing to buy,
refused, overlap). `GateNeverAnswers` is the promise in the rate limit that is
never settled; `WorkerRestarts` closes the channel of each request in the
worker; `BrowserRestarts` empties session storage.

### 2.8 Storage of the popup: ProfileStore, ApiKeyStore, LoyaltyPrograms, ProfileManager

`ProfileStore` has the stored profile, any number of popups, and the log of
security events. A form starts from the profile its popup shows; the write is
issued at once and the popup takes it over when it is made, so `writes` is a
queue, in the order of the storage calls, and several may be under way. `current`
says that the popup read or wrote the profile and no other popup wrote since; a
read that fails leaves a popup that is neither current nor onboarded, over a
profile that is stored (`LoadState`). The import and the reset
of Diagnostics are actions of their own, the reset in its two steps (clear, then
put the log back). `logging` holds what each overlapping `logSecurityEvent` has
read. `renders` is FALSE for what React does with `App.tsx`, whose hooks come
after early returns: a popup with a complete profile throws at its first full
render. Both values are explored, so that the handlers behind the crash are
checked as well.

`ApiKeyStore` has each call of `storeApiKey` and `revokeApiKey` as a task of two
storage calls, served in order. The view holds a text, the tasks its trimmed form.
`LoyaltyPrograms` has the view, the repository
whose `getAll` hands out records without an id, the daily check and its
notifications. `ProfileManager` has the calls of several callers, each a read
and a write of a record with a hash; one whose hash does not fit reads as none.
`done` is history: what the last write had read, what it wrote over, and whether
another write came between its read and its write (`alone`). Calls do undo each
other; `WritesTakeEffect` says what one write may change, and when only.

### 2.9 The other services

`CartMonitor` holds the loop over the callbacks in `delivery`: what has been
called, who was registered throughout (`stays`), whether one was removed.
`PluginRegistry` has `unloaded` and `rivals` as history: the merchants that the
load of a registered plugin never got to, and the plugins that were registered or
unregistered after it (itself, when its own unload threw, which leaves it
registered without adapters). `SchemaMigrations` has the database (version,
store, indexes) and, apart from it, a runner over any set of migrations of which
some throw and some cannot be undone; what stands under `db.transaction` is a
constant, the browser's or the tests' stand-in's. `BenefitCatalog` remembers
when each edge was registered, so that an answer can be dated. `SavingsReports`
states its aggregates as operators over the rows; `recordedIn` says what the savings
package's repository finds in the database it opens at version 1: rows of its own,
the worker's raw rows, out of which it takes an undefined entry each, or a
database of version 2, which it cannot open. `EventLog` has an event's
properties and metadata as leaves with their path and type, and each redaction as
an operator on leaves; a flush has a beginning and an end, several may be under way,
and one whose logger throws puts all it took back. `retried` and `dropped` are
history. `Explanations` has clicks that overlap, in popups that close, with or
without a best strategy to ask about, and answers that are blank.
`SerializedValues` has a field's value as kind and text, with the look-alikes a
reviver takes for integers. `StrategyTransfer` reads a file row by row;
what an amount stands for is told by the currency's minor unit (`MinorDivisor`),
and what the importer makes of it by its hundredths (`ParseAmountMinor`).

## 3. What each run checks

| Run | Config | Shows |
|---|---|---|
| confirm_safety | `ConfirmSavings.cfg` | `NothingStranded`, `LeasesAreWhole`, `NothingUndone`, `ImplementsOutbox` |
| confirm_live | `ConfirmLive.cfg` | `RetriesSettle` under fairness |
| txn | `TransactionCoordinator.cfg` | `AllIfCommitted`, `NothingIfFailed` |
| breaker | `CircuitBreaker.cfg` | `NoOverdueTransition`, `EvidenceBased`, `Recovers` |
| gate | `OptimizationGate.cfg` | `ExactPerLife`, `RefusalsAreEarned` |
| selection | `StrategySelection.cfg` | `ParetoFront`, `NothingBetterIsLost`, `TopIsCheapest` |
| checkout | `Checkout.cfg` | `SettledIsCurrent`, `PopupNeverGoesBack`, `StoredMayBeConfirmed`, `EveryRequestEnds`, `ObserverStarts` |
| services | `Services.cfg` | twenty properties of the parts that share no state, below |
| dup_row | `OneRowPerKey.cfg` | **violated**: two deliveries of a key save two rows |
| burns_atomic | `BurnsAreAtomic.cfg` | **violated**: of two concurrent burns one is lost |
| migration | `UpgradeSucceeds.cfg` | **violated**: in a browser the savings database does not open at version 2 |
| loyalty_ids | `EveryExpiryIsShown.cfg` | **violated**: of two balances that are due one notification is left |

The four violated properties state a sentence of the repository's comments or
docs, quoted in the findings of `PROJECT.json`.

`MCServices` has one variable more than its parts, `part`: a behaviour is one of
a single part, and the variables of all others stay at one initial state. The
parts share no state and exchange nothing, so that running two side by side
would only multiply states. The profile is run three times: without the log of
security events and one write of each popup at a time (`profile`), with several
writes of each popup that change the cards (`overlaps`), and with the log but
without writes of the profile (`log`), since the two meet in the reset alone.

| Part | Properties |
|---|---|
| stacking engine | `NearlyBest`, `GreedyIsBest`, `ResultsAddUp` |
| cart monitor | `EventReachesAll` |
| plugins | `AdaptersAreOwned` |
| migrations | `NeverHalfMigrated` |
| catalog, alerts, offers | `AnswersAreRecent` |
| settings | `SettingsShowTheKey` |
| profile, and the log of events | `ShownIsSaved`, `StoredIsUsable`, `EventsSurvive` |
| loyalty | none here: it is explored for the completeness of its actions; its question is the run loyalty_ids |
| reports | `ReportsAddUp`, `QueriesMatch` |
| telemetry and logger | `EventsAreAnonymous`, `EventsAreAccountedFor` |
| explanations | `QuietDialogAnswers`, `CallsArePaced` |
| serialization | `ReadAsWritten` |
| profile manager | `WritesTakeEffect` |
| imports | `ImportsAreWhole` |

Type invariants (`TypeOK`, or the types in an inductive invariant) are proved
where a module has proofs, and not run; every run evaluates the assumptions of
the modules it extends.

### Bounds

* Confirm, safety: two confirms that share a voucher and a merchant but not a
  key, two symmetric drains, two attempts, a lease of two ticks, one disruption (a
  kill, a hang or a failed status update; failed enqueues and saves are not
  bounded). The handler and both drains can meet on one task, in each order; two
  attempts are the least that has both a retry and a dead letter.
* Confirm, liveness: three confirms (a redelivery of the first, and a
  cross-currency one), one drain, two disruptions. One drain is the worst case
  for progress: nobody else can take its work.
* Violations use the smallest instance that shows them, with no disruption where
  none is needed.
* Coordinator: two calls over a shared voucher and a shared profile, of three
  and four operations, one of which burns the voucher twice, so that the order
  of compensation matters; two faults, so that a rollback can fail too.
* Breaker: three calls, thresholds of two, two outages, one manual
  intervention. Results of two earlier states can land in a third.
* Gate: four requests with a limit of two, a window of two ticks, six instants,
  two lives. Twice the limit is what one restart may let through.
* Selection: generated requests have one or two payment methods (a credit card
  with two rules, an exclusion, a period cap and a milestone; a debit card;
  UPI), up to four coupons and two offers against limits of two, discounts with
  and without caps, vouchers and perks for the unified optimizer, and carts whose
  total is the subtotal or below it. Simulated requests have the amounts around
  each threshold of the demonstration offer and coupon. Mixed pools are any up to
  four of a grid of twelve candidates, two costs by three complexities (one too
  high) by two confidences (one too low): four are enough for a strategy that
  ousts one of its cost while a third, cheaper, waits. Rates are in hundredths in
  the runs, millionths in the code.
* Checkout: one tab, whose script has a first run and one batch of at most two
  mutations, one change of the page, a page priced in a currency that cannot be
  confirmed, one without a price and one of too many digits; two instants and an
  interval of 0, which throttles the second of two updates at one instant; one
  fault. Two passes are what overlapping takes. Tabs meet in the fallback only,
  which any other tab may overwrite at any time (`Elsewhere`), so one tab is
  enough for the runs; the proofs are for any number.
* Services: six vouchers with a beam of two and stacks of two exceed every
  limit of the search at once, and a second call meets what the first left; two popups
  (symmetric) with one write each under way or two that change the one card, and two
  overlapping reads of the log whose length is bounded by one; three plugins, the
  second of which shares a merchant with each of the others, two of which may throw in load and in
  unload; three migrations; three events against a queue of two, with two flushes
  under the code's logger and under one that shows everything as JSON, of which a
  bigint makes one fail; three clicks; three rows, two where the savings package
  cannot read them (`FewRows`); two symmetric callers of the profile manager with
  three calls, a fault, and lists of two vouchers or payment methods at most
  (`MaxVouchers`); files of two rows, one of which may be the bad one.

### Fairness

`ConfirmSavings`: the alarm fires every minute and wakes the worker, so a drain
that can claim does (`WF` of `DrainClaims`); a request of IndexedDB in a drain
settles, well or badly (`WF` of `DrainStep`); time passes. Handlers need no
fairness, and no write need ever succeed. `CircuitBreaker`: calls end, because
the client aborts them at a deadline; the user keeps asking; time passes; the
server that is up stays up once the bounded outages are over. `Checkout`: a
storage call that was issued is answered, well or badly (`WF` of `WorkerStep`,
which has the refusals), and an answer, or the closing of the channel, reaches
the page (`WF` of `Resume`). Nothing is assumed of users, tabs or the popup.

## 4. What is proved

Every theorem is for all values of the constants that satisfy the named
assumptions of its module.

* `ConfirmSavings_proofs`: `TypeCorrect`, `NeverStranded`, `NeverUndone`,
  `LeasesWhole`, and `Refinement` (the flow implements `SavingsOutbox`).
  `NothingStranded` alone is not inductive: a drain that is about to complete a
  task must already have saved its row, and a handler must not enqueue a task
  somebody holds. The invariant `IInv` adds `HandlerInv` (what each await of a
  handler knows of its own task and row), `DrainInv` (a drain's tasks are stored,
  and the one it completes is saved) and `FreshTasks` (a stored task's delivery
  is past its enqueue).
* `TransactionCoordinator_proofs`: `TypeCorrect`, `AllIsApplied`
  (`AllIfCommitted`), `Compensated` (`NothingIfFailed`). What a commit must leave,
  `Effect`, is a recursive function over the operations; that such a function has
  the values of its equation is proved first, from the well-foundedness of the
  natural numbers (`ProgressFacts`). Then `Applied` is inductive: an undisturbed
  call's records are what its first `done` operations make of what it found, and
  between its get and its put an update still holds what is stored. For the
  second half the invariant `CallInv` says, for an undisturbed call,
  that every record its first `done` operations do not touch is as it was
  before (`Untouched`), that the rollback data of the first operation on each
  record is the value from before (`FirstSaved`), and what the call is about to
  write (`InStep`); rolling back in reverse ends with that first value.
* `CircuitBreaker_proofs`: `NeverOverdue`, `MovesOnEvidence`, from
  `CountersAreEvidence`, which ties both counters to the outcomes seen in the
  current state.
* `OptimizationGate_proofs`: `TypeCorrect`, `LimitedPerLife`, `EarnedRefusals`.
  `Memory` says that `hits` holds all requests of this life still in the window,
  `TakenPerLife` that any window of a life holds at most the limit, `Counted` that
  a stored or read counter never exceeds the requests allowed since its window
  began. Lost updates keep all three: they only make the counter smaller.
* `Selection_proofs`, on strategies: `TypeCorrect`, `KeepsTheFront`,
  `LosesNothingBetter`, `CheapestOnTop`. The front is not inductive as stated:
  `IInv` has instead that nothing considered costs more than anything that
  remains (`CheapestFirst`), that no accepted strategy dominates another (`Antichain`),
  and that each one considered is accepted or dominated by one that is
  (`Covered`); a strategy is removed only for one that dominates it, and dominance
  is transitive. What dominates an acceptable strategy is acceptable, so the
  filter after the pruning loses nothing. `CheapestOnTop` needs cost and benefit
  to add up to the total, which section 5 shows can fail.
* The same module, on vouchers: `BeamIsNearlyBest`, `OrderIsBest` and
  `PromisesAddUp`, from `StackingInv`. Something in the beam or the pool always
  scores as high as burning the vouchers in order (`LevelIsKept`): the next voucher
  is added to it, or it is closed and has saved everything or as many vouchers as
  it may. The bonus for expiry is a tenth of what is saved at most, or the cart is
  covered, which gives ten elevenths. A memo hit would break this, for it also
  replaces the candidate without the voucher; so the invariant has that none ever
  happens: no combination is held twice (`PartsAreFound`, `PoolIsOfBeam`) and the
  memo knows only what has been through the loop (`MemoIsOfPast`). What was burned
  in order is a sum over the first vouchers (`GreedyIsSum`), and no sum of as many
  values is greater (`FirstsAreMost`, by a smallest set that were an exception).
* `Checkout_proofs`: `QuietTabsAreCurrent`, `PopupMovesForward`, from
  `CheckoutInv`: nothing known of a tab is newer than what it shows
  (`NothingNewer`); requests that do not overlap are stored in the order of the
  changes, the fallback behind the tab's own (`StoredInOrder`); without an excuse
  what the page shows is being asked for or is stored (`CurrentIsAsked`); and what
  the popup has read is ordered in the same way (`PopupReads`). Overlap must be
  excused from then on, because a late answer may be stored at any time.
* The same module: `StoredPasses` (`StoredMayBeConfirmed`), from `OnlyChecked`:
  what is asked for, in the worker or stored has passed the checks of the cart,
  and those imply the schema of the confirmation but for its currencies.
* `Packages_proofs`, on the plugins: `AdaptersOwned`, which is inductive with the
  types of the registry (`RegistryInv`): whatever takes an adapter from a registered
  plugin makes its author a rival of that plugin in the same step.
  On the migrations: `WholeMigrations`, from `MigrationInv`. That a failed runner
  has applied a prefix needs the first migration that throws, which exists because
  a nonempty finite set of numbers has a least and a greatest element.
* On telemetry: `EventsStayAnonymous` and `EventsStayAccountedFor`, from `EventInv`.
  No redaction makes anything readable that was not (`BlankKeeps` and the lemmas on
  each pass). The events that no failed flush took ascend in the queue and in the
  lines, the latter below the former (`QueueInOrder`, `LinesInOrder`); what a flush
  will put back is noted in `retried` (`FlushesAreNoted`), so that putting it in
  front disturbs neither; and every event is in a line, the queue, a flush that failed
  or among the dropped (`NoneIsLost`).
* On the cart monitor: `EventsReachTheCallbacks`. While nothing is removed, all
  registered callbacks before the loop's place have been called (`MonitorInv`).
* On the catalog: `AnswersStayRecent`. Each remembered answer lies between what was
  known when it was asked and what is known to the graph, which only grows
  (`KnownGrows`), and the dataset in use is the last one accepted (`OneBundle`).
* On the profile manager: `WritesDoTheirs`. `ManagerInv` has the shape of records and
  of calls, which hold what they read until they write it, changed, and that what a
  call has read is still stored while no other has written in the middle of it.
* On imports: `ImportsStayWhole`. A read prefix has a strategy per row under an id
  of its own; a decimal text is read as the minor units it stands for, whatever
  its number of digits (`PaddedDigits`).
* On serialization: `ValuesAreReadAsWritten`, from `ValuesInv`: the file has the
  datum in one of the two encodings (`FileIsOfDatum`), and each reader undoes its
  own on every value it cannot mistake (`RevivedAsWritten`, `UnsuffixedAsWritten`).
* `Popup_proofs`: `SettingsFollowTheKey`. Changes of the key overlap, but each has
  two storage calls served in order, so those at their second call are in front
  (`TasksInOrder`) and the view shows a text of what the last one will leave
  (`ViewFollowsTasks`). `PopupsShowWhatIsSaved` and `FormsStoreUsableProfiles`:
  a popup that no other has written after shows what is stored (`CurrentIsShown`);
  only reading a profile that parses and writing one make a dashboard, and all else
  keeps it or closes it (`DashboardHasProfile`);
  and every profile anywhere is one that the worker accepts, unless it was
  imported (`ProfileTypeOK`). `SecurityEventsSurvive`: the log is in storage, in the
  hands of a reset, or about to be overwritten by one (`LogIsSomewhere`).
  `DialogsAnswer`: a dialog that loads has a call under way, and one that does not
  has answered or had nothing to ask about (`SomeCallRemains`).
  `PopupsArePaced`: the calls let through by the limiter in memory, those that have
  yet to pass the one in storage included, are at most the limit in any window
  (`Paced`), and those that still count are remembered (`MemoryCounts`).
  On the reports: `BreakdownsAddUp` and `QueriesFindMatches`, from `ReportsInv`, which
  has no two rows with one id. Each list that a query or a group gives has the rows of
  a set, each one once (`Enumerates`), so that its total is the sum over that set
  (`ListTotal`), and the sets of a breakdown are parts of all rows (`SumOfParts`).

The assumptions on the constants say what the code's inputs are: among them, a
date that can be read is a number (`CatalogAssumption`), a perk of the built-in
catalog is a share of an amount or a fixed one (`PerkIsShare`), and an amount in a JSON
file is an integer, for `BigInt` refuses anything else (`UploadAssumption`).

The proofs about sums (`SumOver` in `Packages_proofs`) first show that the fold of the
library has an equation: for any finite set there is a function that adds one
element at a time, and the fold is one. The proofs about lists rest on
`Collections`: a list that is filtered or sorted is given by the order of the places
kept, which exists and is unique because each place has another number of places
before it. The operators of the standard library for the same purpose cannot be
unfolded by the provers.

Only model-checked: liveness (`RetriesSettle`, `Recovers`, `EveryRequestEnds`,
`ObserverStarts`), which the prover cannot do under fairness; and what is a
calculation over data without an invariant of its own (`CandidateGenerator`,
`UnifiedOptimizer`), for which the runs compare with a reference over bounded inputs.

## 5. Divergences from the repository's words

The four runs above that end in a violation are the findings. Modelling met
others, which no run of this project is spent on:

* A failed enqueue is swallowed (`service-worker.ts:339`) and the page is still
  told CONFIRMED, although :335-337 says that failures propagate.
* The daily cap is counted before the awaits that end in the save
  (`service-worker.ts:574`), so two confirmations share the last slot; the same
  check-then-act as the duplicate row.
* The comment at `service-worker.ts:166-168` bounds the gate by 2N-1 requests
  under race. Concurrent updates of the counter lose counts, so the stored window
  need not be full when a restart empties the memory, and 2N are served.
* `generator.ts:178` compares an amount already net of discounts with the sum of
  all benefits, so a discount of half the cart makes the effective cost of a
  direct payment nothing; :175 has the formula that is meant.
* A saved row's `savings` is the total less the benefit, that is, the amount
  paid (`service-worker.ts:297-299`), and the reports add that up.
* `App.tsx` calls hooks after early returns, so a popup that loads a complete
  profile renders more hooks than before, which React refuses.
* JPY has no minor unit (`CURRENCY_MINOR_EXPONENT`, and "every hardcoded `/100`
  call site must route through minorDivisor()", `packages/domain/src/index.ts:41-46`).
  The prices of pages are read in hundredths whatever the currency; so are the amounts
  of an imported table (`importer.ts:105-118`), whose JPY rows come out a hundred
  times too large, and the exporter divides by a hundred too (`exporter.ts:88-91`).
  `ImportsAreWhole` leaves out JPY rows of tables for this reason. A cart may be in
  JPY, SGD or AED, the money of a confirmed strategy may not
  (`message-schemas.ts:13` and :38).
* A range with one end only is ignored by `SavingsRepository.query`, and the
  history's "last 10 entries" (`SavingsHistory.tsx:28` and :136) are the oldest ten:
  it takes the first ten of a list that is in the order of ids, which begin with the
  time.
* The savings package's repository opens the worker's database at version 1
  (`packages/savings/src/savings-repository.ts:25-29`), which is refused once it is
  at version 2; before, `list` takes `data` out of rows that have none and gives
  an undefined entry for each. Nothing in the extension uses it.
* "What sits in the queue is already safe" (`telemetry.ts:129-133`), but `record`
  redacts the properties alone: an event's `metadata`, which has fields for a user's
  and a session's id (:24-39), is queued as it was given (:221-226). No method of
  the class gives any, and no line shows it; a caller of `record` may.
* A flush that fails puts back all its events, those already put out too, without
  regard to the queue's size (`telemetry.ts:372-376`). The only failure left is a
  logger that writes JSON and meets a bigint: that event is put back and fails every
  flush after, and those in front of it are put out again each time.
* An `unload` that throws (`plugin-registry.ts:85-89`) leaves the plugin registered
  without its adapters, and a plugin that is unregistered takes the adapters of its
  merchants with it, whosever they are (:81-83).
* The button that explains is there without a best strategy too, and then the
  dialog stays without text and without error (`Dashboard.tsx:59`); so it does when
  the answer is blank once trimmed (`ai-explain.ts:186-190`).
* A popup that fails to read the profile asks for one as if there were none
  (`App.tsx:233-237`), and completing that writes over the one that is stored.
* Popups do not learn what another has written, and each form writes the whole
  profile it was rendered with; the profile manager reads and writes without a lock;
  and the two writers of the log of security events read before they write. In all three
  the later write undoes the other: `ShownIsSaved`, `WritesTakeEffect` and
  `EventsSurvive` say what holds all the same.
* Loyalty balances come back without an id, so editing or deleting one fails.
* Files the exporters write are not accepted by the importers, which expect
  another shape.
* The memo of the beam search (`stacking-engine.ts:193`) never has an answer, where
  the comment at :34-39 says "rarely": within a call no set of vouchers is met
  twice, and each call clears it (:314).
* The telemetry of `packages/domain` is complete, but nothing in the extension
  creates it.

## 6. What is not modelled

Rendering, wording and layout; the search for prices in the DOM of foreign
pages; how log lines and CSV files are formatted and quoted; opportunity scores,
which order a list that is sorted again; exchange rates, which nothing uses;
validators, hashing helpers, UI, benchmarks and tools; `packages/resilience` and
`packages/observability`, copies of what is modelled. Library functions without
callers are left out: `DatabaseMigrator`, and `delete` of the savings package's
repository.

What is left to do, in order: two tabs in the run checkout, whose states are too
many today; the loyalty view as a part with properties of its own.
