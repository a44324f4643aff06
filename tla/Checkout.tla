------------------------------ MODULE Checkout ------------------------------
(***************************************************************************)
(* From a page that changes to what the popup shows: the content script    *)
(* (content-script.ts), the OPTIMIZE_PAYMENT handler of the worker         *)
(* (service-worker.ts) and the popup's loadState (App.tsx).                *)
(*                                                                         *)
(* A pass is one asynchronous activity of a content script: the first run, *)
(* or the callback of the observer over one batch of mutations.  It takes  *)
(* the page as it is, waits for the adapter, sends the cart and waits for  *)
(* the answer; the handler that its request starts in the worker is part   *)
(* of the pass here, since there is exactly one.  Passes overlap freely.   *)
(* Which strategy is recommended is the subject of StrategySelection, and  *)
(* whom the rate limit refuses that of OptimizationGate: here a request    *)
(* may be refused at any time, and a recommendation is the cart it is for. *)
(***************************************************************************)
EXTENDS MerchantPage, FiniteSetsExt

CONSTANTS
    Tabs,
    OtherTab,         \* stands for the tabs that are not modelled
    Batches,          \* observer callbacks of a page that may be under way
    Contents,         \* what pages may show
    First,            \* what each tab shows at first
    Interval,         \* CART_UPDATE_INTERVAL_MS
    ObserverAge,      \* MAX_OBSERVER_AGE_MS
    SessionTtl,       \* five minutes, for a recommendation of the popup's tab
    CacheTtl,         \* RECOMMENDATION_CACHE_TTL_MS
    MaxTime,          \* bound: the clock
    MaxChanges,       \* bound: changes of all pages
    MaxBatch,         \* bound: mutations of a batch
    MaxFaults         \* bound: restarts of the worker, and of the browser

ASSUME CheckoutAssumption ==
    /\ {Interval, ObserverAge, SessionTtl, CacheTtl, MaxTime, MaxChanges, MaxFaults}
            \subseteq Nat
    /\ MaxBatch \in Nat \ {0}
    /\ "run" \notin Batches /\ OtherTab \notin Tabs
    /\ \A t \in Tabs : First[t] \in Contents
    /\ \A c \in Contents : Cardinality(c.price) <= 1 /\ Cardinality(c.site) <= 1

VARIABLES
    now,
    page,       \* each tab's content, with the number of the change that made it
    script,     \* the content script: when it last sent, since when it observes,
                \* and whether the observer waits for the first run
    pass,       \* each tab's passes
    session,    \* recommendation-<tab>, in session storage
    cached,     \* last-recommendation, in local storage
    popup,
    excuses,    \* auxiliary: why a tab's current content may go without a
                \* recommendation; overlapping requests excuse from then on
    faults

vars == <<now, page, script, pass, session, cached, popup, excuses, faults>>

Passes == {"run"} \cup Batches

NoPass == [step |-> "idle"]
NoScript == [loaded |-> FALSE, sent |-> -Interval - 1, since |-> -1, waits |-> FALSE]
Closed == [step |-> "closed"]

Init ==
    /\ now = 0
    /\ page = [t \in Tabs |-> [change |-> 0, content |-> First[t]]]
    /\ script = [t \in Tabs |-> NoScript]
    /\ pass = [t \in Tabs |-> [p \in Passes |-> NoPass]]
    /\ session = [t \in Tabs |-> {}] /\ cached = {}
    /\ popup = Closed
    /\ excuses = [t \in Tabs |-> {"unobserved"}]
    /\ faults = 0

\* what a pass sees of the page
CartOf(t) ==
    LET cart == ExtractCart(page[t].content)
    IN  [tab |-> t, change |-> page[t].change, merchantId |-> cart.merchantId,
         currency |-> cart.currency, total |-> cart.total]

\* the steps at which the worker has the request
InWorker == {"gate", "profile", "session", "cache", "stuck"}

\* new content needs excuses of its own
Lasting(t) == excuses[t] \cap {"overlap"}

MayChange == MapThenSumSet(LAMBDA t : page[t].change, Tabs) < MaxChanges

Observes(t) == script[t].since >= 0 /\ now < script[t].since + ObserverAge

-----------------------------------------------------------------------------
(* The content script.  The adapters of the repository wait for nothing,   *)
(* so a pass takes the page and sends the cart in one step.                *)

Idle(t, p) == pass[t][p].step = "idle"

\* mutant: run fails to start the observer when the channel was closed
Finished_NoObserver(t, p) ==
    /\ pass' = [pass EXCEPT ![t][p] = NoPass]
    /\ script' = IF p = "run" /\ script[t].waits /\ session[t] # {}
                 THEN [script EXCEPT ![t].since = now, ![t].waits = FALSE] ELSE script

\* run: the observer that waits for it starts
Finished(t, p) ==
    /\ pass' = [pass EXCEPT ![t][p] = NoPass]
    /\ script' = IF p = "run" /\ script[t].waits
                 THEN [script EXCEPT ![t].since = now, ![t].waits = FALSE] ELSE script

\* only the callbacks of the observer keep the interval, run does not count
MaySend(t) == now - script[t].sent > Interval

\* the pass sends; requests of one tab may overlap in the worker
Sends(t, p, cart, left) ==
    /\ pass' = [pass EXCEPT ![t][p] =
            [step |-> "gate", cart |-> cart, left |-> left, stamp |-> 0]]
    /\ excuses' = [excuses EXCEPT ![t] =
            IF \E q \in Passes \ {p} : pass[t][q].step \in InWorker
            THEN {"overlap"} ELSE Lasting(t)]

\* the page is loaded: run takes it; the observer starts at once, or after run
\* when the document was still loading
Load(t) ==
    /\ ~script[t].loaded /\ Idle(t, "run")
    /\ \E waits \in BOOLEAN :
        LET cart == CartOf(t)
            over == DetectMerchant(page[t].content).confidence = "NONE" \/ cart.total <= 0
        IN  /\ script' = [script EXCEPT ![t].loaded = TRUE,
                                        ![t].waits = waits /\ ~over,
                                        ![t].since = IF waits /\ ~over THEN -1 ELSE now]
            /\ IF over THEN /\ excuses' = [excuses EXCEPT ![t] = Lasting(t) \cup {"empty"}]
                            /\ UNCHANGED pass
               ELSE Sends(t, "run", cart, 0)
    /\ UNCHANGED <<now, page, session, cached, popup, faults>>

\* the observer's callback takes the page: mutations that do not send are gone
\* through at once, all alike
Callback(t, b, cart, left) ==
    \/ /\ cart.total <= 0
       /\ excuses' = [excuses EXCEPT ![t] = Lasting(t) \cup {"empty"}]
       /\ pass' = [pass EXCEPT ![t][b] = NoPass] /\ UNCHANGED script
    \/ /\ cart.total > 0 /\ ~MaySend(t)
       /\ excuses' = [excuses EXCEPT ![t] = @ \cup {"throttled"}]
       /\ pass' = [pass EXCEPT ![t][b] = NoPass] /\ UNCHANGED script
    \/ /\ cart.total > 0 /\ MaySend(t)
       /\ script' = [script EXCEPT ![t].sent = now]
       /\ Sends(t, b, cart, left)

\* the page changes; the observer's callback takes it, once for each mutation
Change(t) ==
    /\ MayChange
    /\ \E c \in Contents :
        /\ c.host = page[t].content.host
        /\ page' = [page EXCEPT ![t] = [change |-> @.change + 1, content |-> c]]
    /\ IF Observes(t)
       THEN \E b \in Batches, n \in 1..MaxBatch :
                Idle(t, b) /\ Callback(t, b, CartOf(t)', n - 1)
       ELSE /\ excuses' = [excuses EXCEPT ![t] = Lasting(t) \cup {"unobserved"}]
            /\ UNCHANGED <<script, pass>>
    /\ UNCHANGED <<now, session, cached, popup, faults>>

\* another page in the tab: the script is gone, what it asked for is not
Navigate(t) ==
    /\ script[t].loaded /\ MayChange
    /\ \E c \in Contents : page' = [page EXCEPT ![t] = [change |-> @.change + 1, content |-> c]]
    /\ script' = [script EXCEPT ![t] = NoScript]
    /\ pass' = [pass EXCEPT ![t] = [p \in Passes |->
            IF pass[t][p].step \in InWorker THEN [pass[t][p] EXCEPT !.left = 0] ELSE NoPass]]
    /\ excuses' = [excuses EXCEPT ![t] = Lasting(t) \cup {"unobserved"}]
    /\ UNCHANGED <<now, session, cached, popup, faults>>

\* the answer is there, or the channel is closed: the next mutation, if any
Resume(t, p) ==
    LET this == pass[t][p]
    IN  /\ this.step = "answered"
        /\ IF this.left > 0 THEN Callback(t, p, CartOf(t), this.left - 1)
           ELSE Finished(t, p) /\ UNCHANGED excuses
        /\ UNCHANGED <<now, page, session, cached, popup, faults>>

-----------------------------------------------------------------------------
(* The worker's OPTIMIZE_PAYMENT handler                                   *)

At(t, p, step) == pass[t][p].step = step
Goes(t, p, step) == pass' = [pass EXCEPT ![t][p].step = step]
Answered(this) == [step |-> "answered", left |-> this.left]
Answers(t, p) == pass' = [pass EXCEPT ![t][p] = Answered(@)]
Stamped(t, p, step) ==
    pass' = [pass EXCEPT ![t][p].step = step, ![t][p].stamp = now]

\* mutant: no answer to a request that is refused
Refused_Silently(t, p) ==
    /\ UNCHANGED pass
    /\ excuses' = [excuses EXCEPT ![t] = @ \cup {"refused"}]

\* pageError: a code to the page
Refused(t, p) ==
    /\ Answers(t, p)
    /\ excuses' = [excuses EXCEPT ![t] = @ \cup {"refused"}]

\* RATE_LIMITED, or PAYLOAD_REJECTED, or on to the profile
Gate(t, p) ==
    /\ At(t, p, "gate")
    /\ \/ Refused(t, p)
       \/ /\ PreValidateCartJson(pass[t][p].cart) /\ CartSchemaAccepts(pass[t][p].cart)
          /\ Goes(t, p, "profile") /\ UNCHANGED excuses
    /\ UNCHANGED <<now, page, script, session, cached, popup, faults>>

\* the callback of storage.get throws on a failed read, where nothing catches
\* it: the promise is never settled
GateNeverAnswers(t, p) ==
    /\ At(t, p, "gate") /\ faults < MaxFaults
    /\ faults' = faults + 1
    /\ Goes(t, p, "stuck")
    /\ excuses' = [excuses EXCEPT ![t] = @ \cup {"refused"}]
    /\ UNCHANGED <<now, page, script, session, cached, popup>>

\* PROFILE_NOT_CONFIGURED, PROFILE_CORRUPT, or the recommendation is computed
\* and its write to session storage issued
LoadProfile(t, p) ==
    /\ At(t, p, "profile")
    /\ Refused(t, p) \/ (Stamped(t, p, "session") /\ UNCHANGED excuses)
    /\ UNCHANGED <<now, page, script, session, cached, popup, faults>>

Recommendation(t, p) == [cart |-> pass[t][p].cart, at |-> pass[t][p].stamp]

\* mutant: the fallback is written before the tab's own
Store_CacheFirst(t, p) ==
    /\ \/ /\ At(t, p, "session")
          /\ cached' = {Recommendation(t, p)} \/ UNCHANGED cached
          /\ Stamped(t, p, "cache")
          /\ UNCHANGED <<session, excuses>>
       \/ /\ At(t, p, "cache")
          /\ \/ /\ session' = [session EXCEPT ![t] = {Recommendation(t, p)}]
                /\ Answers(t, p) /\ UNCHANGED excuses
             \/ Refused(t, p) /\ UNCHANGED session
          /\ UNCHANGED cached
    /\ UNCHANGED <<now, page, script, popup, faults>>

\* mutant: neither write may fail the request
Store_Swallows(t, p) ==
    /\ \/ /\ At(t, p, "session")
          /\ session' = [session EXCEPT ![t] = {Recommendation(t, p)}] \/ UNCHANGED session
          /\ Stamped(t, p, "cache")
          /\ UNCHANGED <<cached, excuses>>
       \/ /\ At(t, p, "cache")
          /\ cached' = {Recommendation(t, p)} \/ UNCHANGED cached
          /\ Answers(t, p)
          /\ UNCHANGED <<session, excuses>>
    /\ UNCHANGED <<now, page, script, popup, faults>>

\* the recommendation of the tab, where a failure refuses the request; then the
\* fallback, where a failure is logged; then the answer
Store(t, p) ==
    /\ \/ /\ At(t, p, "session")
          /\ \/ /\ session' = [session EXCEPT ![t] = {Recommendation(t, p)}]
                /\ Stamped(t, p, "cache") /\ UNCHANGED excuses
             \/ Refused(t, p) /\ UNCHANGED session
          /\ UNCHANGED cached
       \/ /\ At(t, p, "cache")
          /\ cached' = {Recommendation(t, p)} \/ UNCHANGED cached
          /\ Answers(t, p)
          /\ UNCHANGED <<session, excuses>>
    /\ UNCHANGED <<now, page, script, popup, faults>>

\* another tab gets a recommendation, which is the fallback from then on
Elsewhere ==
    /\ cached' = {[cart |-> [tab |-> OtherTab, change |-> 0, merchantId |-> "other",
                             currency |-> "INR", total |-> MinorUnits(1)],
                   at |-> now]}
    /\ UNCHANGED <<now, page, script, pass, session, popup, excuses, faults>>

\* the worker is killed: whoever waits for an answer learns that the channel is
\* closed; writes that were issued may or may not have been made
WorkerRestarts ==
    /\ faults < MaxFaults /\ faults' = faults + 1
    /\ \E t \in Tabs : \E p \in Passes : pass[t][p].step \in InWorker
    /\ pass' = [t \in Tabs |-> [p \in Passes |->
            IF pass[t][p].step \in InWorker
            THEN Answered(pass[t][p]) ELSE pass[t][p]]]
    /\ excuses' = [t \in Tabs |->
            IF \E p \in Passes : pass[t][p].step \in InWorker
            THEN excuses[t] \cup {"refused"} ELSE excuses[t]]
    /\ UNCHANGED <<now, page, script, session, cached, popup>>

\* the browser is closed and opened: session storage is empty, local is not
BrowserRestarts ==
    /\ faults < MaxFaults /\ faults' = faults + 1
    /\ script' = [t \in Tabs |-> NoScript]
    /\ pass' = [t \in Tabs |-> [p \in Passes |-> NoPass]]
    /\ session' = [t \in Tabs |-> {}]
    /\ popup' = Closed
    /\ excuses' = [t \in Tabs |-> {"unobserved"}]
    /\ UNCHANGED <<now, page, cached>>

-----------------------------------------------------------------------------
(* The popup's loadState                                                   *)

OpenPopup(t) ==
    /\ popup = Closed
    /\ popup' = [step |-> "opened", tab |-> t, fallback |-> {}, shown |-> {}]
    /\ UNCHANGED <<now, page, script, pass, session, cached, excuses, faults>>

Fresh(recommendations, ttl) == {r \in recommendations : now - r.at < ttl}

\* the fallback is of whatever tab was recommended for last
ReadCached ==
    /\ popup.step = "opened"
    /\ popup' = [popup EXCEPT !.step = "cached", !.fallback = Fresh(cached, CacheTtl),
                              !.shown = Fresh(cached, CacheTtl)]
    /\ UNCHANGED <<now, page, script, pass, session, cached, excuses, faults>>

\* and gives way to the one of the popup's tab
ReadSession ==
    /\ popup.step = "cached"
    /\ LET own == Fresh(session[popup.tab], SessionTtl)
       IN  popup' = [popup EXCEPT !.step = "shown", !.shown = IF own = {} THEN @ ELSE own]
    /\ UNCHANGED <<now, page, script, pass, session, cached, excuses, faults>>

\* whatever fails, the popup renders what it has
LoadFails ==
    /\ popup.step \in {"opened", "cached"}
    /\ popup' = [popup EXCEPT !.step = "shown"]
    /\ UNCHANGED <<now, page, script, pass, session, cached, excuses, faults>>

ClosePopup ==
    /\ popup # Closed
    /\ popup' = Closed
    /\ UNCHANGED <<now, page, script, pass, session, cached, excuses, faults>>

Tick ==
    /\ now < MaxTime
    /\ now' = now + 1
    /\ UNCHANGED <<page, script, pass, session, cached, popup, excuses, faults>>

WorkerStep(t, p) ==
    Gate(t, p) \/ LoadProfile(t, p) \/ Store(t, p)

Next ==
    \/ \E t \in Tabs : Load(t) \/ Change(t) \/ Navigate(t) \/ OpenPopup(t)
    \/ \E t \in Tabs : \E p \in Passes :
            Resume(t, p) \/ WorkerStep(t, p) \/ GateNeverAnswers(t, p)
    \/ Elsewhere \/ WorkerRestarts \/ BrowserRestarts
    \/ ReadCached \/ ReadSession \/ LoadFails \/ ClosePopup
    \/ Tick

\* storage answers, and an answer reaches the page
Fairness ==
    \A t \in Tabs : \A p \in Passes : WF_vars(WorkerStep(t, p)) /\ WF_vars(Resume(t, p))

Spec == Init /\ [][Next]_vars
FairSpec == Spec /\ Fairness

-----------------------------------------------------------------------------
Carts == [tab : Tabs \cup {OtherTab}, change : 0..MaxChanges, merchantId : STRING,
          currency : Currencies, total : Int]

Stored == (UNION {session[t] : t \in Tabs}) \cup cached

TypeOK ==
    /\ now \in 0..MaxTime /\ faults \in 0..MaxFaults
    /\ \A t \in Tabs :
        /\ page[t].change \in 0..MaxChanges /\ page[t].content \in Contents
        /\ script[t].since \in -1..now /\ script[t].sent \in -Interval - 1..now
        /\ script[t].waits => script[t].loaded /\ pass[t]["run"] # NoPass
        /\ excuses[t] \subseteq {"unobserved", "empty", "throttled", "refused", "overlap"}
        /\ \A p \in Passes : pass[t][p] # NoPass =>
            /\ pass[t][p].step \in InWorker \cup {"answered"}
            /\ pass[t][p].left \in 0..MaxBatch - 1
            /\ pass[t][p].step \in InWorker =>
                /\ pass[t][p].cart \in Carts /\ pass[t][p].cart.tab = t
                /\ pass[t][p].stamp \in 0..now
        /\ \A r \in session[t] : r.cart.tab = t
    /\ \A r \in Stored : r.cart \in Carts /\ r.at \in 0..now

(***************************************************************************)
(* The pipeline loses what a page shows for five reasons and no other: the *)
(* script did not observe it, the interval dropped it, there was nothing   *)
(* to buy, the worker refused, or requests of the tab overlapped, so that  *)
(* the answer for older content may be written last.  Without one of them, *)
(* a tab where all is quiet has the recommendation for what it shows.      *)
(***************************************************************************)
Quiet(t) == script[t].loaded /\ \A p \in Passes : pass[t][p] = NoPass

SettledIsCurrent ==
    \A t \in Tabs :
        Quiet(t) /\ excuses[t] = {} =>
            \E r \in session[t] : r.cart.change = page[t].change

(***************************************************************************)
(* The popup reads the fallback before its tab's own recommendation, and   *)
(* the worker writes them in the other order: so what the popup shows in   *)
(* the end is never for older content of its tab than the fallback it read *)
(* at first.                                                               *)
(***************************************************************************)
PopupNeverGoesBack ==
    popup.step = "shown" /\ "overlap" \notin excuses[popup.tab] =>
        \A f \in popup.fallback : f.cart.tab = popup.tab =>
            \E r \in popup.shown :
                r.cart.tab = popup.tab /\ r.cart.change >= f.cart.change

(***************************************************************************)
(* The worker would accept the confirmation of every recommendation it has *)
(* stored, but for three currencies: carts may be in JPY, SGD or AED, the  *)
(* money of a confirmed strategy may not.                                  *)
(***************************************************************************)
StoredMayBeConfirmed ==
    \A r \in Stored :
        ConfirmAccepts(r.cart) \/ r.cart.currency \in {"JPY", "SGD", "AED"}

(***************************************************************************)
(* Every request is answered, or the worker never settled the read of its  *)
(* rate limit; storage that answers is enough.                             *)
(***************************************************************************)
EveryRequestEnds ==
    \A t \in Tabs : \A p \in Passes :
        pass[t][p].step \in {"gate", "profile", "session", "cache"} ~>
            pass[t][p].step \in {"idle", "answered", "stuck"}

(***************************************************************************)
(* An observer that waits for the first run starts, also when the worker   *)
(* refuses or dies: only a request that is never answered keeps it from    *)
(* starting.                                                               *)
(***************************************************************************)
ObserverStarts ==
    \A t \in Tabs :
        script[t].waits ~> ~script[t].waits \/ pass[t]["run"].step = "stuck"
=============================================================================
