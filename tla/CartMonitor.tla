---------------------------- MODULE CartMonitor ----------------------------
(***************************************************************************)
(* The CartMonitor of checkout-monitor: it turns mutations of the page and *)
(* navigations into events for registered callbacks.                       *)
(*                                                                         *)
(* The callbacks of one event run one after the other in one turn of the   *)
(* event loop, but each may register or remove callbacks, or stop the      *)
(* monitor, while the loop over them is under way; that loop is what       *)
(* "delivery" holds.  The cart is the code's placeholder.                  *)
(***************************************************************************)
EXTENDS Integers, Sequences, SequencesExt

CONSTANTS
    Callbacks,
    Debounce,        \* debounceMs
    Threshold,       \* minChangeThreshold, in percent
    MaxStarts,       \* bound: calls of start that start
    MaxRegistered,   \* bound: registered callbacks
    MaxMonitorTime   \* bound: the clock

ASSUME MonitorAssumption ==
    /\ {Threshold, MaxStarts, MaxRegistered, MaxMonitorTime} \subseteq Nat
    /\ Debounce \in Nat \ {0}

VARIABLES
    clock,
    monitor,     \* whether it is initialized, its timer, and the last cart, if any
    starts,      \* wrappers of pushState, and listeners: start adds one, stop removes none
    callbacks,
    delivery,    \* the loop over the callbacks, if one is under way
    rounds       \* events that the same navigation still causes

monitorVars == <<clock, monitor, starts, callbacks, delivery, rounds>>

NoTimer == -1
NoDelivery == [at |-> 0, reason |-> "NONE", stays |-> {}, called |-> {}, removed |-> FALSE]

PlaceholderCart == [merchantId |-> "unknown", items |-> 0, total |-> 0]

MonitorInit ==
    /\ clock = 0
    /\ monitor = [initialized |-> FALSE, timer |-> NoTimer, lastCart |-> {}]
    /\ starts = 0 /\ callbacks = <<>>
    /\ delivery = NoDelivery /\ rounds = 0

Busy == delivery # NoDelivery \/ rounds > 0

Registered == ToSet(callbacks)

HasSignificantChange(old, new) ==
    \/ old = {}
    \/ \E cart \in old :
        LET diff == IF cart.total > new.total THEN cart.total - new.total
                    ELSE new.total - cart.total
        IN  \/ diff * 100 > cart.total * Threshold
            \/ cart.items # new.items
            \/ cart.merchantId # new.merchantId

\* triggerCallbacks: the loop starts
Trigger(reason) ==
    /\ delivery' = [NoDelivery EXCEPT
            !.at = 1, !.stays = Registered,
            !.reason = IF HasSignificantChange(monitor.lastCart, PlaceholderCart)
                       THEN "SIGNIFICANT_CHANGE" ELSE reason]
    /\ monitor' = [monitor EXCEPT !.lastCart = {PlaceholderCart},
                                  !.timer = IF reason = "DEBOUNCE" THEN NoTimer ELSE @]

-----------------------------------------------------------------------------
Start ==
    /\ ~Busy /\ ~monitor.initialized /\ starts < MaxStarts
    /\ monitor' = [monitor EXCEPT !.initialized = TRUE]
    /\ starts' = starts + 1
    /\ UNCHANGED <<clock, callbacks, delivery, rounds>>

Stopped == [monitor EXCEPT !.initialized = FALSE, !.timer = NoTimer]

\* a callback may stop the monitor, too
Stop ==
    /\ monitor' = Stopped
    /\ UNCHANGED <<clock, starts, callbacks, delivery, rounds>>

OnCartUpdate(c) ==
    /\ Len(callbacks) < MaxRegistered
    /\ callbacks' = Append(callbacks, c)
    /\ UNCHANGED <<clock, monitor, starts, delivery, rounds>>

\* the first of its registrations goes; the loop's place in the list stays
OffCartUpdate(c) ==
    /\ c \in Registered
    /\ callbacks' = RemoveFirst(callbacks, c)
    /\ delivery' = IF delivery = NoDelivery THEN delivery
                   ELSE [delivery EXCEPT !.stays = @ \ {c}, !.removed = TRUE]
    /\ UNCHANGED <<clock, monitor, starts, rounds>>

\* a mutation that affects the cart: the timer starts anew
Mutation ==
    /\ ~Busy /\ monitor.initialized
    /\ monitor' = [monitor EXCEPT !.timer = clock + Debounce]
    /\ UNCHANGED <<clock, starts, callbacks, delivery, rounds>>

TimerFires ==
    /\ ~Busy /\ monitor.timer # NoTimer /\ clock >= monitor.timer
    /\ Trigger("DEBOUNCE")
    /\ UNCHANGED <<clock, starts, callbacks, rounds>>

\* back, forward or another hash: each listener triggers.  A pushState goes
\* through every wrapper, and each of them dispatches to every listener
Navigation ==
    /\ ~Busy /\ starts > 0
    /\ rounds' \in {starts, starts * starts}
    /\ UNCHANGED <<clock, monitor, starts, callbacks, delivery>>

NextRound ==
    /\ delivery = NoDelivery /\ rounds > 0
    /\ Trigger("PAGE_NAVIGATION")
    /\ rounds' = rounds - 1
    /\ UNCHANGED <<clock, starts, callbacks>>

\* mutant: a callback that throws ends the loop
Deliver_Throws ==
    /\ delivery # NoDelivery
    /\ \/ /\ delivery.at <= Len(callbacks)
          /\ delivery' = [delivery EXCEPT !.at = @ + 1,
                                          !.called = @ \cup {callbacks[delivery.at]}]
       \/ delivery' = NoDelivery
    /\ UNCHANGED <<clock, monitor, starts, callbacks, rounds>>

\* the next callback; if it throws, that is logged.  A list that shrank before
\* the loop's place makes it skip one
Deliver ==
    /\ delivery # NoDelivery
    /\ IF delivery.at <= Len(callbacks)
       THEN delivery' = [delivery EXCEPT !.at = @ + 1,
                                         !.called = @ \cup {callbacks[delivery.at]}]
       ELSE delivery' = NoDelivery
    /\ UNCHANGED <<clock, monitor, starts, callbacks, rounds>>

MonitorTick ==
    /\ ~Busy /\ clock < MaxMonitorTime
    /\ clock' = clock + 1
    /\ UNCHANGED <<monitor, starts, callbacks, delivery, rounds>>

MonitorNext ==
    \/ Start \/ Stop \/ Mutation \/ TimerFires \/ Navigation \/ NextRound \/ Deliver
    \/ \E c \in Callbacks : OnCartUpdate(c) \/ OffCartUpdate(c)
    \/ MonitorTick

MonitorSpec == MonitorInit /\ [][MonitorNext]_monitorVars

-----------------------------------------------------------------------------
(***************************************************************************)
(* An event reaches every callback that stays registered while it is       *)
(* delivered, though one before it throws or the monitor stops, unless one *)
(* is removed in the meantime: then the loop may skip another.             *)
(***************************************************************************)
EventReachesAll ==
    [][delivery # NoDelivery /\ delivery' = NoDelivery =>
        delivery.removed \/ delivery.stays \subseteq delivery.called]_monitorVars
=============================================================================
