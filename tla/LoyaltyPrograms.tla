-------------------------- MODULE LoyaltyPrograms --------------------------
(***************************************************************************)
(* Balances of loyalty programs: the view that edits them                  *)
(* (popup/LoyaltyPrograms.tsx), the repository that keeps them             *)
(* (storage/loyalty-repository.ts over storage/base-repository.ts), and    *)
(* the worker's daily check for those that expire (loyalty-alerts.ts).     *)
(*                                                                         *)
(* The base repository takes the id out of the data it stores, and hands   *)
(* out the data: what comes back has no id.  IndexedDB, external, refuses  *)
(* a write or a deletion whose key is undefined.                           *)
(***************************************************************************)
EXTENDS Integers, Sequences, FiniteSets, SequencesExt

CONSTANTS
    LoyaltyIds,     \* the ids that crypto.randomUUID gives out
    Expiries,       \* days on which balances may expire
    MaxDay          \* bound: the day

ASSUME LoyaltyAssumption ==
    "undefined" \notin LoyaltyIds /\ Expiries \subseteq Int \ {0} /\ MaxDay \in Nat

VARIABLES
    today,
    balances,       \* the store: a balance for some of the ids
    view,           \* the popup's view: what it lists, what it edits, its status
    check,          \* the daily check: what it read, and the alerts still to show
    notifications   \* those on the screen; a new one replaces one of its id

loyaltyVars == <<today, balances, view, check, notifications>>

\* the code takes a date that is absent as it takes the epoch
NoExpiry == 0

\* a balance tells by its content apart from others
Balances == [id : LoyaltyIds \cup {"undefined"}, name : LoyaltyIds, expiry : Expiries \cup {NoExpiry}]

ClosedView == [open |-> FALSE, listed |-> {}, editing |-> {}, failed |-> FALSE]

LoyaltyInit ==
    /\ today = 0
    /\ balances = {} /\ notifications = {}
    /\ view = ClosedView
    /\ check = [read |-> {}, alerts |-> <<>>]

\* list, of what put has stored
Listed(b) == [b EXCEPT !.id = "undefined"]

GetAll == {Listed(b) : b \in balances}

Put(b) == {c \in balances : c.id # b.id} \cup {b}

-----------------------------------------------------------------------------
(* The view                                                                *)

LoadBalances ==
    /\ ~view.open
    /\ view' = [ClosedView EXCEPT !.open = TRUE, !.listed = GetAll]
    /\ UNCHANGED <<today, balances, check, notifications>>

HandleEdit(b) ==
    /\ view.open /\ b \in view.listed
    /\ view' = [view EXCEPT !.editing = {b}]
    /\ UNCHANGED <<today, balances, check, notifications>>

\* the form's data becomes a new balance with an id of its own, or the one that
\* was edited, with the id it has; then everything is listed anew.  A write
\* that is refused leaves the form as it is
HandleSubmitLoyalty(expiry) ==
    /\ view.open
    /\ \/ /\ view.editing = {}
          /\ \E i \in LoyaltyIds :
                /\ \A b \in balances : b.id # i
                /\ balances' = Put([id |-> i, name |-> i, expiry |-> expiry])
          /\ view' = [view EXCEPT !.listed = GetAll', !.failed = FALSE]
       \/ \E b \in view.editing :
            IF b.id = "undefined"
            THEN view' = [view EXCEPT !.failed = TRUE] /\ UNCHANGED balances
            ELSE /\ balances' = Put([b EXCEPT !.expiry = expiry])
                 /\ view' = [view EXCEPT !.listed = GetAll', !.editing = {}, !.failed = FALSE]
    /\ UNCHANGED <<today, check, notifications>>

HandleDeleteLoyalty(b) ==
    /\ view.open /\ b \in view.listed
    /\ IF b.id = "undefined"
       THEN view' = [view EXCEPT !.failed = TRUE] /\ UNCHANGED balances
       ELSE /\ balances' = {c \in balances : c.id # b.id}
            /\ view' = [view EXCEPT !.listed = {c \in @ : c.id # b.id}, !.failed = FALSE]
    /\ UNCHANGED <<today, check, notifications>>

\* handleCancel, or the popup is closed
LeaveView ==
    /\ view.open
    /\ view' \in {ClosedView, [view EXCEPT !.editing = {}]}
    /\ UNCHANGED <<today, balances, check, notifications>>

-----------------------------------------------------------------------------
(* The daily check                                                         *)

DaysLeft(b) == b.expiry - today

\* within a week, or in the month after
IsAlerted(b) == b.expiry # NoExpiry /\ DaysLeft(b) \in -30..7

\* checkLoyaltyExpiry
CheckLoyaltyExpiry ==
    /\ check.alerts = <<>>
    /\ LET alerted == {b \in GetAll : IsAlerted(b)}
       IN  check' = [read |-> balances, alerts |-> SetToSeq(alerted)]
    /\ notifications' = {}
    /\ UNCHANGED <<today, balances, view>>

\* showLoyaltyExpiryNotifications, one after the other
ShowNotification ==
    /\ check.alerts # <<>>
    /\ LET b == Head(check.alerts)
       IN  notifications' = {n \in notifications : n.id # b.id} \cup {b}
    /\ check' = [check EXCEPT !.alerts = Tail(@)]
    /\ UNCHANGED <<today, balances, view>>

NextDay ==
    /\ today < MaxDay /\ check.alerts = <<>>
    /\ today' = today + 1
    /\ check' = [check EXCEPT !.read = {}]
    /\ notifications' = {}
    /\ UNCHANGED <<balances, view>>

LoyaltyNext ==
    \/ LoadBalances \/ LeaveView \/ CheckLoyaltyExpiry \/ ShowNotification \/ NextDay
    \/ \E b \in view.listed : HandleEdit(b) \/ HandleDeleteLoyalty(b)
    \/ \E e \in Expiries \cup {NoExpiry} : HandleSubmitLoyalty(e)

LoyaltySpec == LoyaltyInit /\ [][LoyaltyNext]_loyaltyVars

-----------------------------------------------------------------------------
\* a balance that the check read, of a date within a week or up to a month ago
Due == {b \in check.read : b.expiry # NoExpiry /\ b.expiry - today >= -30 /\ b.expiry - today <= 7}

(***************************************************************************)
(* What loyalty-alerts.ts says: an alert for each balance "expiring within *)
(* 7 days or already expired", so each that is due is notified of.         *)
(***************************************************************************)
EveryExpiryIsShown ==
    check.alerts = <<>> =>
        \A b \in Due : \E n \in notifications : n.name = b.name
=============================================================================
