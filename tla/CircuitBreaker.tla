--------------------------- MODULE CircuitBreaker ---------------------------
(***************************************************************************)
(* The circuit breaker in front of the offer API (circuit-breaker.ts, used *)
(* by offer-api-client.ts).  execute() looks at the state before it calls  *)
(* and counts the result after an await, so a result may land in another   *)
(* state of the breaker than the one that let the call through.            *)
(*                                                                         *)
(* nextAttemptTime is the time left until then.  The two consecutive       *)
(* counters stop at their thresholds: the code only asks whether they have *)
(* reached them.  The totals of getMetrics decide nothing and are left out.*)
(***************************************************************************)
EXTENDS Naturals

CONSTANTS
    Requests,          \* calls that may be in flight together
    FailureThreshold,
    SuccessThreshold,
    Timeout,           \* ticks before a recovery attempt
    MaxOutages,        \* bound: how often the service goes down
    MaxInterventions   \* bound: reset, forceOpen, forceClosed

ASSUME BreakerAssumption ==
    /\ FailureThreshold \in Nat \ {0}
    /\ SuccessThreshold \in Nat \ {0}
    /\ Timeout \in Nat \ {0}
    /\ MaxOutages \in Nat /\ MaxInterventions \in Nat

VARIABLES
    state, consecutiveFailures, consecutiveSuccesses,
    wait,           \* ticks until nextAttemptTime, 0 when undefined or past
    call,           \* calls in flight; a doomed one met an outage
    service,        \* the offer API
    outages, interventions,
    evidence        \* history: results in a row since the state was entered

breaker == <<state, consecutiveFailures, consecutiveSuccesses, wait>>
vars == <<state, consecutiveFailures, consecutiveSuccesses, wait, call,
          service, outages, interventions, evidence>>

NoEvidence == [bad |-> 0, good |-> 0]

TypeOK ==
    /\ state \in {"CLOSED", "OPEN", "HALF_OPEN"}
    /\ consecutiveFailures \in 0..FailureThreshold
    /\ consecutiveSuccesses \in 0..SuccessThreshold
    /\ wait \in 0..Timeout
    /\ call \in [Requests -> {"idle", "sound", "doomed"}]
    /\ service \in {"up", "down"}
    /\ outages \in 0..MaxOutages
    /\ interventions \in 0..MaxInterventions
    /\ evidence \in [bad : 0..FailureThreshold, good : 0..SuccessThreshold]

Init ==
    /\ state = "CLOSED" /\ consecutiveFailures = 0 /\ consecutiveSuccesses = 0
    /\ wait = 0
    /\ call = [r \in Requests |-> "idle"]
    /\ service = "up" /\ outages = 0 /\ interventions = 0
    /\ evidence = NoEvidence

UpTo(limit, n) == IF n < limit THEN n + 1 ELSE limit

-----------------------------------------------------------------------------
(* The transitions, as the fields they assign.                             *)

TransitionToClosed ==
    /\ state' = "CLOSED"
    /\ consecutiveFailures' = 0 /\ consecutiveSuccesses' = 0 /\ wait' = 0

\* mutant: the successes seen before the recovery attempt are kept
TransitionToHalfOpen_KeepsSuccesses ==
    /\ state' = "HALF_OPEN"
    /\ UNCHANGED <<consecutiveFailures, consecutiveSuccesses, wait>>

TransitionToHalfOpen ==
    /\ state' = "HALF_OPEN"
    /\ consecutiveSuccesses' = 0
    /\ UNCHANGED <<consecutiveFailures, wait>>

\* the caller says which counters it leaves behind
TransitionToOpen == state' = "OPEN" /\ wait' = Timeout

Forget == evidence' = IF state' = state THEN evidence ELSE NoEvidence

-----------------------------------------------------------------------------
(* execute                                                                 *)

\* mutant: the timeout is over but the state is left as it is
Admit_StaysOpen(r) ==
    /\ call[r] = "idle"
    /\ state = "OPEN" => wait = 0
    /\ call' = [call EXCEPT ![r] = IF service = "up" THEN "sound" ELSE "doomed"]
    /\ UNCHANGED <<breaker, service, outages, interventions, evidence>>

\* the call is let through (one that is rejected changes nothing)
Admit(r) ==
    /\ call[r] = "idle"
    /\ \/ state \in {"CLOSED", "HALF_OPEN"} /\ UNCHANGED breaker
       \/ state = "OPEN" /\ wait = 0 /\ TransitionToHalfOpen
    /\ call' = [call EXCEPT ![r] = IF service = "up" THEN "sound" ELSE "doomed"]
    /\ Forget
    /\ UNCHANGED <<service, outages, interventions>>

OnSuccess ==
    IF state = "HALF_OPEN" /\ consecutiveSuccesses + 1 >= SuccessThreshold
    THEN TransitionToClosed
    ELSE /\ consecutiveSuccesses' = UpTo(SuccessThreshold, consecutiveSuccesses)
         /\ consecutiveFailures' = 0
         /\ UNCHANGED <<state, wait>>

\* mutant: a failure while testing the recovery waits for the threshold too
OnFailure_OnlyWhenClosed ==
    /\ consecutiveFailures' = UpTo(FailureThreshold, consecutiveFailures)
    /\ consecutiveSuccesses' = 0
    /\ IF state = "CLOSED" /\ consecutiveFailures + 1 >= FailureThreshold
       THEN TransitionToOpen
       ELSE UNCHANGED <<state, wait>>

OnFailure ==
    /\ consecutiveFailures' = UpTo(FailureThreshold, consecutiveFailures)
    /\ consecutiveSuccesses' = 0
    /\ IF \/ state = "CLOSED" /\ consecutiveFailures + 1 >= FailureThreshold
          \/ state = "HALF_OPEN"
       THEN TransitionToOpen
       ELSE UNCHANGED <<state, wait>>

Succeeds(r) ==
    /\ call[r] # "idle"
    /\ OnSuccess
    /\ call' = [call EXCEPT ![r] = "idle"]
    /\ evidence' = IF state' = state
                   THEN [bad |-> 0, good |-> UpTo(SuccessThreshold, evidence.good)]
                   ELSE NoEvidence
    /\ UNCHANGED <<service, outages, interventions>>

\* an HTTP error, or the request timeout aborts the fetch
Fails(r) ==
    /\ call[r] = "doomed"
    /\ OnFailure
    /\ call' = [call EXCEPT ![r] = "idle"]
    /\ evidence' = IF state' = state
                   THEN [bad |-> UpTo(FailureThreshold, evidence.bad), good |-> 0]
                   ELSE NoEvidence
    /\ UNCHANGED <<service, outages, interventions>>

-----------------------------------------------------------------------------
(* Operators and environment.                                              *)

Intervene ==
    /\ interventions < MaxInterventions
    /\ interventions' = interventions + 1
    /\ evidence' = NoEvidence
    /\ UNCHANGED <<call, service, outages>>

\* reset assigns the same fields as transitionToClosed, and the totals
ForceClosed == Intervene /\ TransitionToClosed

\* forceOpen works in every state and touches no counter
ForceOpen ==
    /\ Intervene
    /\ TransitionToOpen
    /\ UNCHANGED <<consecutiveFailures, consecutiveSuccesses>>

Tick ==
    /\ wait > 0
    /\ wait' = wait - 1
    /\ UNCHANGED <<state, consecutiveFailures, consecutiveSuccesses, call,
                   service, outages, interventions, evidence>>

GoesDown ==
    /\ service = "up" /\ outages < MaxOutages
    /\ service' = "down" /\ outages' = outages + 1
    /\ call' = [r \in Requests |-> IF call[r] = "idle" THEN "idle" ELSE "doomed"]
    /\ UNCHANGED <<breaker, interventions, evidence>>

ComesUp ==
    /\ service = "down"
    /\ service' = "up"
    /\ UNCHANGED <<breaker, call, outages, interventions, evidence>>

Next ==
    \/ \E r \in Requests : Admit(r) \/ Succeeds(r) \/ Fails(r)
    \/ ForceClosed \/ ForceOpen \/ Tick \/ GoesDown \/ ComesUp

Spec == Init /\ [][Next]_vars

(***************************************************************************)
(* Checkout pages keep asking for offers; every fetch settles, because the *)
(* client aborts it at the request timeout; time passes.                   *)
(***************************************************************************)
Fairness ==
    /\ WF_vars(Tick)
    /\ \A r \in Requests : WF_vars(Admit(r)) /\ WF_vars(Succeeds(r) \/ Fails(r))

FairSpec == Spec /\ Fairness

-----------------------------------------------------------------------------
(***************************************************************************)
(* The breaker changes state on evidence gathered in that state alone,     *)
(* whatever late results of earlier states land in between: it opens on    *)
(* FailureThreshold failures in a row since it closed, closes on           *)
(* SuccessThreshold successes in a row since the recovery attempt began,   *)
(* and an open circuit goes nowhere but to a recovery attempt, once the    *)
(* timeout is over (onSuccess, onFailure, the three transitions).          *)
(***************************************************************************)
EvidenceBased ==
    [][interventions' = interventions /\ state' # state =>
        \/ /\ state = "CLOSED" /\ state' = "OPEN"
           /\ evidence.bad + 1 >= FailureThreshold
        \/ state = "OPEN" /\ state' = "HALF_OPEN" /\ wait = 0
        \/ state = "HALF_OPEN" /\ state' = "OPEN"
        \/ /\ state = "HALF_OPEN" /\ state' = "CLOSED"
           /\ evidence.good + 1 >= SuccessThreshold
      ]_vars

(***************************************************************************)
(* A closed circuit has not reached the failure threshold, and a recovery  *)
(* attempt has neither seen enough successes nor a failure: no evidence is *)
(* ever sat on, so a circuit cannot stay closed, or half open, past the    *)
(* result that should have moved it.                                       *)
(***************************************************************************)
NoOverdueTransition ==
    /\ state = "CLOSED" => /\ consecutiveFailures < FailureThreshold
                           /\ evidence.bad < FailureThreshold
    /\ state = "HALF_OPEN" => /\ consecutiveSuccesses < SuccessThreshold
                              /\ evidence.good < SuccessThreshold
                              /\ evidence.bad = 0

(***************************************************************************)
(* Once the service stays up, the circuit ends up closed for good, even    *)
(* though doomed calls of the outage may still fail in the middle of the   *)
(* recovery.                                                               *)
(***************************************************************************)
Recovers == <>[](service = "up") => <>[](state = "CLOSED")
=============================================================================
