----------------------- MODULE CircuitBreaker_proofs -----------------------
(***************************************************************************)
(* Proofs about CircuitBreaker for any thresholds, timeout and number of   *)
(* calls in flight.                                                        *)
(***************************************************************************)
EXTENDS CircuitBreaker, TLAPS

\* the counters are the evidence of the current state, and of no earlier one
CountersAreEvidence ==
    /\ state = "CLOSED" => consecutiveFailures = evidence.bad
    /\ state = "HALF_OPEN" => consecutiveSuccesses = evidence.good

IInv == TypeOK /\ NoOverdueTransition /\ CountersAreEvidence

-----------------------------------------------------------------------------
\* a saturating counter stays in its range and is exact below its limit
LEMMA UpToFacts ==
    ASSUME NEW limit \in Nat, NEW n \in 0..limit
    PROVE  /\ UpTo(limit, n) \in 0..limit
           /\ n + 1 < limit => UpTo(limit, n) = n + 1
           /\ n < limit => UpTo(limit, n) = n + 1
BY DEF UpTo

\* the breaker starts closed and without evidence
LEMMA InitIInv == Init => IInv
BY BreakerAssumption
   DEF Init, IInv, TypeOK, NoOverdueTransition, CountersAreEvidence, NoEvidence

\* letting a call through keeps the invariant (execute, before the await)
LEMMA AdmitStep ==
    ASSUME IInv, NEW r \in Requests, Admit(r)
    PROVE  IInv'
<1> USE BreakerAssumption
<1>1. /\ call' \in [Requests -> {"idle", "sound", "doomed"}]
      /\ UNCHANGED <<service, outages, interventions>>
  BY DEF Admit, IInv, TypeOK
<1>2. CASE state \in {"CLOSED", "HALF_OPEN"} /\ UNCHANGED breaker
  BY <1>1, <1>2 DEF Admit, Forget, breaker, IInv, TypeOK, NoOverdueTransition,
                    CountersAreEvidence
<1>3. CASE state = "OPEN" /\ wait = 0 /\ TransitionToHalfOpen
  BY <1>1, <1>3 DEF Admit, Forget, NoEvidence, TransitionToHalfOpen, IInv, TypeOK,
                    NoOverdueTransition, CountersAreEvidence
<1> QED
  BY <1>2, <1>3 DEF Admit

\* counting a success keeps the invariant, whichever state it lands in
LEMMA SucceedsStep ==
    ASSUME IInv, NEW r \in Requests, Succeeds(r)
    PROVE  IInv'
<1> USE BreakerAssumption
<1>1. /\ call' \in [Requests -> {"idle", "sound", "doomed"}]
      /\ UNCHANGED <<service, outages, interventions>>
  BY DEF Succeeds, IInv, TypeOK
<1>2. CASE state = "HALF_OPEN" /\ consecutiveSuccesses + 1 >= SuccessThreshold
  BY <1>1, <1>2 DEF Succeeds, OnSuccess, TransitionToClosed, NoEvidence, IInv, TypeOK,
                    NoOverdueTransition, CountersAreEvidence
<1>3. CASE ~(state = "HALF_OPEN" /\ consecutiveSuccesses + 1 >= SuccessThreshold)
  <2>1. /\ consecutiveSuccesses' = UpTo(SuccessThreshold, consecutiveSuccesses)
        /\ consecutiveFailures' = 0 /\ UNCHANGED <<state, wait>>
        /\ evidence' = [bad |-> 0, good |-> UpTo(SuccessThreshold, evidence.good)]
    BY <1>3 DEF Succeeds, OnSuccess
  <2>2. /\ UpTo(SuccessThreshold, consecutiveSuccesses) \in 0..SuccessThreshold
        /\ UpTo(SuccessThreshold, evidence.good) \in 0..SuccessThreshold
    BY UpToFacts DEF IInv, TypeOK
  <2>3. state = "HALF_OPEN" => consecutiveSuccesses' < SuccessThreshold
    BY <1>3, <2>1, UpToFacts DEF IInv, TypeOK
  <2>4. state = "HALF_OPEN" => consecutiveSuccesses' = evidence'.good
    BY <2>1 DEF IInv, CountersAreEvidence
  <2> QED
    BY <1>1, <2>1, <2>2, <2>3, <2>4
       DEF IInv, TypeOK, NoOverdueTransition, CountersAreEvidence
<1> QED
  BY <1>2, <1>3

\* counting a failure keeps the invariant, whichever state it lands in
LEMMA FailsStep ==
    ASSUME IInv, NEW r \in Requests, Fails(r)
    PROVE  IInv'
<1> USE BreakerAssumption
<1> DEFINE trips == \/ state = "CLOSED" /\ consecutiveFailures + 1 >= FailureThreshold
                    \/ state = "HALF_OPEN"
<1>1. /\ call' \in [Requests -> {"idle", "sound", "doomed"}]
      /\ UNCHANGED <<service, outages, interventions>>
      /\ consecutiveFailures' = UpTo(FailureThreshold, consecutiveFailures)
      /\ consecutiveSuccesses' = 0
  BY DEF Fails, OnFailure, IInv, TypeOK
<1>2. /\ UpTo(FailureThreshold, consecutiveFailures) \in 0..FailureThreshold
      /\ UpTo(FailureThreshold, evidence.bad) \in 0..FailureThreshold
  BY UpToFacts DEF IInv, TypeOK
<1>3. CASE trips
  BY <1>1, <1>2, <1>3
     DEF Fails, OnFailure, TransitionToOpen, NoEvidence, IInv, TypeOK,
         NoOverdueTransition, CountersAreEvidence
<1>4. CASE ~trips
  <2>1. /\ UNCHANGED <<state, wait>>
        /\ evidence' = [bad |-> UpTo(FailureThreshold, evidence.bad), good |-> 0]
    BY <1>4 DEF Fails, OnFailure
  <2>2. state = "CLOSED" => /\ consecutiveFailures' < FailureThreshold
                            /\ consecutiveFailures' = evidence'.bad
    BY <1>1, <1>4, <2>1, UpToFacts DEF IInv, TypeOK, CountersAreEvidence
  <2>3. state # "HALF_OPEN"
    BY <1>4
  <2> QED
    BY <1>1, <1>2, <2>1, <2>2, <2>3
       DEF IInv, TypeOK, NoOverdueTransition, CountersAreEvidence
<1> QED
  BY <1>3, <1>4

\* interventions, the clock and the service keep the invariant
LEMMA OtherSteps ==
    ASSUME IInv,
           ForceClosed \/ ForceOpen \/ Tick \/ GoesDown \/ ComesUp \/ UNCHANGED vars
    PROVE  IInv'
<1> USE BreakerAssumption
<1>1. CASE ForceClosed \/ ForceOpen
  BY <1>1 DEF ForceClosed, ForceOpen, Intervene, TransitionToClosed, TransitionToOpen,
              NoEvidence, IInv, TypeOK, NoOverdueTransition, CountersAreEvidence
<1>2. CASE Tick
  BY <1>2 DEF Tick, IInv, TypeOK, NoOverdueTransition, CountersAreEvidence
<1>3. CASE GoesDown \/ ComesUp
  <2>1. /\ UNCHANGED <<state, consecutiveFailures, consecutiveSuccesses, wait,
                       interventions, evidence>>
        /\ service' \in {"up", "down"} /\ outages' \in 0..MaxOutages
        /\ call' \in [Requests -> {"idle", "sound", "doomed"}]
    BY <1>3 DEF GoesDown, ComesUp, breaker, IInv, TypeOK
  <2> QED
    BY <2>1 DEF IInv, TypeOK, NoOverdueTransition, CountersAreEvidence
<1>4. CASE UNCHANGED vars
  BY <1>4 DEF vars, IInv, TypeOK, NoOverdueTransition, CountersAreEvidence
<1> QED
  BY <1>1, <1>2, <1>3, <1>4

(***************************************************************************)
(* The inductive invariant: the counters of the breaker are the evidence   *)
(* of its current state.                                                   *)
(***************************************************************************)
THEOREM Invariance == Spec => []IInv
<1>1. IInv /\ [Next]_vars => IInv'
  BY AdmitStep, SucceedsStep, FailsStep, OtherSteps DEF Next
<1> QED
  BY <1>1, InitIInv, PTL DEF Spec

(***************************************************************************)
(* No state of the breaker outlives the evidence that ends it.             *)
(***************************************************************************)
THEOREM NeverOverdue == Spec => []NoOverdueTransition
<1>1. IInv => NoOverdueTransition
  BY DEF IInv
<1> QED
  BY <1>1, Invariance, PTL

(***************************************************************************)
(* The breaker moves on evidence gathered in its current state, whatever   *)
(* late results land (execute, onSuccess, onFailure).                      *)
(***************************************************************************)
THEOREM MovesOnEvidence == Spec => EvidenceBased
<1> DEFINE Earned ==
        \/ /\ state = "CLOSED" /\ state' = "OPEN"
           /\ evidence.bad + 1 >= FailureThreshold
        \/ state = "OPEN" /\ state' = "HALF_OPEN" /\ wait = 0
        \/ state = "HALF_OPEN" /\ state' = "OPEN"
        \/ /\ state = "HALF_OPEN" /\ state' = "CLOSED"
           /\ evidence.good + 1 >= SuccessThreshold
<1>1. IInv /\ [Next]_vars =>
          [interventions' = interventions /\ state' # state => Earned]_vars
  <2> SUFFICES ASSUME IInv, Next, interventions' = interventions, state' # state
               PROVE  Earned
    BY DEF vars
  <2>1. CASE \E r \in Requests : Admit(r)
    BY <2>1 DEF Admit, TransitionToHalfOpen, breaker
  <2>2. CASE \E r \in Requests : Succeeds(r)
    BY <2>2 DEF Succeeds, OnSuccess, TransitionToClosed, IInv, CountersAreEvidence
  <2>3. CASE \E r \in Requests : Fails(r)
    BY <2>3 DEF Fails, OnFailure, TransitionToOpen, IInv, CountersAreEvidence
  <2>4. CASE ForceClosed \/ ForceOpen
    BY <2>4 DEF ForceClosed, ForceOpen, Intervene, IInv, TypeOK
  <2>5. CASE Tick \/ GoesDown \/ ComesUp
    BY <2>5 DEF Tick, GoesDown, ComesUp, breaker
  <2> QED
    BY <2>1, <2>2, <2>3, <2>4, <2>5 DEF Next
<1> QED
  BY <1>1, Invariance, PTL DEF Spec, EvidenceBased
=============================================================================
