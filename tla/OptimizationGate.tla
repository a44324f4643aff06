-------------------------- MODULE OptimizationGate --------------------------
(***************************************************************************)
(* The gate in front of OPTIMIZE_PAYMENT: an in-memory sliding window      *)
(* (RateLimiter), then a counter for a fixed window in chrome.storage that *)
(* outlives the worker (isOptimizationRateLimited).  The counter is read   *)
(* in one message and written in another, and the time a request arrived   *)
(* is taken before the read.                                               *)
(***************************************************************************)
EXTENDS Naturals, FiniteSets

CONSTANTS
    Requests,      \* OPTIMIZE_PAYMENT messages
    MaxRequests,   \* RATE_LIMIT_MAX_REQUESTS
    Window,        \* RATE_LIMIT_WINDOW_MS, in ticks
    Horizon,       \* bound: the last tick
    MaxLives       \* bound: lives of the worker

ASSUME GateAssumption ==
    /\ IsFiniteSet(Requests)
    /\ MaxRequests \in Nat \ {0} /\ Window \in Nat \ {0}
    /\ Horizon \in Nat /\ MaxLives \in Nat \ {0}

VARIABLES
    clock,
    life,      \* which life of the worker this is
    hits,      \* requests in the memory of the RateLimiter
    stored,    \* optimizationRateLimit
    phase,     \* where each request is, or how it was answered: limited by
               \* the memory, or denied by the storage (both RATE_LIMITED)
    seen,      \* the counter as the storage read returned it
    arrival, decision,   \* when a request came and when it was answered
    servedIn   \* history: the life that served a request

vars == <<clock, life, hits, stored, phase, seen, arrival, decision, servedIn>>

Counters == [count : Nat, windowStart : Nat]

\* no counter stored: a window that holds nothing
Unset == [count |-> 0, windowStart |-> 0]

TypeOK ==
    /\ clock \in 0..Horizon
    /\ life \in 1..MaxLives
    /\ hits \subseteq Requests
    /\ stored \in Counters
    /\ phase \in [Requests -> {"new", "reading", "deciding",
                               "allowed", "limited", "denied", "killed"}]
    /\ seen \in [Requests -> Counters]
    /\ arrival \in [Requests -> 0..Horizon]
    /\ decision \in [Requests -> 0..Horizon]
    /\ servedIn \in [Requests -> 1..MaxLives]
    /\ Cardinality(hits) <= MaxRequests
    /\ stored.count <= MaxRequests

Init ==
    /\ clock = 0 /\ life = 1
    /\ hits = {}
    /\ stored = Unset
    /\ phase = [r \in Requests |-> "new"]
    /\ seen = [r \in Requests |-> Unset]
    /\ arrival = [r \in Requests |-> 0]
    /\ decision = [r \in Requests |-> 0]
    /\ servedIn = [r \in Requests |-> 1]

-----------------------------------------------------------------------------
\* mutant: a hit is forgotten one tick early
Live_OffByOne == {r \in hits : clock - arrival[r] + 1 < Window}

\* isLimited prunes the hits outside the window first
Live == {r \in hits : clock - arrival[r] < Window}

Answer(r, answer) ==
    /\ phase' = [phase EXCEPT ![r] = answer]
    /\ decision' = [decision EXCEPT ![r] = clock]

\* the in-memory gate refuses, or takes a hit and asks the storage; the hit
\* stays whatever the storage says
Arrive(r) ==
    /\ phase[r] = "new"
    /\ arrival' = [arrival EXCEPT ![r] = clock]
    /\ servedIn' = [servedIn EXCEPT ![r] = life]
    /\ IF Cardinality(Live) >= MaxRequests
       THEN hits' = Live /\ Answer(r, "limited")
       ELSE /\ hits' = Live \cup {r}
            /\ phase' = [phase EXCEPT ![r] = "reading"]
            /\ UNCHANGED decision
    /\ UNCHANGED <<clock, life, stored, seen>>

\* the browser serves the read; the callback runs later
StorageReads(r) ==
    /\ phase[r] = "reading"
    /\ phase' = [phase EXCEPT ![r] = "deciding"]
    /\ seen' = [seen EXCEPT ![r] = stored]
    /\ UNCHANGED <<clock, life, hits, stored, arrival, decision, servedIn>>

\* mutant: the counter is never started anew
Expired_Never(r) == seen[r] = Unset

\* a request may have been overtaken by one that came later
Expired(r) ==
    seen[r] = Unset \/ arrival[r] > seen[r].windowStart + Window

\* the callback: start a window, refuse, or count one more
Decide(r) ==
    /\ phase[r] = "deciding"
    /\ IF Expired(r)
       THEN /\ stored' = [count |-> 1, windowStart |-> arrival[r]]
            /\ Answer(r, "allowed")
       ELSE IF seen[r].count >= MaxRequests
       THEN Answer(r, "denied") /\ UNCHANGED stored
       ELSE /\ stored' = [seen[r] EXCEPT !.count = @ + 1]
            /\ Answer(r, "allowed")
    /\ UNCHANGED <<clock, life, hits, seen, arrival, servedIn>>

WorkerRestarts ==
    /\ life < MaxLives
    /\ life' = life + 1
    /\ hits' = {}
    /\ phase' = [r \in Requests |->
            IF phase[r] \in {"reading", "deciding"} THEN "killed" ELSE phase[r]]
    /\ UNCHANGED <<clock, stored, seen, arrival, decision, servedIn>>

Tick ==
    /\ clock < Horizon
    /\ clock' = clock + 1
    /\ UNCHANGED <<life, hits, stored, phase, seen, arrival, decision, servedIn>>

Next ==
    \/ \E r \in Requests : Arrive(r) \/ StorageReads(r) \/ Decide(r)
    \/ WorkerRestarts \/ Tick

Spec == Init /\ [][Next]_vars

-----------------------------------------------------------------------------
Allowed == {r \in Requests : phase[r] = "allowed"}

\* requests that came in the window that opens at t
Within(S, t) == {r \in S : t <= arrival[r] /\ arrival[r] < t + Window}

(***************************************************************************)
(* "In-memory bucket is exact per worker instance": whatever the storage   *)
(* answers and however late, one life of the worker allows at most         *)
(* MaxRequests requests of any window (RateLimiter.isLimited).             *)
(***************************************************************************)
ExactPerLife ==
    \A l \in 1..MaxLives, t \in 0..Horizon :
        Cardinality(Within({r \in Allowed : servedIn[r] = l}, t)) <= MaxRequests

\* the hits that the memory held against r, or a superset of them
HitsBefore(r) ==
    {q \in Requests :
        /\ phase[q] \notin {"new", "limited"} /\ servedIn[q] = servedIn[r]
        /\ arrival[q] <= arrival[r] /\ arrival[r] < arrival[q] + Window}

AllowedBefore(r) ==
    {q \in Allowed :
        decision[q] <= decision[r] /\ arrival[r] <= decision[q] + Window}

(***************************************************************************)
(* Nobody is turned away for nothing.  A request that the memory limits    *)
(* found MaxRequests hits of its own life in the window before it; one     *)
(* that the storage denies, MaxRequests requests allowed since the stored  *)
(* window began, at most Window ago.  So the gate opens again for whoever  *)
(* waits, and a lost or stale counter update never refuses too much.       *)
(***************************************************************************)
RefusalsAreEarned ==
    \A r \in Requests :
        /\ phase[r] = "limited" => Cardinality(HitsBefore(r)) >= MaxRequests
        /\ phase[r] = "denied" => Cardinality(AllowedBefore(r)) >= MaxRequests

-----------------------------------------------------------------------------
(* What the comments say and the code does not do.                         *)

=============================================================================
