----------------------- MODULE OptimizationGate_proofs -----------------------
(***************************************************************************)
(* Proofs about OptimizationGate for any number of requests, any limit,    *)
(* window and number of lives.                                             *)
(***************************************************************************)
EXTENDS OptimizationGate, FiniteSetTheorems, TLAPS

\* requests that took a hit in life l
Taken(l) ==
    {r \in Requests : phase[r] \notin {"new", "limited"} /\ servedIn[r] = l}

\* the memory holds the hits of this life, and forgets none in the window
Memory ==
    /\ hits \subseteq Taken(life)
    /\ \A r \in Taken(life) : clock < arrival[r] + Window => r \in hits

Times ==
    \A r \in Requests :
        /\ phase[r] # "new" => arrival[r] <= clock /\ servedIn[r] <= life
        /\ phase[r] = "allowed" => decision[r] <= clock

TakenPerLife ==
    \A l \in 1..MaxLives, t \in 0..Horizon :
        Cardinality(Within(Taken(l), t)) <= MaxRequests

AllowedSince(w) == {q \in Allowed : w <= decision[q]}

\* a counter, stored or on its way, never exceeds what was allowed
Backed(c) ==
    c.windowStart <= clock /\ c.count <= Cardinality(AllowedSince(c.windowStart))

Counted ==
    /\ Backed(stored)
    /\ \A r \in Requests : phase[r] = "deciding" => Backed(seen[r])

IInv ==
    /\ TypeOK /\ Memory /\ Times /\ TakenPerLife /\ Counted
    /\ RefusalsAreEarned

-----------------------------------------------------------------------------
\* every set of requests is finite, and a smaller one has fewer elements
LEMMA SubsetsOfRequests ==
    ASSUME NEW T \in SUBSET Requests, NEW S \in SUBSET T
    PROVE  /\ IsFiniteSet(S) /\ Cardinality(S) \in Nat
           /\ IsFiniteSet(T) /\ Cardinality(T) \in Nat
           /\ Cardinality(S) <= Cardinality(T)
BY GateAssumption, FS_Subset, FS_CardinalityType

\* what a step leaves alone: a request that came keeps its arrival and its
\* life, and one that was answered keeps its answer
Frozen ==
    \A q \in Requests :
        /\ phase[q] # "new" =>
              arrival'[q] = arrival[q] /\ servedIn'[q] = servedIn[q]
        /\ phase[q] \notin {"new", "limited"} => phase'[q] \notin {"new", "limited"}
        /\ phase[q] \in {"allowed", "limited", "denied"} =>
              phase'[q] = phase[q] /\ decision'[q] = decision[q]

\* AllowedSince after the step, for a time w taken before it
AllowedAfter(w) == {q \in Requests : phase'[q] = "allowed" /\ w <= decision'[q]}

\* the requests allowed since any time only grow in number
LEMMA AllowedGrows ==
    ASSUME Frozen, NEW w
    PROVE  Cardinality(AllowedSince(w)) <= Cardinality(AllowedAfter(w))
<1>1. AllowedSince(w) \subseteq AllowedAfter(w)
  BY DEF Frozen, AllowedSince, AllowedAfter, Allowed
<1>2. AllowedAfter(w) \subseteq Requests
  BY DEF AllowedAfter
<1> QED
  BY <1>1, <1>2, SubsetsOfRequests

\* a refusal that was earned stays earned
LEMMA RefusalsStay ==
    ASSUME Frozen, RefusalsAreEarned, NEW r \in Requests,
           phase[r] \in {"limited", "denied"}
    PROVE  /\ phase'[r] = "limited" => Cardinality(HitsBefore(r)') >= MaxRequests
           /\ phase'[r] = "denied" => Cardinality(AllowedBefore(r)') >= MaxRequests
<1> USE GateAssumption
<1>1. /\ phase'[r] = phase[r] /\ decision'[r] = decision[r]
      /\ arrival'[r] = arrival[r] /\ servedIn'[r] = servedIn[r]
  BY DEF Frozen
<1>2. HitsBefore(r) \subseteq HitsBefore(r)' /\ HitsBefore(r)' \subseteq Requests
  BY <1>1 DEF Frozen, HitsBefore
<1>3. AllowedBefore(r) \subseteq AllowedBefore(r)' /\ AllowedBefore(r)' \subseteq Requests
  BY <1>1 DEF Frozen, AllowedBefore, Allowed
<1>4. /\ Cardinality(HitsBefore(r)) <= Cardinality(HitsBefore(r)')
      /\ Cardinality(HitsBefore(r)) \in Nat /\ Cardinality(HitsBefore(r)') \in Nat
  BY <1>2, SubsetsOfRequests
<1>5. /\ Cardinality(AllowedBefore(r)) <= Cardinality(AllowedBefore(r)')
      /\ Cardinality(AllowedBefore(r)) \in Nat /\ Cardinality(AllowedBefore(r)') \in Nat
  BY <1>3, SubsetsOfRequests
<1>6. /\ phase[r] = "limited" => Cardinality(HitsBefore(r)) >= MaxRequests
      /\ phase[r] = "denied" => Cardinality(AllowedBefore(r)) >= MaxRequests
  BY DEF RefusalsAreEarned
<1> QED
  BY <1>1, <1>4, <1>5, <1>6

\* a step that takes no new hit keeps every window within the limit
LEMMA NoNewHit ==
    ASSUME TakenPerLife, UNCHANGED <<arrival, servedIn>>,
           \A q \in Requests : phase'[q] \in {"new", "limited"} <=> phase[q] \in {"new", "limited"}
    PROVE  TakenPerLife'
<1>1. ASSUME NEW l \in 1..MaxLives, NEW t \in 0..Horizon
      PROVE  Within(Taken(l), t)' = Within(Taken(l), t)
  BY DEF Within, Taken
<1> QED
  BY <1>1 DEF TakenPerLife

-----------------------------------------------------------------------------
\* nothing is taken and nothing stored at the start
LEMMA InitIInv == Init => IInv
<1> SUFFICES ASSUME Init PROVE IInv
  OBVIOUS
<1> USE GateAssumption
<1>1. Cardinality({}) = 0 /\ IsFiniteSet({})
  BY FS_EmptySet
<1>2. TypeOK
  BY <1>1 DEF Init, TypeOK, Counters, Unset
<1>3. Memory /\ Times /\ RefusalsAreEarned
  BY DEF Init, Memory, Taken, Times, RefusalsAreEarned
<1>4. TakenPerLife
  <2>1. ASSUME NEW l \in 1..MaxLives, NEW t \in 0..Horizon
        PROVE  Within(Taken(l), t) = {}
    BY DEF Init, Within, Taken
  <2> QED
    BY <1>1, <2>1 DEF TakenPerLife
<1>5. Counted
  <2>1. AllowedSince(stored.windowStart) = {}
    BY DEF Init, AllowedSince, Allowed
  <2> QED
    BY <1>1, <2>1 DEF Init, Counted, Backed, Unset
<1> QED
  BY <1>2, <1>3, <1>4, <1>5 DEF IInv

-----------------------------------------------------------------------------
\* the type of the state is kept by every step of a request
LEMMA ArriveTypes ==
    ASSUME TypeOK, NEW r \in Requests, Arrive(r)
    PROVE  TypeOK'
<1> USE GateAssumption
<1>1. Live \subseteq hits /\ Live \subseteq Requests /\ hits \subseteq Requests
  BY DEF Live, TypeOK
<1>2. IsFiniteSet(Live) /\ Cardinality(Live) \in Nat /\ Cardinality(Live) <= Cardinality(hits)
      /\ Cardinality(hits) \in Nat
  BY <1>1, SubsetsOfRequests
<1>3. Cardinality(hits') <= MaxRequests /\ hits' \subseteq Requests
  <2>1. CASE Cardinality(Live) >= MaxRequests
    BY <1>1, <1>2, <2>1 DEF Arrive, TypeOK
  <2>2. CASE ~(Cardinality(Live) >= MaxRequests)
    <3>1. hits' = Live \cup {r}
      BY <2>2 DEF Arrive
    <3>2. Cardinality(Live \cup {r}) <= Cardinality(Live) + 1
      <4>1. \/ Cardinality(Live \cup {r}) = Cardinality(Live)
            \/ Cardinality(Live \cup {r}) = Cardinality(Live) + 1
        BY <1>2, FS_AddElement, Zenon
      <4> QED
        BY <1>2, <4>1
    <3>3. Cardinality(Live \cup {r}) \in Nat
      BY <1>1, SubsetsOfRequests
    <3> QED
      BY <1>1, <1>2, <2>2, <3>1, <3>2, <3>3
  <2> QED
    BY <2>1, <2>2
<1>4. UNCHANGED <<clock, life, stored, seen>>
  BY DEF Arrive
<1>5. arrival' \in [Requests -> 0..Horizon] /\ servedIn' \in [Requests -> 1..MaxLives]
  BY DEF Arrive, TypeOK
<1>6. /\ phase' \in [Requests -> {"new", "reading", "deciding",
                                  "allowed", "limited", "denied", "killed"}]
      /\ decision' \in [Requests -> 0..Horizon]
  BY DEF Arrive, Answer, TypeOK
<1> QED
  BY <1>3, <1>4, <1>5, <1>6 DEF TypeOK

\* what Arrive does to the histories (the in-memory gate takes a hit or not)
LEMMA ArriveFrozen ==
    ASSUME TypeOK, NEW r \in Requests, Arrive(r)
    PROVE  /\ Frozen
           /\ phase[r] = "new" /\ arrival'[r] = clock /\ servedIn'[r] = life
           /\ \A q \in Requests \ {r} :
                 /\ phase'[q] = phase[q] /\ arrival'[q] = arrival[q]
                 /\ servedIn'[q] = servedIn[q] /\ decision'[q] = decision[q]
           /\ UNCHANGED <<clock, life, stored, seen>>
           /\ \/ /\ Cardinality(Live) >= MaxRequests /\ hits' = Live
                 /\ phase'[r] = "limited"
              \/ /\ ~(Cardinality(Live) >= MaxRequests) /\ hits' = Live \cup {r}
                 /\ phase'[r] = "reading"
BY DEF Arrive, Answer, Frozen, TypeOK

\* taking a hit, or refusing to, keeps the invariant
LEMMA ArriveStep ==
    ASSUME IInv, NEW r \in Requests, Arrive(r)
    PROVE  IInv'
<1> USE GateAssumption
<1>0. TypeOK /\ Memory /\ Times /\ TakenPerLife /\ Counted /\ RefusalsAreEarned
  BY DEF IInv
<1>1. TypeOK'
  BY <1>0, ArriveTypes
<1>2. /\ Frozen
      /\ phase[r] = "new" /\ arrival'[r] = clock /\ servedIn'[r] = life
      /\ \A q \in Requests \ {r} :
            /\ phase'[q] = phase[q] /\ arrival'[q] = arrival[q]
            /\ servedIn'[q] = servedIn[q] /\ decision'[q] = decision[q]
      /\ UNCHANGED <<clock, life, stored, seen>>
      /\ \/ /\ Cardinality(Live) >= MaxRequests /\ hits' = Live
            /\ phase'[r] = "limited"
         \/ /\ ~(Cardinality(Live) >= MaxRequests) /\ hits' = Live \cup {r}
            /\ phase'[r] = "reading"
  BY <1>0, ArriveFrozen
<1> HIDE DEF Arrive
<1>3. /\ clock \in 0..Horizon /\ life \in 1..MaxLives /\ hits \subseteq Requests
      /\ arrival \in [Requests -> 0..Horizon]
      /\ stored \in Counters /\ seen \in [Requests -> Counters]
  BY <1>0 DEF TypeOK
<1>4. Memory'
  BY <1>0, <1>2, <1>3 DEF Memory, Taken, Live
<1>5. Times'
  BY <1>0, <1>2, <1>3 DEF Times
<1>6. TakenPerLife'
  <2> SUFFICES ASSUME NEW l \in 1..MaxLives, NEW t \in 0..Horizon
               PROVE  Cardinality(Within(Taken(l), t)') <= MaxRequests
    BY DEF TakenPerLife
  <2>1. CASE Within(Taken(l), t)' = Within(Taken(l), t)
    BY <1>0, <2>1 DEF TakenPerLife
  <2>2. CASE Within(Taken(l), t)' # Within(Taken(l), t)
    <3>1. \A q \in Requests \ {r} :
             q \in Within(Taken(l), t)' <=> q \in Within(Taken(l), t)
      BY <1>2 DEF Within, Taken
    <3>2. r \notin Within(Taken(l), t)
      BY <1>2 DEF Within, Taken
    <3>3. Within(Taken(l), t)' \subseteq Requests /\ Within(Taken(l), t) \subseteq Requests
      BY DEF Within, Taken
    <3>4. r \in Within(Taken(l), t)'
      BY <2>2, <3>1, <3>2, <3>3
    <3>5. l = life /\ t <= clock /\ clock < t + Window
      BY <1>2, <3>4 DEF Within, Taken
    <3>6. hits' = Live \cup {r} /\ ~(Cardinality(Live) >= MaxRequests)
      BY <1>2, <3>4 DEF Within, Taken
    <3>7. ASSUME NEW q \in Within(Taken(l), t)', q # r
          PROVE  q \in Live
      <4>1. q \in Taken(life) /\ t <= arrival[q] /\ arrival[q] \in Nat
        BY <1>3, <3>1, <3>3, <3>5, <3>7 DEF Within, Taken
      <4>2. clock < arrival[q] + Window
        BY <1>3, <3>5, <4>1
      <4>3. q \in hits
        BY <1>0, <4>1, <4>2 DEF Memory
      <4> QED
        BY <1>3, <4>1, <4>2, <4>3 DEF Live
    <3>8. Within(Taken(l), t)' \subseteq hits' /\ hits' \subseteq Requests
      BY <1>3, <3>6, <3>7 DEF Live
    <3>9. Cardinality(hits') <= MaxRequests
      BY <1>1 DEF TypeOK
    <3> QED
      BY <3>8, <3>9, SubsetsOfRequests
  <2> QED
    BY <2>1, <2>2
<1>7. Counted'
  <2>1. Allowed' = Allowed /\ \A q \in Allowed : decision'[q] = decision[q]
    BY <1>2 DEF Allowed
  <2>2. \A w : AllowedSince(w)' = AllowedSince(w)
    BY <2>1 DEF AllowedSince
  <2>3. \A q \in Requests : phase'[q] = "deciding" => phase[q] = "deciding"
    BY <1>2
  <2> QED
    BY <1>0, <1>2, <2>2, <2>3 DEF Counted, Backed
<1>8. RefusalsAreEarned'
  <2> SUFFICES ASSUME NEW q \in Requests
               PROVE  /\ phase'[q] = "limited" => Cardinality(HitsBefore(q)') >= MaxRequests
                      /\ phase'[q] = "denied" => Cardinality(AllowedBefore(q)') >= MaxRequests
    BY DEF RefusalsAreEarned
  <2>1. CASE q # r
    BY <1>0, <1>2, <2>1, RefusalsStay
  <2>2. CASE q = r /\ phase'[r] = "limited"
    <3>1. Cardinality(Live) >= MaxRequests
      BY <1>2, <2>2
    <3>2. Live \subseteq HitsBefore(r)' /\ HitsBefore(r)' \subseteq Requests
      BY <1>0, <1>2, <1>3 DEF Live, HitsBefore, Memory, Taken, Times
    <3> QED
      BY <2>2, <3>1, <3>2, SubsetsOfRequests
  <2>3. CASE q = r /\ phase'[r] # "limited"
    BY <1>2, <2>3
  <2> QED
    BY <2>1, <2>2, <2>3
<1> QED
  BY <1>1, <1>4, <1>5, <1>6, <1>7, <1>8 DEF IInv

\* the storage read carries a backed counter away
LEMMA StorageReadsStep ==
    ASSUME IInv, NEW r \in Requests, StorageReads(r)
    PROVE  IInv'
<1> USE GateAssumption
<1>0. TypeOK /\ Memory /\ Times /\ TakenPerLife /\ Counted /\ RefusalsAreEarned
  BY DEF IInv
<1>1. TypeOK'
  BY <1>0 DEF StorageReads, TypeOK
<1>2. /\ Frozen
      /\ phase[r] = "reading" /\ phase'[r] = "deciding" /\ seen'[r] = stored
      /\ \A q \in Requests \ {r} : phase'[q] = phase[q] /\ seen'[q] = seen[q]
      /\ UNCHANGED <<clock, life, hits, stored, arrival, decision, servedIn>>
  BY <1>0 DEF StorageReads, Frozen, TypeOK
<1> HIDE DEF StorageReads
<1>3. Memory'
  BY <1>0, <1>2 DEF Memory, Taken
<1>4. Times'
  BY <1>0, <1>2 DEF Times
<1>5. TakenPerLife'
  <2>1. \A q \in Requests : phase'[q] \in {"new", "limited"} <=> phase[q] \in {"new", "limited"}
    BY <1>2
  <2> QED
    BY <1>0, <1>2, <2>1, NoNewHit
<1>6. Counted'
  <2>1. \A w : AllowedSince(w)' = AllowedSince(w)
    BY <1>2 DEF AllowedSince, Allowed
  <2> QED
    BY <1>0, <1>2, <2>1 DEF Counted, Backed
<1>7. RefusalsAreEarned'
  <2>1. ASSUME NEW q \in Requests, phase'[q] \in {"limited", "denied"}
        PROVE  phase[q] \in {"limited", "denied"}
    BY <1>2, <2>1
  <2> QED
    BY <1>0, <1>2, <2>1, RefusalsStay DEF RefusalsAreEarned
<1> QED
  BY <1>1, <1>3, <1>4, <1>5, <1>6, <1>7 DEF IInv

\* the three outcomes of the callback, with what each writes
LEMMA DecideFacts ==
    ASSUME TypeOK, NEW r \in Requests, Decide(r)
    PROVE  /\ TypeOK'
           /\ Frozen
           /\ phase[r] = "deciding" /\ decision'[r] = clock
           /\ \A q \in Requests \ {r} :
                 phase'[q] = phase[q] /\ decision'[q] = decision[q]
           /\ UNCHANGED <<clock, life, hits, seen, arrival, servedIn>>
           /\ \/ /\ phase'[r] = "allowed"
                 /\ stored' = [count |-> 1, windowStart |-> arrival[r]]
              \/ /\ phase'[r] = "denied" /\ stored' = stored
                 /\ ~Expired(r) /\ seen[r].count >= MaxRequests
              \/ /\ phase'[r] = "allowed"
                 /\ stored' = [count |-> seen[r].count + 1,
                               windowStart |-> seen[r].windowStart]
<1> USE GateAssumption
<1>1. /\ phase[r] = "deciding" /\ decision' = [decision EXCEPT ![r] = clock]
      /\ UNCHANGED <<clock, life, hits, seen, arrival, servedIn>>
  BY DEF Decide, Answer
<1>2. seen[r] \in Counters /\ stored \in Counters /\ arrival[r] \in Nat /\ clock \in 0..Horizon
  BY DEF TypeOK
<1>3. \/ /\ phase' = [phase EXCEPT ![r] = "allowed"]
         /\ stored' = [count |-> 1, windowStart |-> arrival[r]]
      \/ /\ phase' = [phase EXCEPT ![r] = "denied"] /\ stored' = stored
         /\ ~Expired(r) /\ seen[r].count >= MaxRequests
      \/ /\ phase' = [phase EXCEPT ![r] = "allowed"]
         /\ stored' = [seen[r] EXCEPT !.count = @ + 1]
         /\ ~(seen[r].count >= MaxRequests)
  BY DEF Decide, Answer
<1>4. [seen[r] EXCEPT !.count = @ + 1]
        = [count |-> seen[r].count + 1, windowStart |-> seen[r].windowStart]
  BY <1>2 DEF Counters
<1>5. stored' \in Counters /\ stored'.count <= MaxRequests
  BY <1>2, <1>3, <1>4 DEF TypeOK, Counters
<1>6. /\ phase' \in [Requests -> {"new", "reading", "deciding",
                                  "allowed", "limited", "denied", "killed"}]
      /\ decision' \in [Requests -> 0..Horizon]
  BY <1>1, <1>2, <1>3 DEF TypeOK
<1>7. TypeOK'
  BY <1>1, <1>5, <1>6 DEF TypeOK
<1>8. /\ decision'[r] = clock
      /\ \A q \in Requests \ {r} : phase'[q] = phase[q] /\ decision'[q] = decision[q]
      /\ phase'[r] \in {"allowed", "denied"}
  BY <1>1, <1>3 DEF TypeOK
<1>9. Frozen
  BY <1>1, <1>8 DEF Frozen
<1>10. \/ phase'[r] = "allowed" /\ stored' = [count |-> 1, windowStart |-> arrival[r]]
       \/ /\ phase'[r] = "denied" /\ stored' = stored
          /\ ~Expired(r) /\ seen[r].count >= MaxRequests
       \/ /\ phase'[r] = "allowed"
          /\ stored' = [count |-> seen[r].count + 1, windowStart |-> seen[r].windowStart]
  BY <1>3, <1>4 DEF TypeOK
<1> QED
  BY <1>1, <1>7, <1>8, <1>9, <1>10

\* answering keeps every counter backed and every refusal earned
LEMMA DecideStep ==
    ASSUME IInv, NEW r \in Requests, Decide(r)
    PROVE  IInv'
<1> USE GateAssumption
<1>0. TypeOK /\ Memory /\ Times /\ TakenPerLife /\ Counted /\ RefusalsAreEarned
  BY DEF IInv
<1>1. /\ TypeOK'
      /\ Frozen
      /\ phase[r] = "deciding" /\ decision'[r] = clock
      /\ \A q \in Requests \ {r} :
            phase'[q] = phase[q] /\ decision'[q] = decision[q]
      /\ UNCHANGED <<clock, life, hits, seen, arrival, servedIn>>
      /\ \/ phase'[r] = "allowed" /\ stored' = [count |-> 1, windowStart |-> arrival[r]]
         \/ /\ phase'[r] = "denied" /\ stored' = stored
            /\ ~Expired(r) /\ seen[r].count >= MaxRequests
         \/ /\ phase'[r] = "allowed"
            /\ stored' = [count |-> seen[r].count + 1,
                          windowStart |-> seen[r].windowStart]
  BY <1>0, DecideFacts
<1> HIDE DEF Decide
<1>2. /\ clock \in Nat /\ stored \in Counters /\ arrival[r] \in Nat
      /\ \A q \in Requests : seen[q] \in Counters
      /\ \A q \in Requests : decision[q] \in Nat
  BY <1>0 DEF TypeOK
<1>3. Memory'
  BY <1>0, <1>1 DEF Memory, Taken
<1>4. Times'
  BY <1>0, <1>1, <1>2 DEF Times
<1>5. TakenPerLife'
  <2>1. \A q \in Requests : phase'[q] \in {"new", "limited"} <=> phase[q] \in {"new", "limited"}
    BY <1>1
  <2> QED
    BY <1>0, <1>1, <2>1, NoNewHit
<1>6. Backed(seen[r]) /\ Backed(stored)
  BY <1>0, <1>1 DEF Counted
<1>7. ASSUME NEW w \in Nat
      PROVE  /\ Cardinality(AllowedSince(w)) <= Cardinality(AllowedAfter(w))
             /\ Cardinality(AllowedSince(w)) \in Nat
             /\ Cardinality(AllowedAfter(w)) \in Nat
             /\ phase'[r] = "allowed" /\ w <= clock =>
                   Cardinality(AllowedAfter(w)) = Cardinality(AllowedSince(w)) + 1
  <2>1. Cardinality(AllowedSince(w)) <= Cardinality(AllowedAfter(w))
    BY <1>1, AllowedGrows
  <2>2. AllowedSince(w) \subseteq Requests /\ AllowedAfter(w) \subseteq Requests
    BY DEF AllowedSince, AllowedAfter, Allowed
  <2>3. /\ Cardinality(AllowedSince(w)) \in Nat /\ IsFiniteSet(AllowedSince(w))
        /\ Cardinality(AllowedAfter(w)) \in Nat
    BY <2>2, SubsetsOfRequests
  <2>4. ASSUME phase'[r] = "allowed", w <= clock
        PROVE  Cardinality(AllowedAfter(w)) = Cardinality(AllowedSince(w)) + 1
    <3>1. AllowedAfter(w) = AllowedSince(w) \cup {r} /\ r \notin AllowedSince(w)
      BY <1>1, <2>4 DEF AllowedSince, AllowedAfter, Allowed
    <3> QED
      BY <2>3, <3>1, FS_AddElement
  <2> QED
    BY <2>1, <2>3, <2>4
<1>8. Counted'
  <2>1. Backed(stored)'
    <3>1. CASE phase'[r] = "allowed" /\ stored' = [count |-> 1, windowStart |-> arrival[r]]
      <4>1. arrival[r] <= clock
        BY <1>0, <1>1 DEF Times
      <4>2. Cardinality(AllowedAfter(arrival[r])) >= 1
        BY <1>2, <1>7, <3>1, <4>1
      <4> QED
        BY <1>1, <3>1, <4>1, <4>2 DEF Backed, AllowedSince, AllowedAfter, Allowed
    <3>2. CASE stored' = stored
      <4>1. stored.windowStart \in Nat /\ stored.count \in Nat
        BY <1>2 DEF Counters
      <4>2. stored.count <= Cardinality(AllowedAfter(stored.windowStart))
        BY <1>6, <1>7, <4>1 DEF Backed
      <4> QED
        BY <1>1, <1>6, <3>2, <4>2 DEF Backed, AllowedSince, AllowedAfter, Allowed
    <3>3. CASE /\ phase'[r] = "allowed"
               /\ stored' = [count |-> seen[r].count + 1, windowStart |-> seen[r].windowStart]
      <4>1. seen[r].windowStart \in Nat /\ seen[r].count \in Nat
        BY <1>2 DEF Counters
      <4>2. seen[r].count + 1 <= Cardinality(AllowedAfter(seen[r].windowStart))
        BY <1>6, <1>7, <3>3, <4>1 DEF Backed
      <4> QED
        BY <1>1, <1>6, <3>3, <4>2 DEF Backed, AllowedSince, AllowedAfter, Allowed
    <3> QED
      BY <1>1, <3>1, <3>2, <3>3
  <2>2. ASSUME NEW q \in Requests, phase'[q] = "deciding"
        PROVE  Backed(seen[q])'
    <3>1. Backed(seen[q])
      BY <1>0, <1>1, <2>2 DEF Counted
    <3>2. seen[q].windowStart \in Nat /\ seen[q].count \in Nat
      BY <1>2 DEF Counters
    <3>3. seen[q].count <= Cardinality(AllowedAfter(seen[q].windowStart))
      BY <1>7, <3>1, <3>2 DEF Backed
    <3> QED
      BY <1>1, <3>1, <3>3 DEF Backed, AllowedSince, AllowedAfter, Allowed
  <2> QED
    BY <2>1, <2>2 DEF Counted
<1>9. RefusalsAreEarned'
  <2> SUFFICES ASSUME NEW q \in Requests
               PROVE  /\ phase'[q] = "limited" => Cardinality(HitsBefore(q)') >= MaxRequests
                      /\ phase'[q] = "denied" => Cardinality(AllowedBefore(q)') >= MaxRequests
    BY DEF RefusalsAreEarned
  <2>1. CASE q # r
    BY <1>0, <1>1, <2>1, RefusalsStay
  <2>2. CASE q = r /\ phase'[r] = "denied"
    <3>1. ~Expired(r) /\ seen[r].count >= MaxRequests
      BY <1>1, <2>2
    <3>2. seen[r].windowStart \in Nat /\ seen[r].count \in Nat
      BY <1>2 DEF Counters
    <3>3. arrival[r] <= seen[r].windowStart + Window
      BY <1>2, <3>1, <3>2 DEF Expired
    <3>4. AllowedSince(seen[r].windowStart) \subseteq AllowedBefore(r)'
      <4> SUFFICES ASSUME NEW p \in AllowedSince(seen[r].windowStart)
                   PROVE  p \in AllowedBefore(r)'
        OBVIOUS
      <4>1. /\ p \in Requests /\ phase[p] = "allowed" /\ p # r
            /\ seen[r].windowStart <= decision[p] /\ decision[p] <= clock
        BY <1>0, <1>1 DEF AllowedSince, Allowed, Times
      <4>2. phase'[p] = "allowed" /\ decision'[p] = decision[p]
        BY <1>1, <4>1
      <4>3. arrival[r] <= decision[p] + Window
        BY <1>2, <3>2, <3>3, <4>1
      <4> QED
        BY <1>1, <4>1, <4>2, <4>3 DEF AllowedBefore, Allowed
    <3>5. AllowedBefore(r)' \subseteq Requests
      BY DEF AllowedBefore, Allowed
    <3>6. Cardinality(AllowedSince(seen[r].windowStart)) >= MaxRequests
      BY <1>6, <1>7, <3>1, <3>2 DEF Backed
    <3>7. /\ Cardinality(AllowedSince(seen[r].windowStart)) <= Cardinality(AllowedBefore(r)')
          /\ Cardinality(AllowedSince(seen[r].windowStart)) \in Nat
          /\ Cardinality(AllowedBefore(r)') \in Nat
      BY <3>4, <3>5, SubsetsOfRequests
    <3> QED
      BY <2>2, <3>6, <3>7
  <2>3. CASE q = r /\ phase'[r] # "denied"
    BY <1>1, <2>3
  <2> QED
    BY <2>1, <2>2, <2>3
<1> QED
  BY <1>1, <1>3, <1>4, <1>5, <1>8, <1>9 DEF IInv

\* a new life starts with an empty memory, and owes nothing to the old one
LEMMA RestartStep ==
    ASSUME IInv, WorkerRestarts
    PROVE  IInv'
<1> USE GateAssumption
<1>0. TypeOK /\ Memory /\ Times /\ TakenPerLife /\ Counted /\ RefusalsAreEarned
  BY DEF IInv
<1>1. TypeOK'
  <2>1. Cardinality({}) = 0
    BY FS_EmptySet
  <2> QED
    BY <1>0, <2>1 DEF WorkerRestarts, TypeOK
<1>2. /\ Frozen
      /\ hits' = {} /\ life' = life + 1 /\ life \in Nat
      /\ \A q \in Requests : phase'[q] = phase[q] \/ phase'[q] = "killed"
      /\ \A q \in Requests :
            phase'[q] \in {"new", "limited"} <=> phase[q] \in {"new", "limited"}
      /\ \A q \in Requests : phase'[q] = "allowed" <=> phase[q] = "allowed"
      /\ UNCHANGED <<clock, stored, seen, arrival, decision, servedIn>>
  BY <1>0 DEF WorkerRestarts, Frozen, TypeOK
<1> HIDE DEF WorkerRestarts
<1>3. \A q \in Requests : servedIn[q] \in Nat
  BY <1>0 DEF TypeOK
<1>4. Memory'
  BY <1>0, <1>2, <1>3 DEF Memory, Taken, Times
<1>5. Times'
  BY <1>0, <1>2, <1>3 DEF Times
<1>6. TakenPerLife'
  BY <1>0, <1>2, NoNewHit
<1>7. Counted'
  <2>1. \A w : AllowedSince(w)' = AllowedSince(w)
    BY <1>2 DEF AllowedSince, Allowed
  <2> QED
    BY <1>0, <1>2, <2>1 DEF Counted, Backed
<1>8. RefusalsAreEarned'
  <2>1. ASSUME NEW q \in Requests, phase'[q] \in {"limited", "denied"}
        PROVE  phase[q] \in {"limited", "denied"}
    BY <1>2, <2>1
  <2> QED
    BY <1>0, <1>2, <2>1, RefusalsStay DEF RefusalsAreEarned
<1> QED
  BY <1>1, <1>4, <1>5, <1>6, <1>7, <1>8 DEF IInv

\* time only shrinks what the memory must still hold
LEMMA TickStep ==
    ASSUME IInv, Tick
    PROVE  IInv'
<1> USE GateAssumption
<1>0. TypeOK /\ Memory /\ Times /\ TakenPerLife /\ Counted /\ RefusalsAreEarned
  BY DEF IInv
<1>1. /\ TypeOK' /\ clock \in Nat /\ clock' = clock + 1
      /\ UNCHANGED <<life, hits, stored, phase, seen, arrival, decision, servedIn>>
      /\ \A q \in Requests : arrival[q] \in Nat /\ decision[q] \in Nat
      /\ stored \in Counters /\ \A q \in Requests : seen[q] \in Counters
  BY <1>0 DEF Tick, TypeOK
<1>2. Memory'
  BY <1>0, <1>1 DEF Memory, Taken
<1>3. Times'
  BY <1>0, <1>1 DEF Times
<1>4. TakenPerLife'
  BY <1>0, <1>1, NoNewHit
<1>5. Counted'
  <2>1. \A w : AllowedSince(w)' = AllowedSince(w)
    BY <1>1 DEF AllowedSince, Allowed
  <2>2. stored.windowStart \in Nat /\ \A q \in Requests : seen[q].windowStart \in Nat
    BY <1>1 DEF Counters
  <2> QED
    BY <1>0, <1>1, <2>1, <2>2 DEF Counted, Backed
<1>6. RefusalsAreEarned'
  BY <1>0, <1>1 DEF RefusalsAreEarned, HitsBefore, AllowedBefore, Allowed
<1> QED
  BY <1>1, <1>2, <1>3, <1>4, <1>5, <1>6 DEF IInv

\* a stuttering step changes nothing
LEMMA StutterStep ==
    ASSUME IInv, UNCHANGED vars
    PROVE  IInv'
BY DEF vars, IInv, TypeOK, Memory, Times, TakenPerLife, Counted, RefusalsAreEarned,
       Taken, Within, Backed, AllowedSince, Allowed, HitsBefore, AllowedBefore

(***************************************************************************)
(* The invariant behind both theorems holds in every reachable state.      *)
(***************************************************************************)
THEOREM Invariance == Spec => []IInv
<1>1. ASSUME IInv, [Next]_vars
      PROVE  IInv'
  BY <1>1, ArriveStep, StorageReadsStep, DecideStep, RestartStep, TickStep, StutterStep
     DEF Next
<1> QED
  BY InitIInv, <1>1, PTL DEF Spec

(***************************************************************************)
(* Every reachable state has its type; in particular neither the memory    *)
(* nor the stored counter ever passes MaxRequests.                         *)
(***************************************************************************)
THEOREM TypeCorrect == Spec => []TypeOK
<1>1. IInv => TypeOK
  BY DEF IInv
<1> QED
  BY <1>1, Invariance, PTL

(***************************************************************************)
(* One life of the worker allows at most MaxRequests requests in any       *)
(* window, whatever the storage answers and however late.                  *)
(***************************************************************************)
THEOREM LimitedPerLife == Spec => []ExactPerLife
<1>1. IInv => ExactPerLife
  <2> SUFFICES ASSUME IInv, NEW l \in 1..MaxLives, NEW t \in 0..Horizon
               PROVE  Cardinality(Within({r \in Allowed : servedIn[r] = l}, t)) <= MaxRequests
    BY DEF ExactPerLife
  <2>1. Within({r \in Allowed : servedIn[r] = l}, t) \subseteq Within(Taken(l), t)
    BY DEF Within, Allowed, Taken
  <2>2. Within(Taken(l), t) \subseteq Requests
    BY DEF Within, Taken
  <2>3. Cardinality(Within(Taken(l), t)) <= MaxRequests
    BY DEF IInv, TakenPerLife
  <2> QED
    BY <2>1, <2>2, <2>3, SubsetsOfRequests, GateAssumption
<1> QED
  BY <1>1, Invariance, PTL

(***************************************************************************)
(* Every refusal is backed by MaxRequests hits of its own life, or by      *)
(* MaxRequests requests allowed at most a window ago.                      *)
(***************************************************************************)
THEOREM EarnedRefusals == Spec => []RefusalsAreEarned
<1>1. IInv => RefusalsAreEarned
  BY DEF IInv
<1> QED
  BY <1>1, Invariance, PTL

=============================================================================
