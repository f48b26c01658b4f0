---------------------------- MODULE AccessProofs ----------------------------
(***************************************************************************)
(* Theorems about Access for every number of threads, callers and keys and *)
(* every rate.  IInv says what the bounds rest on: what is admitted in a   *)
(* window is paid for by what the bucket has less of, whatever the order   *)
(* of the lock; and whoever comes after the first response, or the first   *)
(* tenant, finds it, so that only those already past the look are left.    *)
(***************************************************************************)
EXTENDS Access, FiniteSetTheorems, TLAPS

\* What the bucket has and what was admitted since `from` come to no more than a
\* full bucket and its gain up to the last refill.
Paid(c) == admitted[c] * Period + tokens[c] <= Capacity * (Period + last[c] - from[c])
Within(c) == admitted[c] * Period <= Capacity * (Period + upto[c] - from[c])
Bucket(c) == from[c] # -1 => c \in known /\ last[c] <= upto[c] /\ Paid(c) /\ Within(c)

\* The threads at a step for a key, and those about to make a tenant.
Doing(p, k) == {t \in Threads : pc[t] = p /\ key[t] = k}
Creating == {t \in Threads : pc[t] = "creating"}

\* Before the first response is stored every write is failed or still on its way to
\* it; after it those that are to write have looked before it was there.
WritesOf(k) ==
  IF k \in stored
  THEN writes[k] + Cardinality(Doing("writing", k)) <= Cardinality(Threads) + lost[k]
  ELSE writes[k] = lost[k] + Cardinality(Doing("storing", k))

Tenants == tenants > 0 => tenants + Cardinality(Creating) <= Cardinality(Threads) + minted

IInv == TypeOK /\ (\A c \in Callers : Bucket(c)) /\ (\A k \in Keys : WritesOf(k)) /\ Tenants

-----------------------------------------------------------------------------
(* Type correctness                                                        *)

\* The threads at storing can be counted.
LEMMA Counted ==
  ASSUME NEW S \in SUBSET Threads
  PROVE  IsFiniteSet(S) /\ Cardinality(S) \in Nat /\ Cardinality(S) <= Cardinality(Threads)
  BY ThreadsAssumption, FS_Subset, FS_CardinalityType

\* What a bucket holds is a number.
LEMMA RefilledType ==
  ASSUME TypeOK, NEW c \in Callers, NEW time \in Nat
  PROVE  Refilled(c, time) \in Int
  BY RateAssumption DEF TypeOK, Refilled, Full

LEMMA InitType == Init => TypeOK
  BY DEF Init, TypeOK, PC

\* The types hold in every reachable state.
LEMMA NextType == TypeOK /\ [Next]_vars => TypeOK'
<1> SUFFICES ASSUME TypeOK, [Next]_vars PROVE TypeOK'
  OBVIOUS
<1>1. CASE Tick
  BY <1>1 DEF Tick, TypeOK, buckets, thread, commits, windows
<1>2. CASE CreateKey
  BY <1>2 DEF CreateKey, TypeOK, buckets, thread, commits, windows
<1>3. CASE Crash
  <2>1. \A k \in Keys : Cardinality(Doing("storing", k)) \in Nat
    BY Counted DEF Doing
  <2>2. lost' \in [Keys -> Nat]
    BY <1>3, <2>1 DEF Crash, TypeOK, Doing
  <2>3. pc' \in [Threads -> PC] /\ stamp' \in [Threads -> Nat]
    BY <1>3 DEF Crash, PC
  <2> QED
    BY <1>3, <2>2, <2>3 DEF Crash, TypeOK
<1>4. ASSUME NEW t \in Threads, NEW c \in Callers, Arrive(t, c) PROVE TypeOK'
  BY <1>4 DEF Arrive, Goto, TypeOK, PC, buckets, commits, windows
<1>5. ASSUME NEW t \in Threads, NEW starts \in BOOLEAN, Allow(t, starts) PROVE TypeOK'
  <2> DEFINE c == caller[t]
             one == IF Admits(c, stamp[t]) THEN 1 ELSE 0
             room == Refilled(c, stamp[t])
  <2>1. c \in Callers /\ stamp[t] \in Nat /\ one \in {0, 1}
    BY DEF TypeOK
  <2>2. room \in Int
    BY <2>1, RefilledType
  <2>3. /\ known' = known \cup {c}
        /\ tokens' = [tokens EXCEPT ![c] = room - one * Period]
        /\ last' = [last EXCEPT ![c] = stamp[t]]
        /\ Goto(t, IF one = 1 THEN "admitted" ELSE "idle")
        /\ Count(c, stamp[t], one, starts)
        /\ stamp' = [stamp EXCEPT ![t] = 0]
        /\ UNCHANGED <<now, caller, key, commits, tenants, minted, crashes>>
    BY <1>5 DEF Allow
  <2> HIDE DEF c, one, room
  <2>4. tokens' \in [Callers -> Int] /\ last' \in [Callers -> Nat] /\ known' \subseteq Callers
    BY <2>1, <2>2, <2>3, RateAssumption DEF TypeOK
  <2>5. pc' \in [Threads -> PC] /\ stamp' \in [Threads -> Nat]
    BY <2>3 DEF TypeOK, Goto, PC
  <2>6. /\ from' \in [Callers -> Nat \cup {-1}] /\ upto' \in [Callers -> Nat]
        /\ admitted' \in [Callers -> Nat]
    BY <2>1, <2>3 DEF TypeOK, Count
  <2> QED
    BY <2>3, <2>4, <2>5, <2>6 DEF TypeOK, commits
<1>6. ASSUME NEW t \in Threads, NEW k \in Keys, Look(t, k) PROVE TypeOK'
  BY <1>6 DEF Look, Goto, TypeOK, PC, buckets, commits, windows
<1>7. ASSUME NEW t \in Threads, Inscribe(t) \/ Fails(t) \/ Store(t) \/ Read(t) PROVE TypeOK'
  BY <1>7 DEF Inscribe, Fails, Store, Read, Goto, TypeOK, PC, buckets, thread, commits, windows
<1>8. ASSUME NEW t \in Threads, SelectTenant(t) \/ CreateTenant(t) PROVE TypeOK'
  BY <1>8 DEF SelectTenant, CreateTenant, Goto, TypeOK, PC, buckets, thread, commits, windows
<1>9. CASE UNCHANGED vars
  BY <1>9 DEF TypeOK, vars, buckets, thread, commits, windows
<1> QED
  BY <1>1, <1>2, <1>3, <1>4, <1>5, <1>6, <1>7, <1>8, <1>9 DEF Next, Step

-----------------------------------------------------------------------------
(* The rate limit                                                          *)

\* A request finds at most a full bucket, and at most what the last one left and the
\* gain between their clocks, be that negative.
LEMMA RefilledBound ==
  ASSUME TypeOK, NEW c \in Callers, NEW time \in Nat
  PROVE  /\ Refilled(c, time) <= Full
         /\ c \in known => Refilled(c, time) <= tokens[c] + (time - last[c]) * Capacity
  BY RateAssumption DEF TypeOK, Refilled, Full

\* A window that is paid for up to a request is paid for after it, in integers.
LEMMA PaysOn ==
  ASSUME NEW n \in Nat, NEW have \in Int, NEW room \in Int, NEW one \in {0, 1},
         NEW l \in Nat, NEW f \in Nat, NEW time \in Nat,
         n * Period + have <= Capacity * (Period + l - f),
         room <= have + (time - l) * Capacity
  PROVE  (n + one) * Period + (room - one * Period) <= Capacity * (Period + time - f)
<1> USE RateAssumption
<1>1. (n + one) * Period + (room - one * Period) = n * Period + room
  BY SMT
<1>2. Capacity * (Period + l - f) + (time - l) * Capacity = Capacity * (Period + time - f)
  BY SMT
<1> QED
  BY <1>1, <1>2, SMT

\* A later end of the window only allows more.
LEMMA LaterAllowsMore ==
  ASSUME NEW f \in Nat, NEW u \in Nat, NEW v \in Nat, u <= v
  PROVE  Capacity * (Period + u - f) <= Capacity * (Period + v - f)
<1> USE RateAssumption
<1>1. Capacity * (Period + v - f) - Capacity * (Period + u - f) = Capacity * (v - u)
  BY SMT
<1>2. Capacity * (v - u) >= 0
  BY SMT
<1> QED
  BY <1>1, <1>2, SMT

\* Only allow touches a bucket; it keeps the windows of its caller paid for.
LEMMA AllowBucket ==
  ASSUME TypeOK, \A c \in Callers : Bucket(c),
         NEW t \in Threads, NEW starts \in BOOLEAN, Allow(t, starts)
  PROVE  \A c \in Callers : Bucket(c)'
<1> USE RateAssumption
<1>1. PICK c \in Callers, time \in Nat, one \in {0, 1}, room \in Int :
        /\ c = caller[t] /\ time = stamp[t]
        /\ one = IF Admits(c, time) THEN 1 ELSE 0
        /\ room = Refilled(c, time)
  <2>1. caller[t] \in Callers /\ stamp[t] \in Nat
    BY DEF TypeOK
  <2> QED
    BY <2>1, RefilledType
<1>2. room <= Full /\ (c \in known => room <= tokens[c] + (time - last[c]) * Capacity)
  BY <1>1, RefilledBound
<1>3. one = 1 => room >= Period
  BY <1>1 DEF Admits
<1>4. /\ known' = known \cup {c}
      /\ tokens' = [tokens EXCEPT ![c] = room - one * Period]
      /\ last' = [last EXCEPT ![c] = time]
      /\ Count(c, time, one, starts)
  BY <1>1 DEF Allow
<1>5. ASSUME NEW d \in Callers, d # c PROVE Bucket(d)'
  <2>1. /\ tokens'[d] = tokens[d] /\ last'[d] = last[d] /\ from'[d] = from[d]
        /\ upto'[d] = upto[d] /\ admitted'[d] = admitted[d]
        /\ d \in known => d \in known'
    BY <1>1, <1>4, <1>5 DEF TypeOK, Count
  <2> QED
    BY <2>1 DEF Bucket, Paid, Within
<1>6. tokens'[c] = room - one * Period /\ last'[c] = time /\ c \in known'
  BY <1>1, <1>4 DEF TypeOK
<1>7. ASSUME from'[c] # -1 PROVE last'[c] <= upto'[c] /\ Paid(c)' /\ Within(c)'
  <2>1. CASE starts
    <3>1. from'[c] = time /\ upto'[c] = time /\ admitted'[c] = one
      BY <1>1, <1>4, <2>1 DEF TypeOK, Count
    <3>2. Paid(c)'
      BY <1>1, <1>2, <1>6, <3>1, SMT DEF Paid, Full
    <3>3. Within(c)'
      BY <1>1, <3>1, SMT DEF Within
    <3> QED
      BY <1>1, <1>6, <3>1, <3>2, <3>3
  <2>2. CASE ~starts
    <3>1. /\ from'[c] = from[c] /\ from[c] \in Nat
          /\ upto'[c] = (IF upto[c] >= time THEN upto[c] ELSE time)
          /\ admitted'[c] = admitted[c] + one
      BY <1>1, <1>4, <1>7, <2>2 DEF TypeOK, Count
    <3>2. /\ c \in known /\ Paid(c) /\ Within(c)
          /\ admitted[c] \in Nat /\ tokens[c] \in Int /\ last[c] \in Nat /\ upto[c] \in Nat
      BY <1>1, <3>1 DEF Bucket, TypeOK
    <3>3. Paid(c)'
      BY <1>1, <1>2, <1>6, <3>1, <3>2, PaysOn DEF Paid
    <3>4. upto'[c] \in Nat /\ upto[c] <= upto'[c] /\ time <= upto'[c]
      BY <1>1, <3>1, <3>2
    <3>5. CASE one = 0
      <4>1. admitted'[c] * Period <= Capacity * (Period + upto[c] - from[c])
        BY <3>1, <3>2, <3>5 DEF Within
      <4>2. Capacity * (Period + upto[c] - from[c]) <= Capacity * (Period + upto'[c] - from[c])
        BY <3>1, <3>2, <3>4, LaterAllowsMore
      <4>3. Within(c)'
        <5> DEFINE a == admitted'[c] * Period
                   b == Capacity * (Period + upto[c] - from[c])
                   d == Capacity * (Period + upto'[c] - from[c])
        <5>1. a \in Int /\ b \in Int /\ d \in Int
          BY <1>1, <3>1, <3>2, <3>4
        <5>2. a <= b /\ b <= d
          BY <4>1, <4>2
        <5>3. a <= d
          <6> HIDE DEF a, b, d
          <6> QED
            BY <5>1, <5>2
        <5> QED
          BY <3>1, <5>3 DEF Within
      <4> QED
        BY <1>6, <3>3, <3>4, <4>3
    <3>6. CASE one = 1
      <4> DEFINE a == admitted'[c] * Period
                 b == Capacity * (Period + time - from[c])
                 d == Capacity * (Period + upto'[c] - from[c])
      <4>1. a \in Int /\ b \in Int /\ d \in Int
        BY <1>1, <3>1, <3>2, <3>4
      <4>2. tokens'[c] \in Int /\ tokens'[c] >= 0
        BY <1>2, <1>3, <1>6, <3>6
      <4>3. a + tokens'[c] <= b
        BY <1>6, <3>1, <3>3 DEF Paid
      <4>4. b <= d
        BY <1>1, <3>1, <3>4, LaterAllowsMore
      <4>5. a <= d
        <5> HIDE DEF a, b, d
        <5> QED
          BY <4>1, <4>2, <4>3, <4>4
      <4>6. Within(c)'
        BY <3>1, <4>5 DEF Within
      <4> QED
        BY <1>6, <3>3, <3>4, <4>6
    <3> QED
      BY <1>1, <3>5, <3>6
  <2> QED
    BY <2>1, <2>2
<1> QED
  BY <1>5, <1>6, <1>7 DEF Bucket

\* Every step keeps the windows paid for.
LEMMA NextBucket ==
  TypeOK /\ (\A c \in Callers : Bucket(c)) /\ [Next]_vars => \A c \in Callers : Bucket(c)'
<1> SUFFICES ASSUME TypeOK, \A c \in Callers : Bucket(c), [Next]_vars
             PROVE  \A c \in Callers : Bucket(c)'
  OBVIOUS
<1>1. ASSUME UNCHANGED <<buckets, windows>> PROVE \A c \in Callers : Bucket(c)'
  BY <1>1 DEF Bucket, Paid, Within, buckets, windows
<1>2. CASE Crash
  BY <1>2 DEF Crash, Bucket
<1>3. ASSUME NEW t \in Threads, NEW starts \in BOOLEAN, Allow(t, starts)
      PROVE  \A c \in Callers : Bucket(c)'
  BY <1>3, AllowBucket
<1>4. CASE Tick \/ CreateKey
  BY <1>1, <1>4 DEF Tick, CreateKey
<1>5. ASSUME NEW t \in Threads, NEW c \in Callers, Arrive(t, c)
      PROVE  UNCHANGED <<buckets, windows>>
  BY <1>5 DEF Arrive
<1>6. ASSUME NEW t \in Threads, NEW k \in Keys, Look(t, k)
      PROVE  UNCHANGED <<buckets, windows>>
  BY <1>6 DEF Look
<1>7. ASSUME NEW t \in Threads,
             Inscribe(t) \/ Fails(t) \/ Store(t) \/ Read(t) \/ SelectTenant(t) \/ CreateTenant(t)
      PROVE  UNCHANGED <<buckets, windows>>
  BY <1>7 DEF Inscribe, Fails, Store, Read, SelectTenant, CreateTenant
<1>8. CASE UNCHANGED vars
  BY <1>1, <1>8 DEF vars
<1> QED
  BY <1>1, <1>2, <1>3, <1>4, <1>5, <1>6, <1>7, <1>8 DEF Next, Step

-----------------------------------------------------------------------------
(* Looking first                                                           *)

\* How many threads there are at a step when one of them comes or goes.
LEMMA OneMore ==
  ASSUME NEW S \in SUBSET Threads, NEW R \in SUBSET Threads, NEW t \in Threads,
         t \notin S, R = S \cup {t}
  PROVE  Cardinality(R) = Cardinality(S) + 1 /\ Cardinality(S) \in Nat
  BY Counted, FS_AddElement

\* Threads at different steps are no more than all threads.
LEMMA Disjoint ==
  ASSUME NEW S \in SUBSET Threads, NEW R \in SUBSET Threads, S \cap R = {}
  PROVE  Cardinality(S) + Cardinality(R) <= Cardinality(Threads)
<1>1. IsFiniteSet(S) /\ IsFiniteSet(R) /\ S \cup R \in SUBSET Threads
  BY Counted
<1>2. Cardinality(S \cup R) = Cardinality(S) + Cardinality(R) - Cardinality(S \cap R)
  BY <1>1, FS_Union
<1>3. Cardinality(S \cap R) = 0
  BY FS_EmptySet
<1>4. Cardinality(S \cup R) <= Cardinality(Threads)
  BY <1>1, Counted
<1> QED
  BY <1>1, <1>2, <1>3, <1>4, Counted

\* What is counted, in numbers.
LEMMA CountTypes ==
  ASSUME TypeOK
  PROVE  /\ Cardinality(Threads) \in Nat /\ Cardinality(Creating) \in Nat
         /\ Cardinality(Creating) <= Cardinality(Threads)
         /\ \A k \in Keys, p \in PC :
              Doing(p, k) \subseteq Threads /\ Cardinality(Doing(p, k)) \in Nat
         /\ \A k \in Keys :
              Cardinality(Doing("storing", k)) + Cardinality(Doing("writing", k))
                <= Cardinality(Threads)
<1>1. \A k \in Keys, p \in PC : Doing(p, k) \in SUBSET Threads
  BY DEF Doing
<1>2. \A k \in Keys : Doing("storing", k) \cap Doing("writing", k) = {}
  BY DEF Doing
<1>3. Creating \in SUBSET Threads
  BY DEF Creating
<1>4. \A k \in Keys : Doing("storing", k) \in SUBSET Threads /\ Doing("writing", k) \in SUBSET Threads
  BY DEF Doing
<1> QED
  BY <1>1, <1>2, <1>3, <1>4, Counted, Disjoint

\* Unless t is, or comes to be, at "writing" or "storing", WritesOf is as before.
LEMMA ElsewhereWrites ==
  ASSUME TypeOK, NEW t \in Threads, NEW p,
         pc' = [pc EXCEPT ![t] = p], \A u \in Threads \ {t} : key'[u] = key[u],
         pc[t] \notin {"writing", "storing"}, p \notin {"writing", "storing"},
         UNCHANGED commits, NEW k \in Keys, WritesOf(k)
  PROVE  WritesOf(k)'
<1>1. Doing("writing", k)' = Doing("writing", k)
  BY DEF Doing, TypeOK
<1>2. Doing("storing", k)' = Doing("storing", k)
  BY DEF Doing, TypeOK
<1> QED
  BY <1>1, <1>2 DEF WritesOf, commits

\* get_idempotent_response: who comes to write has found nothing stored.
LEMMA LookWrites ==
  ASSUME TypeOK, \A k \in Keys : WritesOf(k), NEW t \in Threads, NEW j \in Keys, Look(t, j)
  PROVE  \A k \in Keys : WritesOf(k)'
<1> SUFFICES ASSUME NEW k \in Keys PROVE WritesOf(k)'
  OBVIOUS
<1>1. /\ pc[t] = "admitted" /\ UNCHANGED commits /\ key' = [key EXCEPT ![t] = j]
      /\ pc' = [pc EXCEPT ![t] = IF j \in stored THEN "idle" ELSE "writing"]
  BY DEF Look, Goto, Found
<1>2. WritesOf(k)
  OBVIOUS
<1>3. CASE j \in stored
  BY <1>1, <1>2, <1>3, ElsewhereWrites DEF TypeOK
<1>4. CASE j \notin stored
  <2>1. Doing("storing", k)' = Doing("storing", k)
    BY <1>1, <1>4 DEF Doing, TypeOK
  <2>2. k # j => Doing("writing", k)' = Doing("writing", k)
    BY <1>1, <1>4 DEF Doing, TypeOK
  <2> QED
    BY <1>1, <1>2, <1>4, <2>1, <2>2 DEF WritesOf, commits
<1> QED
  BY <1>3, <1>4

\* inscribe_commit: one writes less is to write.
LEMMA InscribeWrites ==
  ASSUME TypeOK, \A k \in Keys : WritesOf(k), NEW t \in Threads, Inscribe(t)
  PROVE  \A k \in Keys : WritesOf(k)'
<1> SUFFICES ASSUME NEW k \in Keys PROVE WritesOf(k)'
  OBVIOUS
<1>1. /\ pc[t] = "writing" /\ pc' = [pc EXCEPT ![t] = "storing"]
      /\ writes' = [writes EXCEPT ![key[t]] = @ + 1] /\ UNCHANGED <<key, stored, lost>>
  BY DEF Inscribe, Goto, thread
<1>2. WritesOf(k)
  OBVIOUS
<1>3. CASE k # key[t]
  <2>1. Doing("storing", k)' = Doing("storing", k) /\ Doing("writing", k)' = Doing("writing", k)
    BY <1>1, <1>3 DEF Doing, TypeOK
  <2>2. writes'[k] = writes[k]
    BY <1>1, <1>3 DEF TypeOK
  <2> QED
    BY <1>1, <1>2, <2>1, <2>2 DEF WritesOf
<1>4. CASE k = key[t]
  <2>1. writes'[k] = writes[k] + 1 /\ writes[k] \in Nat /\ lost[k] \in Nat
    BY <1>1, <1>4 DEF TypeOK
  <2> DEFINE S == Doing("storing", k)   R == Doing("storing", k)'
             T == Doing("writing", k)'  U == Doing("writing", k)
  <2>2. S \in SUBSET Threads /\ R \in SUBSET Threads /\ t \notin S /\ R = S \cup {t}
    BY <1>1, <1>4 DEF Doing, TypeOK
  <2>3. T \in SUBSET Threads /\ U \in SUBSET Threads /\ t \notin T /\ U = T \cup {t}
    BY <1>1, <1>4 DEF Doing, TypeOK
  <2>4. Cardinality(R) = Cardinality(S) + 1 /\ Cardinality(S) \in Nat
    <3> HIDE DEF S, R
    <3> QED
      BY <2>2, OneMore
  <2>5. Cardinality(U) = Cardinality(T) + 1 /\ Cardinality(T) \in Nat
    <3> HIDE DEF T, U
    <3> QED
      BY <2>3, OneMore
  <2>6. Cardinality(Threads) \in Nat
    BY CountTypes
  <2> QED
    BY <1>1, <1>2, <2>1, <2>2, <2>3, <2>4, <2>5, <2>6 DEF WritesOf
<1> QED
  BY <1>3, <1>4

\* A write that is not followed by its response is lost; one that is has taken its
\* place among the threads.
LEMMA LeaveStoringWrites ==
  ASSUME TypeOK, \A k \in Keys : WritesOf(k), NEW t \in Threads, Fails(t) \/ Store(t)
  PROVE  \A k \in Keys : WritesOf(k)'
<1> SUFFICES ASSUME NEW k \in Keys PROVE WritesOf(k)'
  OBVIOUS
<1>1. /\ pc[t] = "storing" /\ pc' = [pc EXCEPT ![t] = "idle"] /\ UNCHANGED <<key, writes>>
      /\ \/ lost' = [lost EXCEPT ![key[t]] = @ + 1] /\ stored' = stored
         \/ lost' = lost /\ stored' = stored \cup {key[t]}
  BY DEF Fails, Store, Goto, thread
<1>2. WritesOf(k)
  OBVIOUS
<1>3. Doing("writing", k)' = Doing("writing", k)
  BY <1>1 DEF Doing, TypeOK
<1>4. CASE k # key[t]
  <2>1. Doing("storing", k)' = Doing("storing", k)
    BY <1>1, <1>4 DEF Doing, TypeOK
  <2>2. lost'[k] = lost[k] /\ (k \in stored' <=> k \in stored)
    BY <1>1, <1>4 DEF TypeOK
  <2> QED
    BY <1>1, <1>2, <1>3, <2>1, <2>2 DEF WritesOf
<1>5. CASE k = key[t]
  <2> DEFINE S == Doing("storing", k)'  R == Doing("storing", k)
  <2>1. S \in SUBSET Threads /\ R \in SUBSET Threads /\ t \notin S /\ R = S \cup {t}
    BY <1>1, <1>5 DEF Doing, TypeOK
  <2>2. Cardinality(R) = Cardinality(S) + 1 /\ Cardinality(S) \in Nat
    <3> HIDE DEF S, R
    <3> QED
      BY <2>1, OneMore
  <2>3. /\ Cardinality(Threads) \in Nat /\ Cardinality(Doing("writing", k)) \in Nat
        /\ Cardinality(R) + Cardinality(Doing("writing", k)) <= Cardinality(Threads)
    BY <2>1, CountTypes DEF PC
  <2>4. writes[k] \in Nat /\ lost[k] \in Nat
    BY DEF TypeOK
  <2>5. CASE lost' = [lost EXCEPT ![key[t]] = @ + 1] /\ stored' = stored
    <3>1. lost'[k] = lost[k] + 1
      BY <1>5, <2>5 DEF TypeOK
    <3> QED
      BY <1>1, <1>2, <1>3, <2>1, <2>2, <2>3, <2>4, <2>5, <3>1 DEF WritesOf
  <2>6. CASE lost' = lost /\ stored' = stored \cup {key[t]}
    <3>1. writes[k] + Cardinality(Doing("writing", k)) <= Cardinality(Threads) + lost[k]
      BY <1>2, <2>1, <2>3, <2>4, <2>2 DEF WritesOf
    <3> QED
      BY <1>1, <1>3, <1>5, <2>6, <3>1 DEF WritesOf
  <2> QED
    BY <1>1, <2>5, <2>6
<1> QED
  BY <1>4, <1>5

\* A request that raises before it writes is one less to write.
LEMMA ReadWrites ==
  ASSUME TypeOK, \A k \in Keys : WritesOf(k), NEW t \in Threads, Read(t)
  PROVE  \A k \in Keys : WritesOf(k)'
<1> SUFFICES ASSUME NEW k \in Keys PROVE WritesOf(k)'
  OBVIOUS
<1>1. /\ pc[t] \in {"admitted", "writing"} /\ pc' = [pc EXCEPT ![t] = "idle"]
      /\ UNCHANGED <<key, writes, stored, lost>>
  BY DEF Read, Goto, thread, commits
<1>2. WritesOf(k)
  OBVIOUS
<1>3. Doing("storing", k)' = Doing("storing", k)
  BY <1>1 DEF Doing, TypeOK
<1> DEFINE S == Doing("writing", k)'  R == Doing("writing", k)
<1>4. S \in SUBSET Threads /\ R \in SUBSET Threads /\ S \subseteq R
  BY <1>1 DEF Doing, TypeOK
<1>5. Cardinality(S) <= Cardinality(R) /\ Cardinality(S) \in Nat /\ Cardinality(R) \in Nat
  <2> HIDE DEF S, R
  <2> QED
    BY <1>4, Counted, FS_Subset
<1>6. writes[k] \in Nat /\ lost[k] \in Nat /\ Cardinality(Threads) \in Nat
  BY CountTypes DEF TypeOK
<1> QED
  BY <1>1, <1>2, <1>3, <1>4, <1>5, <1>6 DEF WritesOf

\* A restart loses the writes whose response was not stored yet.
LEMMA CrashWrites ==
  ASSUME TypeOK, \A k \in Keys : WritesOf(k), Crash
  PROVE  \A k \in Keys : WritesOf(k)'
<1> SUFFICES ASSUME NEW k \in Keys PROVE WritesOf(k)'
  OBVIOUS
<1>1. /\ Doing("writing", k)' = {} /\ Doing("storing", k)' = {}
      /\ lost'[k] = lost[k] + Cardinality(Doing("storing", k))
      /\ UNCHANGED <<stored, writes>>
  BY DEF Crash, Doing
<1>2. Cardinality({}) = 0
  BY FS_EmptySet
<1>3. /\ writes[k] \in Nat /\ lost[k] \in Nat /\ Cardinality(Threads) \in Nat
      /\ Cardinality(Doing("writing", k)) \in Nat /\ Cardinality(Doing("storing", k)) \in Nat
  BY CountTypes DEF TypeOK, PC
<1>4. WritesOf(k)
  OBVIOUS
<1> QED
  BY <1>1, <1>2, <1>3, <1>4 DEF WritesOf

\* Every step keeps the account of the writes.
LEMMA NextWrites ==
  TypeOK /\ (\A k \in Keys : WritesOf(k)) /\ [Next]_vars => \A k \in Keys : WritesOf(k)'
<1> SUFFICES ASSUME TypeOK, \A k \in Keys : WritesOf(k), [Next]_vars
             PROVE  \A k \in Keys : WritesOf(k)'
  OBVIOUS
<1>1. ASSUME UNCHANGED <<pc, key, stored, writes, lost>> PROVE \A k \in Keys : WritesOf(k)'
  BY <1>1 DEF WritesOf, Doing
<1>2. CASE Tick \/ CreateKey \/ UNCHANGED vars
  BY <1>1, <1>2 DEF Tick, CreateKey, vars, thread, commits
<1>3. CASE Crash
  BY <1>3, CrashWrites
<1>4. ASSUME NEW t \in Threads, NEW c \in Callers, Arrive(t, c)
      PROVE  \A k \in Keys : WritesOf(k)'
  BY <1>4, ElsewhereWrites DEF Arrive, Goto
<1>5. ASSUME NEW t \in Threads, NEW starts \in BOOLEAN, Allow(t, starts)
      PROVE  \A k \in Keys : WritesOf(k)'
  <2>1. PICK p \in {"admitted", "idle"} : pc' = [pc EXCEPT ![t] = p]
    BY <1>5 DEF Allow, Goto
  <2>2. pc[t] = "waiting" /\ UNCHANGED <<key, commits>>
    BY <1>5 DEF Allow
  <2> QED
    BY <2>1, <2>2, ElsewhereWrites
<1>6. ASSUME NEW t \in Threads, NEW j \in Keys, Look(t, j)
      PROVE  \A k \in Keys : WritesOf(k)'
  BY <1>6, LookWrites
<1>7. ASSUME NEW t \in Threads, Inscribe(t) \/ Fails(t) \/ Store(t) \/ Read(t)
      PROVE  \A k \in Keys : WritesOf(k)'
  BY <1>7, InscribeWrites, LeaveStoringWrites, ReadWrites
<1>8. ASSUME NEW t \in Threads, SelectTenant(t) \/ CreateTenant(t)
      PROVE  \A k \in Keys : WritesOf(k)'
  <2>1. PICK p \in {"creating", "idle"} : pc' = [pc EXCEPT ![t] = p]
    BY <1>8 DEF SelectTenant, CreateTenant, Goto
  <2>2. pc[t] \notin {"writing", "storing"} /\ UNCHANGED <<key, commits>>
    BY <1>8 DEF SelectTenant, CreateTenant, thread
  <2> QED
    BY <2>1, <2>2, ElsewhereWrites
<1> QED
  BY <1>2, <1>3, <1>4, <1>5, <1>6, <1>7, <1>8 DEF Next, Step

-----------------------------------------------------------------------------
(* Tenants                                                                 *)

\* Every step keeps the account of the tenants.
LEMMA NextTenants == TypeOK /\ Tenants /\ [Next]_vars => Tenants'
<1> SUFFICES ASSUME TypeOK, Tenants, [Next]_vars PROVE Tenants'
  OBVIOUS
<1>1. /\ tenants \in Nat /\ minted \in Nat /\ Cardinality(Threads) \in Nat
      /\ Cardinality(Creating) \in Nat /\ Cardinality(Creating) <= Cardinality(Threads)
  BY CountTypes DEF TypeOK
<1>2. ASSUME UNCHANGED <<tenants, minted>>, Creating' = Creating PROVE Tenants'
  BY <1>2 DEF Tenants
<1>3. ASSUME NEW t \in Threads, NEW p, pc' = [pc EXCEPT ![t] = p],
             p # "creating", pc[t] # "creating"
      PROVE  Creating' = Creating
  BY <1>3 DEF Creating, TypeOK
<1>4. CASE Tick \/ UNCHANGED vars
  BY <1>2, <1>4 DEF Tick, vars, Creating
<1>5. CASE CreateKey
  <2>1. Creating' = Creating /\ tenants' = tenants + 1 /\ minted' = minted + 1
    BY <1>5 DEF CreateKey, Creating
  <2> QED
    BY <1>1, <2>1 DEF Tenants
<1>6. CASE Crash
  <2>1. Creating' = {} /\ UNCHANGED <<tenants, minted>>
    BY <1>6 DEF Crash, Creating
  <2>2. Cardinality({}) = 0
    BY FS_EmptySet
  <2> QED
    BY <1>1, <2>1, <2>2 DEF Tenants
<1>7. ASSUME NEW t \in Threads, NEW c \in Callers, Arrive(t, c) PROVE Tenants'
  BY <1>2, <1>3, <1>7 DEF Arrive, Goto
<1>8. ASSUME NEW t \in Threads, NEW starts \in BOOLEAN, Allow(t, starts) PROVE Tenants'
  <2>1. PICK p \in {"admitted", "idle"} : pc' = [pc EXCEPT ![t] = p]
    BY <1>8 DEF Allow, Goto
  <2>2. pc[t] = "waiting" /\ UNCHANGED <<tenants, minted>>
    BY <1>8 DEF Allow
  <2> QED
    BY <1>2, <1>3, <2>1, <2>2
<1>9. ASSUME NEW t \in Threads, NEW k \in Keys, Look(t, k) PROVE Tenants'
  <2>1. PICK p \in {"writing", "idle"} : pc' = [pc EXCEPT ![t] = p]
    BY <1>9 DEF Look, Goto
  <2>2. pc[t] = "admitted" /\ UNCHANGED <<tenants, minted>>
    BY <1>9 DEF Look
  <2> QED
    BY <1>2, <1>3, <2>1, <2>2
<1>10. ASSUME NEW t \in Threads, Inscribe(t) \/ Fails(t) \/ Store(t) \/ Read(t) PROVE Tenants'
  <2>1. PICK p \in {"storing", "idle"} : pc' = [pc EXCEPT ![t] = p]
    BY <1>10 DEF Inscribe, Fails, Store, Read, Goto
  <2>2. pc[t] \in {"writing", "storing", "admitted"} /\ UNCHANGED <<tenants, minted>>
    BY <1>10 DEF Inscribe, Fails, Store, Read
  <2> QED
    BY <1>2, <1>3, <2>1, <2>2
<1>11. ASSUME NEW t \in Threads, SelectTenant(t) PROVE Tenants'
  <2>1. pc[t] # "creating" /\ UNCHANGED <<tenants, minted>>
    BY <1>11 DEF SelectTenant
  <2>2. CASE tenants > 0
    BY <1>2, <1>3, <1>11, <2>1, <2>2 DEF SelectTenant, Goto
  <2>3. CASE ~(tenants > 0)
    BY <2>1, <2>3 DEF Tenants
  <2> QED
    BY <2>2, <2>3
<1>12. ASSUME NEW t \in Threads, CreateTenant(t) PROVE Tenants'
  <2> DEFINE S == Creating'  R == Creating
  <2>1. tenants' = tenants + 1 /\ minted' = minted
    BY <1>12 DEF CreateTenant
  <2>2. S \in SUBSET Threads /\ R \in SUBSET Threads /\ t \notin S /\ R = S \cup {t}
    BY <1>12 DEF CreateTenant, Goto, Creating, TypeOK
  <2>3. Cardinality(R) = Cardinality(S) + 1 /\ Cardinality(S) \in Nat
    <3> HIDE DEF S, R
    <3> QED
      BY <2>2, OneMore
  <2> QED
    BY <1>1, <2>1, <2>3 DEF Tenants
<1> QED
  BY <1>4, <1>5, <1>6, <1>7, <1>8, <1>9, <1>10, <1>11, <1>12 DEF Next, Step

-----------------------------------------------------------------------------
(* Theorems                                                                *)

\* A process starts with nothing.
LEMMA InitIInv == Init => IInv
<1> SUFFICES ASSUME Init PROVE IInv
  OBVIOUS
<1>1. TypeOK
  BY InitType
<1>2. \A c \in Callers : Bucket(c)
  BY DEF Init, Bucket
<1>3. \A k \in Keys : WritesOf(k)
  <2> SUFFICES ASSUME NEW k \in Keys PROVE WritesOf(k)
    OBVIOUS
  <2>1. Doing("storing", k) = {} /\ k \notin stored /\ writes[k] = 0 /\ lost[k] = 0
    BY DEF Init, Doing
  <2>2. Cardinality({}) = 0
    BY FS_EmptySet
  <2> QED
    BY <2>1, <2>2 DEF WritesOf
<1>4. Tenants
  BY DEF Init, Tenants
<1> QED
  BY <1>1, <1>2, <1>3, <1>4 DEF IInv

\* IInv holds in every reachable state.
THEOREM IInvHolds == Spec => []IInv
<1>1. IInv /\ [Next]_vars => IInv'
  BY NextType, NextBucket, NextWrites, NextTenants DEF IInv
<1> QED
  BY <1>1, InitIInv, PTL DEF Spec

\* The variables keep their types.
THEOREM TypeCorrect == Spec => []TypeOK
<1>1. IInv => TypeOK
  BY DEF IInv
<1> QED
  BY <1>1, IInvHolds, PTL

\* Whatever the rate, the callers and the order in which requests take the lock with
\* clocks read before it, no window of requests exceeds its budget.
THEOREM BudgetHolds == Spec => []WindowBudget
<1>1. IInv => WindowBudget
  BY DEF IInv, Bucket, Within, WindowBudget
<1> QED
  BY <1>1, IInvHolds, PTL

\* Whatever the number of threads, what is looked for first is repeated at most by
\* those that looked together.
THEOREM RacersOnly == Spec => []OnlyRacersRepeat
<1>1. IInv => OnlyRacersRepeat
  <2> SUFFICES ASSUME IInv PROVE OnlyRacersRepeat
    OBVIOUS
  <2>1. TypeOK /\ Tenants /\ \A k \in Keys : WritesOf(k)
    BY DEF IInv
  <2>2. tenants \in Nat /\ minted \in Nat
        /\ Cardinality(Threads) \in Nat /\ Cardinality(Creating) \in Nat
    BY <2>1, CountTypes DEF TypeOK
  <2>3. tenants <= Cardinality(Threads) + minted
    BY <2>1, <2>2 DEF Tenants
  <2>4. ASSUME NEW k \in Keys PROVE writes[k] <= Cardinality(Threads) + lost[k]
    <3>1. /\ Cardinality(Doing("writing", k)) \in Nat /\ Cardinality(Doing("storing", k)) \in Nat
          /\ Cardinality(Doing("storing", k)) + Cardinality(Doing("writing", k))
               <= Cardinality(Threads)
      BY <2>1, CountTypes DEF PC
    <3>2. writes[k] \in Nat /\ lost[k] \in Nat
      BY <2>1 DEF TypeOK
    <3> QED
      BY <2>1, <2>2, <3>1, <3>2 DEF WritesOf
  <2> QED
    BY <2>3, <2>4 DEF OnlyRacersRepeat
<1> QED
  BY <1>1, IInvHolds, PTL
=============================================================================
