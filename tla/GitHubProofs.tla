---------------------------- MODULE GitHubProofs ----------------------------
(***************************************************************************)
(* Theorems about what talks to GitHub: CircuitBreaker, for every number   *)
(* of threads and every setting, and Backfill, for every number of         *)
(* workers, repositories, pull requests and jobs.                          *)
(*                                                                         *)
(* BreakerInv adds to CircuitBreaker's invariants what the time since      *)
(* opening means.  Backfill's are proved on Basics: a worker's job is its  *)
(* own, what it holds is of the repository it is in, and a list being read *)
(* is as long as the pages before.  Each property adds what a worker in    *)
(* the middle of its job promises: Keeps for the record of a merge,        *)
(* Reports for the progress, Thorough for what it came past, Tallied for   *)
(* what it counts, Welcoming for the comments it may still post.           *)
(***************************************************************************)
EXTENDS Backfill, CircuitBreaker, FiniteSetTheorems, SequenceTheorems, TLAPS

-----------------------------------------------------------------------------
(* The circuit breaker                                                     *)

\* An open breaker was opened, for the last time, by the last failure.
OpenSinceFail == openFor # -1 => openFor = sinceFail

\* Only a cooled breaker is half open.
HalfOpenCooled == state = "half_open" => openFor = Cooldown

BreakerInv == BreakerTypeOK /\ StateMatchesCount /\ OpenSinceFail /\ HalfOpenCooled

\* A breaker starts closed, with nothing counted ...
LEMMA InitBreakerInv == BreakerInit => BreakerInv
  BY SettingsAssumption
  DEF BreakerInit, BreakerInv, BreakerTypeOK, StateMatchesCount, OpenSinceFail, HalfOpenCooled, State, Outcome,
      Enough

\* ... and every step, of any thread and in any order, keeps BreakerInv.
LEMMA NextBreakerInv == BreakerInv /\ [BreakerNext]_breakerVars => BreakerInv'
<1> SUFFICES ASSUME BreakerInv, [BreakerNext]_breakerVars PROVE BreakerInv'
  OBVIOUS
<1> USE SettingsAssumption
        DEF BreakerInv, BreakerTypeOK, StateMatchesCount, OpenSinceFail, HalfOpenCooled, State, Enough
<1>1. ASSUME NEW t \in Threads, Enter(t) PROVE BreakerInv'
  BY <1>1 DEF Enter, Cooled
<1>2. ASSUME NEW t \in Threads, Attempt(t) PROVE BreakerInv'
  BY <1>2 DEF Attempt, Result, LastAttempt
<1>3. ASSUME NEW t \in Threads, OnSuccess(t) PROVE BreakerInv'
  BY <1>3 DEF OnSuccess
<1>4. ASSUME NEW t \in Threads, OnFailure(t) PROVE BreakerInv'
  <2> DEFINE n == IF failures < Enough THEN failures + 1 ELSE failures
  <2>1. /\ n \in 0..Enough /\ failures' = n
        /\ failures >= Threshold => n >= Threshold
        /\ sinceFail' = 0
        /\ pc' \in [Threads -> {"idle", "calling", "succeeded", "failed"}]
        /\ UNCHANGED <<seen, attempt, weather>>
    BY <1>4 DEF OnFailure
  <2>2. CASE state = "half_open" \/ n >= Threshold
    <3>1. state' = "open" /\ openFor' = 0 /\ n >= Threshold
      BY <1>4, <2>1, <2>2 DEF OnFailure
    <3> QED
      BY <2>1, <3>1
  <2>3. CASE ~(state = "half_open" \/ n >= Threshold)
    <3>1. UNCHANGED <<state, openFor>>
      BY <1>4, <2>3 DEF OnFailure
    <3>2. state = "closed"
      BY <2>1, <2>3
    <3> QED
      BY <2>1, <2>3, <3>1, <3>2
  <2> QED
    BY <2>2, <2>3
<1>5. CASE Tick
  BY <1>5 DEF Tick
<1>6. CASE Weather
  BY <1>6 DEF Weather
<1>7. CASE UNCHANGED breakerVars
  BY <1>7 DEF breakerVars
<1> QED
  BY <1>1, <1>2, <1>3, <1>4, <1>5, <1>6, <1>7 DEF BreakerNext, Step

\* BreakerInv always holds.
LEMMA BreakerInvariance == BreakerSpec => []BreakerInv
  BY InitBreakerInv, NextBreakerInv, PTL DEF BreakerSpec

\* Every variable of the breaker and of its callers keeps its type.
THEOREM BreakerTypeCorrect == BreakerSpec => []BreakerTypeOK
<1>1. BreakerInv => BreakerTypeOK
  BY DEF BreakerInv
<1> QED
  BY <1>1, BreakerInvariance, PTL

\* The breaker is closed exactly while fewer than Threshold failures have been
\* reported since the last success.
THEOREM StateCounts == BreakerSpec => []StateMatchesCount
<1>1. BreakerInv => StateMatchesCount
  BY DEF BreakerInv
<1> QED
  BY <1>1, BreakerInvariance, PTL

\* After Threshold failures without a success no call begins within the
\* cooldown of the last of them.
THEOREM FailsFast == BreakerSpec => CooldownIsWaited
<1> DEFINE A == \A t \in Threads :
                  pc[t] = "idle" /\ pc'[t] = "calling" /\ failures >= Threshold
                    => sinceFail >= Cooldown
<1>1. BreakerInv /\ [BreakerNext]_breakerVars => [A]_breakerVars
  <2> SUFFICES ASSUME BreakerInv, BreakerNext, NEW t \in Threads,
                      pc[t] = "idle", pc'[t] = "calling", failures >= Threshold
               PROVE  sinceFail >= Cooldown
    OBVIOUS
  <2>1. Enter(t)
    <3>1. ASSUME NEW u \in Threads, Enter(u) PROVE Enter(t)
      BY <3>1 DEF Enter, BreakerInv, BreakerTypeOK
    <3>2. ASSUME NEW u \in Threads, Step(u) PROVE FALSE
      BY <3>2 DEF Step, Attempt, Result, OnSuccess, OnFailure, BreakerInv, BreakerTypeOK
    <3> QED
      BY <3>1, <3>2 DEF BreakerNext, Tick, Weather
  <2>2. state # "closed" /\ openFor # -1
    BY SettingsAssumption DEF BreakerInv, StateMatchesCount, BreakerTypeOK
  <2>3. openFor >= Cooldown
    BY <2>1, <2>2, SettingsAssumption DEF Enter, Cooled, BreakerInv, HalfOpenCooled, BreakerTypeOK, State
  <2> QED
    BY <2>2, <2>3, SettingsAssumption DEF BreakerInv, OpenSinceFail, BreakerTypeOK
<1> QED
  BY <1>1, BreakerInvariance, PTL DEF BreakerSpec, CooldownIsWaited

-----------------------------------------------------------------------------
(* Sums                                                                    *)

\* What Total counts: each member with the numbers up to its own.
Pairs(f, S) == UNION {{x} \X (1..f[x]) : x \in S}

\* A member numbered n counts n times.
LEMMA Block ==
  ASSUME NEW x, NEW n \in Nat
  PROVE  IsFiniteSet({x} \X (1..n)) /\ Cardinality({x} \X (1..n)) = n
<1>1. IsFiniteSet({x}) /\ Cardinality({x}) = 1
  BY FS_Singleton
<1>2. IsFiniteSet(1..n) /\ Cardinality(1..n) = n
  BY FS_Interval
<1>3. /\ IsFiniteSet({x} \X (1..n))
      /\ Cardinality({x} \X (1..n)) = Cardinality({x}) * Cardinality(1..n)
  BY <1>1, <1>2, FS_Product
<1>4. Cardinality({x}) * Cardinality(1..n) = n
  BY <1>1, <1>2
<1> QED
  BY <1>3, <1>4

\* Total is a number, when it sums numbers over a finite set.
LEMMA PairsFinite ==
  ASSUME NEW S, IsFiniteSet(S), NEW f, \A x \in S : f[x] \in Nat
  PROVE  IsFiniteSet(Pairs(f, S)) /\ Total(f, S) = Cardinality(Pairs(f, S)) /\ Total(f, S) \in Nat
<1> DEFINE Part(x) == {x} \X (1..f[x])
           Parts == {Part(x) : x \in S}
           g == [x \in S |-> Part(x)]
<1>1. g \in Surjection(S, Parts)
  BY DEF Surjection
<1>2. IsFiniteSet(Parts)
  <2> HIDE DEF Parts, g
  <2> QED
    BY <1>1, FS_Surjection
<1>3. ASSUME NEW T \in Parts PROVE IsFiniteSet(T)
  <2>1. PICK x \in S : T = {x} \X (1..f[x])
    OBVIOUS
  <2> QED
    BY <2>1, Block
<1>4. IsFiniteSet(UNION Parts)
  <2> HIDE DEF Parts
  <2> QED
    BY <1>2, <1>3, FS_UNION
<1> QED
  BY <1>4, FS_CardinalityType DEF Pairs, Total

\* Where a counted pair comes from.
LEMMA InPairs ==
  ASSUME NEW S, NEW f, NEW z
  PROVE  z \in Pairs(f, S) <=> \E x \in S : z \in {x} \X (1..f[x])
  BY DEF Pairs

\* One member more adds its number.
LEMMA TotalAdd ==
  ASSUME NEW S, IsFiniteSet(S), NEW x, x \notin S, NEW f, \A y \in S \cup {x} : f[y] \in Nat
  PROVE  Total(f, S \cup {x}) = Total(f, S) + f[x]
<1> DEFINE New == {x} \X (1..f[x])
<1>1. IsFiniteSet(New) /\ Cardinality(New) = f[x]
  BY Block
<1>2. Pairs(f, S \cup {x}) = Pairs(f, S) \cup New
  BY DEF Pairs
<1>3. Pairs(f, S) \cap New = {}
  BY DEF Pairs
<1>4. /\ IsFiniteSet(Pairs(f, S)) /\ Total(f, S) = Cardinality(Pairs(f, S)) /\ Total(f, S) \in Nat
      /\ Total(f, S \cup {x}) = Cardinality(Pairs(f, S \cup {x}))
  BY PairsFinite, FS_AddElement
<1>5. Cardinality(Pairs(f, S) \cup New) = Cardinality(Pairs(f, S)) + Cardinality(New)
  <2> HIDE DEF New
  <2>1. Cardinality(Pairs(f, S) \cap New) = 0
    BY <1>3, FS_EmptySet
  <2>2. Cardinality(Pairs(f, S) \cup New)
          = Cardinality(Pairs(f, S)) + Cardinality(New) - Cardinality(Pairs(f, S) \cap New)
    BY <1>1, <1>4, FS_Union
  <2>3. Cardinality(Pairs(f, S)) \in Nat /\ Cardinality(New) \in Nat
    BY <1>1, <1>4, FS_CardinalityType
  <2> QED
    BY <2>1, <2>2, <2>3
<1> QED
  BY <1>1, <1>2, <1>4, <1>5

\* More members, with no smaller numbers, have no smaller a sum.
LEMMA TotalMono ==
  ASSUME NEW S, NEW T, IsFiniteSet(T), S \subseteq T, NEW f, NEW g,
         \A x \in T : g[x] \in Nat, \A x \in S : f[x] \in Nat /\ f[x] <= g[x]
  PROVE  Total(f, S) <= Total(g, T)
<1>1. IsFiniteSet(S)
  BY FS_Subset
<1>2. Pairs(f, S) \subseteq Pairs(g, T)
  BY DEF Pairs
<1> QED
  BY <1>1, <1>2, PairsFinite, FS_Subset

\* One more comment on one pull request, or one more attempt of one job, is one more in all.
LEMMA TotalBump ==
  ASSUME NEW S, IsFiniteSet(S), NEW x \in S, NEW f, NEW g, \A y \in S : f[y] \in Nat,
         g[x] = f[x] + 1, \A y \in S \ {x} : g[y] = f[y]
  PROVE  Total(g, S) = Total(f, S) + 1
<1> DEFINE T == S \ {x}
<1>1. IsFiniteSet(T) /\ x \notin T /\ S = T \cup {x}
  BY FS_RemoveElement
<1>2. Total(f, S) = Total(f, T) + f[x] /\ Total(g, S) = Total(g, T) + g[x]
  <2> HIDE DEF T
  <2>1. \A y \in T \cup {x} : f[y] \in Nat /\ g[y] \in Nat
    BY <1>1 DEF T
  <2> QED
    BY <1>1, <2>1, TotalAdd
<1>3. Total(f, T) <= Total(g, T) /\ Total(g, T) <= Total(f, T) /\ Total(f, T) \in Nat
      /\ Total(g, T) \in Nat
  BY <1>1, TotalMono, PairsFinite
<1> QED
  BY <1>2, <1>3

\* No member has more than the sum.
LEMMA TotalBound ==
  ASSUME NEW S, IsFiniteSet(S), NEW x \in S, NEW f, \A y \in S : f[y] \in Nat
  PROVE  f[x] <= Total(f, S)
<1>1. IsFiniteSet(S \ {x}) /\ x \notin S \ {x} /\ S = (S \ {x}) \cup {x}
  BY FS_RemoveElement
<1>2. Total(f, (S \ {x}) \cup {x}) = Total(f, S \ {x}) + f[x] /\ Total(f, S \ {x}) \in Nat
  BY <1>1, TotalAdd, PairsFinite
<1>3. Total(f, S) = Total(f, S \ {x}) + f[x] /\ f[x] \in Nat
  BY <1>1, <1>2
<1> QED
  BY <1>2, <1>3

-----------------------------------------------------------------------------
(* What each step leaves typed, and who works on what                      *)

\* A job's progress, its repositories not yet bounded by how many there are.
Tally == [state : {"none", "running", "done", "error"}, repos : Nat, captured : Nat, posted : Nat]

\* What GitHub, the tables and the history hold.
Stores ==
  /\ github \in [PRs -> Version]
  /\ updated \in Orders
  /\ greetings \in [PRs -> Nat]
  /\ hook \in [PRs -> {"none", "due", "done", "dropped"}]
  /\ record \in [PRs -> Version \cup {"none"}]
  /\ payload \in [Jobs -> SUBSET Repos]
  /\ progress \in [Jobs -> Tally]
  /\ phase \in [Jobs -> {"absent", "queued", "running", "done", "error"}]
  /\ tries \in [Jobs -> 0..MaxAttempts]
  /\ holder \in [Jobs -> SUBSET Workers]
  /\ unlisted \in [Jobs -> SUBSET PRs] /\ moved \in [Jobs -> SUBSET PRs]
  /\ unheard \in [PRs -> 0..MaxUnheard]
  /\ overtaken \subseteq PRs /\ crashes \in 0..MaxCrashes

\* TypeOK without the bound on progress, which only Truthful gives.
Types == Stores /\ run \in [Workers -> Run]

\* An enqueued job is about some repository; one that is not was never tried.
Asked == \A j \in Jobs : IF phase[j] = "absent" THEN tries[j] = 0 ELSE payload[j] # {}

\* A list being read: so far, as many as the pages before this one held, all full.
Paging ==
  \A w \in Workers : run[w].pc = "list" =>
    /\ run[w].page > 0
    /\ Len(run[w].todo) = From(w) /\ From(w) < MaxPRs
    /\ From(w) <= Cardinality(In({run[w].repo}))

\* Where a worker is in one of its repositories (the body of the handler's loop).
Inside == {"list", "prs", "index", "welcome"}

\* What a worker holds is of its job: the repositories left, the one it is in, the
\* listed and the open pull requests of that one, where it has them.
Form(w) ==
  /\ run[w].left \subseteq payload[Job(w)]
  /\ run[w].pc = "begin" => run[w].left = payload[Job(w)]
  /\ run[w].pc = "returned" => run[w].left = {}
  /\ run[w].pc \in Inside => run[w].repo \in payload[Job(w)] \ run[w].left
  /\ \A i \in 1..Len(run[w].todo) : run[w].todo[i].pr \in In({run[w].repo})
  /\ run[w].pc \in {"list", "prs", "index"} \/ run[w].todo = <<>>
  /\ run[w].pc = "welcome" \/ run[w].greet = {}
  /\ run[w].greet \subseteq In({run[w].repo})

\* A worker's job is running and its own.
Works(w) == phase[Job(w)] = "running" /\ holder[Job(w)] = {w} /\ Form(w)

\* Every worker that is not idle works on a job, and no two of them on one.
Working == \A w \in Workers : run[w].pc # "idle" => Works(w)

\* Who works on what, and what its variables may be.
Basics == Types /\ Asked /\ Paging /\ Working

\* The settings and the bounds are numbers.
LEMMA Bounds ==
  /\ PerPage \in Nat \ {0} /\ MaxPRs \in Nat \ {0} /\ MaxAttempts \in Nat \ {0}
  /\ MaxJobs \in Nat /\ MaxUnheard \in Nat /\ MaxCrashes \in Nat
  BY BoundsAssumption

\* Nobody works at first.
LEMMA InitBasics == Init => Basics
<1> SUFFICES ASSUME Init PROVE Basics
  OBVIOUS
<1> USE Bounds DEF Init, Queue!Init, Queue!Jobs, Jobs
<1>1. Types
  BY DEF Types, Stores, Tally, NoProgress, Run, Version
<1>2. Asked /\ Paging /\ Working
  BY DEF Asked, Paging, Working, Idle
<1> QED
  BY <1>1, <1>2 DEF Basics

\* A worker that is not idle has a whole run.
LEMMA Busy ==
  ASSUME Types, NEW w \in Workers, run[w].pc # "idle"
  PROVE  run[w] \in Running
  BY DEF Types, Run, Idle

\* The pull requests of repositories are finitely many.
LEMMA InCounted ==
  ASSUME NEW R
  PROVE  IsFiniteSet(In(R)) /\ Cardinality(In(R)) \in Nat
         /\ Cardinality(In(R)) <= Cardinality(PRs) /\ Cardinality(PRs) \in Nat
<1>1. In(R) \in SUBSET PRs
  BY DEF In
<1> QED
  BY <1>1, FiniteAssumption, FS_Subset, FS_CardinalityType

\* An order stays one when a pull request moves to the front.
LEMMA TouchOrders ==
  ASSUME updated \in Orders, NEW p \in PRs, Touch(p)
  PROVE  updated' \in Orders
<1>1. \A q \in PRs : RepoOf(q) = RepoOf(p) => q \in In({RepoOf(p)})
  BY DEF In
<1>2. Cardinality(In({RepoOf(p)})) \in Nat /\ Cardinality(PRs) \in Nat
      /\ Cardinality(In({RepoOf(p)})) <= Cardinality(PRs)
  BY InCounted
<1>3. \A q \in PRs : updated[q] \in 1..Cardinality(PRs)
  BY DEF Orders
<1>4. updated' = [q \in PRs |->
       IF q = p THEN 1
       ELSE IF RepoOf(q) = RepoOf(p) /\ updated[q] < updated[p] THEN updated[q] + 1
       ELSE updated[q]]
  BY DEF Touch
<1>5. \A q \in PRs : updated[q] <= Cardinality(In({RepoOf(q)}))
  BY DEF Orders
<1>6. \A q, s \in PRs : RepoOf(q) = RepoOf(s) /\ updated[q] = updated[s] => q = s
  BY DEF Orders
<1>7. updated' \in [PRs -> 1..Cardinality(PRs)]
  <2> SUFFICES ASSUME NEW q \in PRs PROVE updated'[q] \in 1..Cardinality(PRs)
    BY <1>4
  <2> QED
    BY <1>2, <1>3, <1>4
<1>8. \A q \in PRs : updated'[q] <= Cardinality(In({RepoOf(q)}))
  <2> TAKE q \in PRs
  <2>1. Cardinality(In({RepoOf(q)})) \in Nat
    BY InCounted
  <2> QED
    BY <1>3, <1>4, <1>5, <2>1
<1>9. ASSUME NEW q \in PRs, NEW s \in PRs, RepoOf(q) = RepoOf(s), updated'[q] = updated'[s]
             PROVE q = s
  BY <1>3, <1>4, <1>6, <1>9
<1> QED
  BY <1>7, <1>8, <1>9 DEF Orders

\* The first n of a repository's list.
Upto(r, n) == {p \in In({r}) : updated[p] <= n}

\* Every place of a repository's list is taken.
LEMMA Positions ==
  ASSUME updated \in Orders, NEW r \in Repos, NEW n \in 1..Cardinality(In({r}))
  PROVE  \E p \in In({r}) : updated[p] = n
<1> DEFINE S == In({r})
           C == Cardinality(S)
           f == [p \in S |-> updated[p]]
<1>1. IsFiniteSet(S) /\ C \in Nat
  BY InCounted
<1>2. \A p \in S : updated[p] \in 1..C
  BY DEF Orders, In
<1>3. \A p, q \in S : updated[p] = updated[q] => p = q
  BY DEF Orders, In
<1>4. f \in Injection(S, 1..C)
  BY <1>2, <1>3 DEF Injection, IsInjective
<1>5. IsFiniteSet(1..C) /\ Cardinality(1..C) = C
  BY <1>1, FS_Interval
<1>6. f \in Surjection(S, 1..C)
  <2> HIDE DEF f, S
  <2> QED
    BY <1>1, <1>4, <1>5, FS_Injection
<1> QED
  BY <1>6 DEF Surjection

\* The first n are n.
LEMMA CountUpto ==
  ASSUME updated \in Orders, NEW r \in Repos, NEW n \in 0..Cardinality(In({r}))
  PROVE  IsFiniteSet(Upto(r, n)) /\ Cardinality(Upto(r, n)) = n
<1> DEFINE S == Upto(r, n)
           f == [p \in S |-> updated[p]]
<1>1. n \in Nat /\ Cardinality(In({r})) \in Nat
  BY InCounted
<1>2. \A p \in S : updated[p] \in 1..n
  BY <1>1 DEF Orders, In, Upto
<1>3. \A p, q \in S : updated[p] = updated[q] => p = q
  BY DEF Orders, In, Upto
<1>4. \A i \in 1..n : \E p \in S : updated[p] = i
  <2> TAKE i \in 1..n
  <2>1. i \in 1..Cardinality(In({r})) /\ i <= n
    BY <1>1
  <2>2. PICK p \in In({r}) : updated[p] = i
    BY <2>1, Positions
  <2> QED
    BY <2>1, <2>2 DEF Upto
<1>5. f \in Injection(S, 1..n) /\ f \in Surjection(S, 1..n)
  BY <1>2, <1>3, <1>4 DEF Injection, IsInjective, Surjection
<1>6. IsFiniteSet(1..n) /\ Cardinality(1..n) = n
  BY <1>1, FS_Interval
<1> HIDE DEF f, S
<1>7. IsFiniteSet(S) /\ Cardinality(S) = n
  BY <1>5, <1>6, FS_Injection
<1> QED
  BY <1>7 DEF S

\* A page: the next PerPage of the list, or what is left of it.
Size(w) == IF From(w) + PerPage < Cardinality(In({run[w].repo})) THEN PerPage
           ELSE Cardinality(In({run[w].repo})) - From(w)

\* What a page of GitHub's list holds: the pull requests in its places, as they are now.
LEMMA PageListed ==
  ASSUME Types, NEW w \in Workers, run[w] \in Running, run[w].page > 0,
         From(w) <= Cardinality(In({run[w].repo}))
  PROVE  /\ From(w) \in Nat /\ Size(w) \in 0..PerPage
         /\ From(w) + Size(w) <= Cardinality(In({run[w].repo}))
         /\ Size(w) < PerPage => From(w) + Size(w) = Cardinality(In({run[w].repo}))
         /\ Page(w) \in Seq(Listed) /\ Len(Page(w)) = Size(w)
         /\ \A i \in 1..Size(w) :
              /\ Page(w)[i].pr \in In({run[w].repo})
              /\ updated[Page(w)[i].pr] = From(w) + i
              /\ Page(w)[i].seen = github[Page(w)[i].pr]
<1> DEFINE all == In({run[w].repo})
           C == Cardinality(all)
           At0(i) == CHOOSE p \in all : updated[p] = From(w) + i
<1>1. run[w].repo \in Repos /\ run[w].page \in Nat
  BY DEF Running
<1>2. C \in Nat
  BY InCounted
<1>3. From(w) \in Nat
  BY <1>1, Bounds DEF From
<1>4. Size(w) \in 0..PerPage /\ From(w) + Size(w) <= C
      /\ (Size(w) < PerPage => From(w) + Size(w) = C)
  BY <1>2, <1>3, Bounds DEF Size
<1>5. Page(w) = [i \in 1..Size(w) |-> Snapshot(At0(i))]
  <2>1. ((IF From(w) + PerPage < C THEN From(w) + PerPage ELSE C) - From(w)) = Size(w)
    BY <1>2, <1>3, Bounds DEF Size
  <2> QED
    BY <2>1 DEF Page
<1>6. ASSUME NEW i \in 1..Size(w) PROVE At0(i) \in all /\ updated[At0(i)] = From(w) + i
  <2>1. From(w) + i \in 1..C
    BY <1>2, <1>3, <1>4, Bounds
  <2>2. \E p \in all : updated[p] = From(w) + i
    BY <1>1, <2>1, Positions DEF Types, Stores
  <2> QED
    BY <2>2
<1>7. ASSUME NEW i \in 1..Size(w)
      PROVE  Page(w)[i].pr = At0(i) /\ Page(w)[i].seen = github[At0(i)] /\ Page(w)[i] \in Listed
  <2>1. Page(w)[i] = Snapshot(At0(i))
    BY <1>5
  <2>2. At0(i) \in PRs /\ github[At0(i)] \in Version
    BY <1>6 DEF Types, Stores, In
  <2> HIDE DEF At0
  <2> QED
    BY <2>1, <2>2 DEF Snapshot, Listed
<1>8. Page(w) \in [1..Size(w) -> Listed]
  BY <1>5, <1>7
<1>9. Page(w) \in Seq(Listed) /\ Len(Page(w)) = Size(w)
  <2>1. Size(w) \in Nat
    BY <1>4, Bounds
  <2> QED
    BY <1>8, <2>1
<1>10. \A i \in 1..Size(w) :
         /\ Page(w)[i].pr \in In({run[w].repo})
         /\ updated[Page(w)[i].pr] = From(w) + i
         /\ Page(w)[i].seen = github[Page(w)[i].pr]
  BY <1>6, <1>7
<1> QED
  BY <1>3, <1>4, <1>9, <1>10

\* Where a worker is that is in no repository.
AnyRepo == CHOOSE x \in Repos : TRUE

\* The other workers stay where they are.
Others(w) == \A u \in Workers \ {w} : run'[u] = run[u]

\* w goes on with its job, and the other workers stay where they are.
Goes(w, c, l, r, g, t, o) ==
  /\ run[w] \in Running /\ run' \in [Workers -> Run] /\ run'[w] \in Running /\ Others(w)
  /\ run'[w].pc = c /\ run'[w].job = Job(w) /\ run'[w].left = l /\ run'[w].repo = r
  /\ run'[w].page = g /\ run'[w].todo = t /\ run'[w].greet = o

\* Where each step of a job takes its worker.  The job starts ...
LEMMA BeginGoes ==
  ASSUME Types, NEW w \in Workers, NEW token \in BOOLEAN, Begin(w, token)
  PROVE  Goes(w, IF token THEN "repos" ELSE "raised", run[w].left, run[w].repo, run[w].page,
              run[w].todo, run[w].greet)
<1>1. run[w] \in Running
  BY Busy DEF Begin, At
<1>2. run \in [Workers -> Run] /\ run' = [run EXCEPT ![w].pc = IF token THEN "repos" ELSE "raised"]
  BY DEF Begin, Types
<1>3. run'[w] \in Running /\ run' \in [Workers -> Run] /\ Others(w)
  BY <1>1, <1>2 DEF Running, Run, Others
<1> QED
  BY <1>1, <1>2, <1>3 DEF Goes, Running, Job

\* ... enters a repository ...
LEMMA NextRepoGoes ==
  ASSUME Types, NEW w \in Workers, NEW r \in Repos, NextRepo(w, r)
  PROVE  Goes(w, "list", run[w].left \ {r}, r, 1, run[w].todo, run[w].greet)
<1>1. run[w] \in Running
  BY Busy DEF NextRepo, At
<1>2. /\ run \in [Workers -> Run]
      /\ run' = [run EXCEPT ![w].pc = "list", ![w].left = @ \ {r}, ![w].repo = r, ![w].page = 1]
  BY DEF NextRepo, Types
<1>3. run'[w] \in Running /\ run' \in [Workers -> Run] /\ Others(w)
  BY <1>1, <1>2 DEF Running, Run, Others
<1> QED
  BY <1>1, <1>2, <1>3 DEF Goes, Running, Job

\* What a worker has listed after the next page.
After(w) ==
  LET listed == run[w].todo \o Page(w)
  IN  SubSeq(listed, 1, IF Len(listed) < MaxPRs THEN Len(listed) ELSE MaxPRs)
\* No page is read after this one.
Last(w) == LastPage(Page(w), run[w].todo \o Page(w))

\* A page is added where the list stood, and cut at max_prs (list_recent_prs).
LEMMA AfterListed ==
  ASSUME Types, Paging, NEW w \in Workers, ListPage(w)
  PROVE  LET n == From(w) + Size(w)
             m == IF n < MaxPRs THEN n ELSE MaxPRs
         IN  /\ Last(w) <=> Size(w) < PerPage \/ n >= MaxPRs
             /\ After(w) \in Seq(Listed) /\ Len(After(w)) = m /\ From(w) <= m /\ m \in Nat
             /\ \A i \in 1..From(w) : After(w)[i] = run[w].todo[i]
             /\ \A i \in (From(w) + 1)..m :
                  /\ After(w)[i].pr \in In({run[w].repo})
                  /\ updated[After(w)[i].pr] = i
                  /\ After(w)[i].seen = github[After(w)[i].pr]
<1> DEFINE n == From(w) + Size(w)
           m == IF n < MaxPRs THEN n ELSE MaxPRs
           listed == run[w].todo \o Page(w)
<1>1. run[w] \in Running /\ run[w].pc = "list"
  BY Busy DEF ListPage, At
<1>2. /\ run[w].page > 0
      /\ Len(run[w].todo) = From(w) /\ From(w) < MaxPRs
      /\ From(w) <= Cardinality(In({run[w].repo}))
  BY <1>1 DEF Paging
<1>3. /\ From(w) \in Nat /\ Size(w) \in Nat
      /\ Page(w) \in Seq(Listed) /\ Len(Page(w)) = Size(w)
      /\ \A i \in 1..Size(w) :
           /\ Page(w)[i].pr \in In({run[w].repo})
           /\ updated[Page(w)[i].pr] = From(w) + i
           /\ Page(w)[i].seen = github[Page(w)[i].pr]
  BY <1>1, <1>2, PageListed, Bounds
<1>4. run[w].todo \in Seq(Listed)
  BY <1>1 DEF Running
<1>5. /\ listed \in Seq(Listed) /\ Len(listed) = n
      /\ \A i \in 1..n : listed[i] = IF i <= From(w) THEN run[w].todo[i] ELSE Page(w)[i - From(w)]
  <2>1. /\ listed \in Seq(Listed) /\ Len(listed) = Len(run[w].todo) + Len(Page(w))
        /\ \A i \in 1..(Len(run[w].todo) + Len(Page(w))) :
             listed[i] = IF i <= Len(run[w].todo) THEN run[w].todo[i]
                         ELSE Page(w)[i - Len(run[w].todo)]
    BY <1>3, <1>4, ConcatProperties
  <2> HIDE DEF listed
  <2> QED
    BY <1>2, <1>3, <2>1
<1>6. m \in Nat /\ From(w) <= m /\ m <= n /\ n \in Nat /\ m <= MaxPRs
  BY <1>2, <1>3, Bounds
<1>7. After(w) = SubSeq(listed, 1, m)
  BY <1>5 DEF After
<1>8. After(w) \in Seq(Listed) /\ Len(After(w)) = m /\ \A i \in 1..m : After(w)[i] = listed[i]
  <2> HIDE DEF m, n, listed
  <2>1. \A i \in 1..m : i \in 1..n /\ listed[i] \in Listed
    <3> TAKE i \in 1..m
    <3>1. i \in 1..n
      BY <1>6
    <3>2. i \in 1..Len(listed)
      BY <1>5, <3>1
    <3> QED
      BY <1>5, <3>1, <3>2, ElementOfSeq
  <2> QED
    BY <1>6, <1>7, <2>1, SubSeqProperties
<1>9. Last(w) <=> Size(w) < PerPage \/ n >= MaxPRs
  BY <1>3, <1>5 DEF Last, LastPage
<1>10. \A i \in 1..From(w) : After(w)[i] = run[w].todo[i]
  <2> HIDE DEF listed, m, n
  <2> TAKE i \in 1..From(w)
  <2>1. i \in 1..m /\ i \in 1..n /\ i <= From(w)
    BY <1>3, <1>6
  <2> QED
    BY <1>5, <1>8, <2>1
<1>11. \A i \in (From(w) + 1)..m :
                  /\ After(w)[i].pr \in In({run[w].repo})
                  /\ updated[After(w)[i].pr] = i
                  /\ After(w)[i].seen = github[After(w)[i].pr]
  <2> HIDE DEF listed, m
  <2> TAKE i \in (From(w) + 1)..m
  <2>1. i \in 1..m /\ i \in 1..n /\ ~(i <= From(w)) /\ i - From(w) \in 1..Size(w)
        /\ From(w) + (i - From(w)) = i
    BY <1>3, <1>6
  <2>2. After(w)[i] = Page(w)[i - From(w)]
    BY <1>5, <1>8, <2>1
  <2> QED
    BY <1>3, <2>1, <2>2
<1> QED
  BY <1>6, <1>8, <1>9, <1>10, <1>11

\* ... reads a page of its list ...
LEMMA ListPageGoes ==
  ASSUME Types, Paging, NEW w \in Workers, ListPage(w)
  PROVE  Goes(w, IF Last(w) THEN "prs" ELSE "list", run[w].left, run[w].repo,
              IF Last(w) THEN 0 ELSE run[w].page + 1, After(w), run[w].greet)
<1>1. run[w] \in Running
  BY Busy DEF ListPage, At
<1>2. /\ run \in [Workers -> Run]
      /\ run' = [run EXCEPT ![w].todo = After(w), ![w].page = IF Last(w) THEN 0 ELSE @ + 1,
                            ![w].pc = IF Last(w) THEN "prs" ELSE "list"]
  BY DEF ListPage, Types, After, Last
<1>3. After(w) \in Seq(Listed)
  BY AfterListed
<1>4. \A c \in {"prs", "list"}, t \in Seq(Listed), g \in Nat :
        [run[w] EXCEPT !.todo = t, !.page = g, !.pc = c] \in Running
  BY <1>1 DEF Running
<1>5. /\ (IF Last(w) THEN "prs" ELSE "list") \in {"prs", "list"}
      /\ (IF Last(w) THEN 0 ELSE run[w].page + 1) \in Nat
  BY <1>1 DEF Running
<1>6. run'[w] = [run[w] EXCEPT !.todo = After(w), !.page = IF Last(w) THEN 0 ELSE run[w].page + 1,
                               !.pc = IF Last(w) THEN "prs" ELSE "list"]
  BY <1>1, <1>2
<1>7. run'[w] \in Running
  <2> DEFINE c == IF Last(w) THEN "prs" ELSE "list"
             g == IF Last(w) THEN 0 ELSE run[w].page + 1
  <2>1. c \in {"prs", "list"} /\ g \in Nat
    BY <1>5
  <2>2. run'[w] = [run[w] EXCEPT !.todo = After(w), !.page = g, !.pc = c]
    BY <1>6
  <2> HIDE DEF c, g
  <2>3. [run[w] EXCEPT !.todo = After(w), !.page = g, !.pc = c] \in Running
    BY <1>3, <1>4, <2>1
  <2> QED
    BY <2>2, <2>3
<1>8. run' \in [Workers -> Run] /\ Others(w)
  BY <1>2, <1>7 DEF Run, Others
<1> QED
  BY <1>1, <1>6, <1>7, <1>8 DEF Goes, Running, Job

\* ... or is refused it, and goes on with what it has ...
LEMMA ListRefusedGoes ==
  ASSUME Types, NEW w \in Workers, ListRefused(w)
  PROVE  Goes(w, "prs", run[w].left, run[w].repo, 0, run[w].todo, run[w].greet)
<1>1. run[w] \in Running
  BY Busy DEF ListRefused, At
<1>2. run \in [Workers -> Run] /\ run' = [run EXCEPT ![w].pc = "prs", ![w].page = 0]
  BY DEF ListRefused, Types
<1>3. run'[w] \in Running /\ run' \in [Workers -> Run] /\ Others(w)
  BY <1>1, <1>2 DEF Running, Run, Others
<1> QED
  BY <1>1, <1>2, <1>3 DEF Goes, Running, Job

\* ... inscribes the first of them ...
LEMMA RecordPRGoes ==
  ASSUME Types, NEW w \in Workers, RecordPR(w)
  PROVE  Goes(w, "index", run[w].left, run[w].repo, run[w].page, Tail(run[w].todo), run[w].greet)
<1>1. run[w] \in Running
  BY Busy DEF RecordPR, At
<1>2. run \in [Workers -> Run] /\ run' = [run EXCEPT ![w].pc = "index", ![w].todo = Tail(@)]
  BY DEF RecordPR, Types
<1>3. Tail(run[w].todo) \in Seq(Listed)
  BY <1>1, HeadTailProperties DEF Running, RecordPR
<1>4. run'[w] \in Running /\ run' \in [Workers -> Run] /\ Others(w)
  BY <1>1, <1>2, <1>3 DEF Running, Run, Others
<1> QED
  BY <1>1, <1>2, <1>4 DEF Goes, Running, Job

\* ... counts it ...
LEMMA CountPRGoes ==
  ASSUME Types, NEW w \in Workers, CountPR(w)
  PROVE  Goes(w, "prs", run[w].left, run[w].repo, run[w].page, run[w].todo, run[w].greet)
<1>1. run[w] \in Running
  BY Busy DEF CountPR, At
<1>2. run \in [Workers -> Run] /\ run' = [run EXCEPT ![w].pc = "prs"]
  BY DEF CountPR, Types
<1>3. run'[w] \in Running /\ run' \in [Workers -> Run] /\ Others(w)
  BY <1>1, <1>2 DEF Running, Run, Others
<1> QED
  BY <1>1, <1>2, <1>3 DEF Goes, Running, Job

\* ... lists the open ones, when there is no more to inscribe ...
LEMMA ListOpenGoes ==
  ASSUME Types, NEW w \in Workers, NEW answered \in BOOLEAN, ListOpen(w, answered)
  PROVE  Goes(w, "welcome", run[w].left, run[w].repo, run[w].page, run[w].todo,
              IF answered THEN Open(run[w].repo) ELSE {})
<1>1. run[w] \in Running
  BY Busy DEF ListOpen, At
<1>2. run \in [Workers -> Run]
      /\ run' = [run EXCEPT ![w].pc = "welcome",
                            ![w].greet = IF answered THEN Open(run[w].repo) ELSE {}]
  BY DEF ListOpen, Types
<1>3. (IF answered THEN Open(run[w].repo) ELSE {}) \in SUBSET PRs
  BY DEF Open, In
<1>4. run'[w] \in Running /\ run' \in [Workers -> Run] /\ Others(w)
  BY <1>1, <1>2, <1>3 DEF Running, Run, Others
<1> QED
  BY <1>1, <1>2, <1>4 DEF Goes, Running, Job

\* Leaving a repository drops what was listed of it, and nothing else.
LEMMA NowhereRuns ==
  ASSUME NEW R \in Running
  PROVE  /\ Nowhere(R) \in Running
         /\ Nowhere(R).pc = R.pc /\ Nowhere(R).job = R.job /\ Nowhere(R).left = R.left
         /\ Nowhere(R).repo = AnyRepo /\ Nowhere(R).page = 0 /\ Nowhere(R).todo = <<>>
         /\ Nowhere(R).greet = {}
<1>1. AnyRepo \in Repos
  BY DEF AnyRepo, Running
<1>2. <<>> \in Seq(Listed) /\ {} \in SUBSET PRs
  OBVIOUS
<1>3. \A x \in Repos, t \in Seq(Listed), g \in SUBSET PRs :
        [R EXCEPT !.repo = x, !.page = 0, !.todo = t, !.greet = g] \in Running
  BY DEF Running
<1>4. [R EXCEPT !.repo = AnyRepo, !.page = 0, !.todo = <<>>, !.greet = {}] \in Running
  <2> HIDE DEF AnyRepo
  <2> QED
    BY <1>1, <1>2, <1>3
<1>5. Nowhere(R) = [R EXCEPT !.repo = AnyRepo, !.page = 0, !.todo = <<>>, !.greet = {}]
  BY DEF Nowhere, AnyRepo
<1> QED
  BY <1>4, <1>5 DEF Running

\* Raising drops it all, but for the job.
LEMMA FailedRuns ==
  ASSUME NEW w \in Workers, run[w] \in Running
  PROVE  /\ Failed(w) \in Running
         /\ Failed(w).pc = "raised" /\ Failed(w).job = Job(w) /\ Failed(w).left = {}
         /\ Failed(w).repo = AnyRepo /\ Failed(w).page = 0 /\ Failed(w).todo = <<>>
         /\ Failed(w).greet = {}
<1> DEFINE R == [run[w] EXCEPT !.pc = "raised", !.left = {}]
<1>1. R \in Running /\ R.pc = "raised" /\ R.job = Job(w) /\ R.left = {}
  BY DEF Running, Job
<1>2. Failed(w) = Nowhere(R)
  BY DEF Failed
<1> HIDE DEF R
<1> QED
  BY <1>1, <1>2, NowhereRuns

\* A worker whose job raised ...
LEMMA FailedGoes ==
  ASSUME Types, NEW w \in Workers, run[w] \in Running, run' = [run EXCEPT ![w] = Failed(w)]
  PROVE  Goes(w, "raised", {}, AnyRepo, 0, <<>>, {})
<1>1. run' \in [Workers -> Run] /\ run'[w] = Failed(w) /\ Others(w)
  BY FailedRuns DEF Types, Run, Others
<1> QED
  BY <1>1, FailedRuns DEF Goes

\* ... wherever it did ...
LEMMA RaiseGoes ==
  ASSUME Types, NEW w \in Workers, Raise(w)
  PROVE  Goes(w, "raised", {}, AnyRepo, 0, <<>>, {})
<1>1. run[w] \in Running
  BY Busy DEF Raise
<1> QED
  BY <1>1, FailedGoes DEF Raise

\* ... welcomes one of the open ones, tries again or gives up ...
LEMMA WelcomeGoes ==
  ASSUME Types, NEW w \in Workers, NEW p \in PRs, NEW answer \in {"created", "refused", "lost"},
         Welcome(w, p, answer)
  PROVE  /\ answer # "lost" =>
              Goes(w, "welcome", run[w].left, run[w].repo, run[w].page, run[w].todo,
                   run[w].greet \ {p})
         /\ answer = "lost" =>
              (run' = run) \/ Goes(w, "raised", {}, AnyRepo, 0, <<>>, {})
<1>1. run[w] \in Running /\ run[w].pc = "welcome"
  BY Busy DEF Welcome, At
<1>2. ASSUME answer # "lost"
      PROVE Goes(w, "welcome", run[w].left, run[w].repo, run[w].page, run[w].todo,
                   run[w].greet \ {p})
  <2>1. run \in [Workers -> Run] /\ run' = [run EXCEPT ![w].greet = @ \ {p}]
    BY <1>2 DEF Welcome, Types
  <2>2. run'[w] \in Running /\ run' \in [Workers -> Run] /\ Others(w)
    BY <1>1, <2>1 DEF Running, Run, Others
  <2> QED
    BY <1>1, <2>1, <2>2 DEF Goes, Running, Job
<1>3. ASSUME answer = "lost" PROVE run' = run \/ run' = [run EXCEPT ![w] = Failed(w)]
  BY <1>3 DEF Welcome
<1> QED
  BY <1>1, <1>2, <1>3, FailedGoes

\* ... leaves the repository ...
LEMMA RepoDoneGoes ==
  ASSUME Types, NEW w \in Workers, RepoDone(w)
  PROVE  Goes(w, "repos", run[w].left, AnyRepo, 0, <<>>, {})
<1> DEFINE R == [run[w] EXCEPT !.pc = "repos"]
<1>1. run[w] \in Running
  BY Busy DEF RepoDone, At
<1>2. R \in Running /\ R.pc = "repos" /\ R.job = Job(w) /\ R.left = run[w].left
  BY <1>1 DEF Running, Job
<1>3. run' = [run EXCEPT ![w] = Nowhere(R)]
  BY DEF RepoDone
<1> HIDE DEF R
<1>4. run' \in [Workers -> Run] /\ run'[w] = Nowhere(R) /\ Others(w)
  BY <1>2, <1>3, NowhereRuns DEF Types, Run, Others
<1> QED
  BY <1>1, <1>2, <1>4, NowhereRuns DEF Goes

\* ... and returns.
LEMMA FinishGoes ==
  ASSUME Types, NEW w \in Workers, Finish(w)
  PROVE  Goes(w, "returned", run[w].left, run[w].repo, run[w].page, run[w].todo, run[w].greet)
<1>1. run[w] \in Running
  BY Busy DEF Finish, At
<1>2. run \in [Workers -> Run] /\ run' = [run EXCEPT ![w].pc = "returned"]
  BY DEF Finish, Types
<1>3. run'[w] \in Running /\ run' \in [Workers -> Run] /\ Others(w)
  BY <1>1, <1>2 DEF Running, Run, Others
<1> QED
  BY <1>1, <1>2, <1>3 DEF Goes, Running, Job

\* A worker takes a job with all of its repositories to do ...
LEMMA TakeGoes ==
  ASSUME Types, Asked, NEW w \in Workers, NEW j \in Jobs, Take(w, j)
  PROVE  /\ run' \in [Workers -> Run] /\ run'[w] \in Running /\ Others(w)
         /\ run'[w].pc = "begin" /\ run'[w].job = j /\ run'[w].left = payload[j]
         /\ run'[w].todo = <<>> /\ run'[w].greet = {}
<1>1. AnyRepo \in Repos
  BY DEF Take, Queue!Take, Asked, Types, Stores, AnyRepo
<1>2. <<>> \in Seq(Listed) /\ payload[j] \in SUBSET Repos
  BY DEF Types, Stores
<1>3. run' = [run EXCEPT ![w] =
       [pc |-> "begin", job |-> j, left |-> payload[j], repo |-> AnyRepo,
        page |-> 0, todo |-> <<>>, greet |-> {}]]
  BY DEF Take, AnyRepo
<1> HIDE DEF AnyRepo
<1>4. run'[w] = [pc |-> "begin", job |-> j, left |-> payload[j], repo |-> AnyRepo,
                 page |-> 0, todo |-> <<>>, greet |-> {}] /\ Others(w)
  BY <1>3 DEF Types, Others
<1>5. run'[w] \in Running
  BY <1>1, <1>2, <1>4 DEF Running
<1> QED
  BY <1>3, <1>4, <1>5 DEF Types, Run

\* ... and is rid of it when it says how it ended, or dies.
LEMMA EndGoes ==
  ASSUME Types, NEW w \in Workers, Mark(w) \/ Crash(w)
  PROVE  run[w] \in Running /\ run' \in [Workers -> Run] /\ run'[w] = Idle /\ Others(w)
<1>1. run[w] # Idle
  BY DEF Mark, Crash, Idle
<1> QED
  BY <1>1 DEF Mark, Crash, Types, Run, Others

\* A step leaves every worker idle or with a whole run.
LEMMA RunTyped ==
  ASSUME Basics, Next
  PROVE  run' \in [Workers -> Run]
<1> USE DEF Basics
<1>1. ASSUME NEW p \in PRs, GitHubStep(p) \/ HookStep(p) PROVE run' \in [Workers -> Run]
  BY <1>1 DEF GitHubStep, HookStep, Update, Merge, HookInscribe, HookFails, Types
<1>2. ASSUME NEW j \in Jobs, NEW R \in SUBSET Repos, Enqueue(j, R) PROVE run' \in [Workers -> Run]
  BY <1>2 DEF Enqueue, Types
<1>3. ASSUME NEW w \in Workers, WorkerStep(w) PROVE run' \in [Workers -> Run]
  <2>1. ASSUME NEW j \in Jobs, Take(w, j) PROVE run' \in [Workers -> Run]
    BY <2>1, TakeGoes
  <2>2. ASSUME NEW token \in BOOLEAN, Begin(w, token) PROVE run' \in [Workers -> Run]
    BY <2>2, BeginGoes DEF Goes
  <2>3. ASSUME NEW r \in Repos, NextRepo(w, r) PROVE run' \in [Workers -> Run]
    BY <2>3, NextRepoGoes DEF Goes
  <2>4. ASSUME NEW answered \in BOOLEAN, ListOpen(w, answered) PROVE run' \in [Workers -> Run]
    BY <2>4, ListOpenGoes DEF Goes
  <2>5. ASSUME NEW p \in PRs, NEW answer \in {"created", "refused", "lost"}, Welcome(w, p, answer)
        PROVE run' \in [Workers -> Run]
    BY <2>5, WelcomeGoes DEF Goes, Types
  <2>6. ASSUME ListPage(w) PROVE run' \in [Workers -> Run]
    BY <2>6, ListPageGoes DEF Goes
  <2>7. ASSUME ListRefused(w) PROVE run' \in [Workers -> Run]
    BY <2>7, ListRefusedGoes DEF Goes
  <2>8. ASSUME RecordPR(w) PROVE run' \in [Workers -> Run]
    BY <2>8, RecordPRGoes DEF Goes
  <2>9. ASSUME CountPR(w) PROVE run' \in [Workers -> Run]
    BY <2>9, CountPRGoes DEF Goes
  <2>10. ASSUME RepoDone(w) PROVE run' \in [Workers -> Run]
    BY <2>10, RepoDoneGoes DEF Goes
  <2>11. ASSUME Finish(w) PROVE run' \in [Workers -> Run]
    BY <2>11, FinishGoes DEF Goes
  <2>12. ASSUME Raise(w) PROVE run' \in [Workers -> Run]
    BY <2>12, RaiseGoes DEF Goes
  <2>13. ASSUME Mark(w) PROVE run' \in [Workers -> Run]
    BY <2>13, EndGoes
  <2> QED
    BY <1>3, <2>1, <2>2, <2>3, <2>4, <2>5, <2>6, <2>7, <2>8, <2>9, <2>10, <2>11, <2>12, <2>13
    DEF WorkerStep
<1>4. ASSUME NEW w \in Workers, Crash(w) PROVE run' \in [Workers -> Run]
  BY <1>4, EndGoes
<1> QED
  BY <1>1, <1>2, <1>3, <1>4 DEF Next

\* Progress stays progress when it counts.
LEMMA TallyTyped ==
  ASSUME NEW T \in Tally
  PROVE  /\ [T EXCEPT !.captured = T.captured + 1] \in Tally
         /\ [T EXCEPT !.repos = T.repos + 1] \in Tally
         /\ [T EXCEPT !.posted = T.posted + 1] \in Tally
<1>1. T.captured + 1 \in Nat /\ T.repos + 1 \in Nat /\ T.posted + 1 \in Nat
  BY DEF Tally
<1>2. \A n \in Nat : [T EXCEPT !.captured = n] \in Tally /\ [T EXCEPT !.repos = n] \in Tally
                    /\ [T EXCEPT !.posted = n] \in Tally
  BY DEF Tally
<1> QED
  BY <1>1, <1>2

\* A worker that is not idle has a job of the queue.
LEMMA JobIs ==
  ASSUME Types, NEW w \in Workers, run[w].pc # "idle"
  PROVE  Job(w) \in Jobs
  BY Busy DEF Running, Job

\* What a step may do to the queue: nothing, or one of JobLifecycle's steps.
Queued ==
  \/ UNCHANGED queue
  \/ \E j \in Jobs : Queue!Submit(j)
  \/ \E j \in Jobs, w \in Workers :
       \/ Queue!Take(j, w) \/ Queue!Strand(j, w)
       \/ \E o \in {"queued", "done", "error"} : Queue!Settle(j, w, o)

\* The queue keeps its types.
LEMMA QueueTyped ==
  ASSUME Types, Queued
  PROVE  /\ phase' \in [Jobs -> {"absent", "queued", "running", "done", "error"}]
         /\ tries' \in [Jobs -> 0..MaxAttempts]
         /\ holder' \in [Jobs -> SUBSET Workers]
<1> USE Bounds DEF Types, Stores, Queue!Submit, Queue!Take, Queue!Strand, Queue!Settle
<1>1. CASE UNCHANGED queue
  BY <1>1 DEF queue
<1>2. ASSUME NEW j \in Jobs, Queue!Submit(j)
      PROVE  /\ phase' \in [Jobs -> {"absent", "queued", "running", "done", "error"}]
             /\ tries' \in [Jobs -> 0..MaxAttempts] /\ holder' \in [Jobs -> SUBSET Workers]
  BY <1>2
<1>3. ASSUME NEW j \in Jobs, NEW w \in Workers, Queue!Take(j, w)
      PROVE  /\ phase' \in [Jobs -> {"absent", "queued", "running", "done", "error"}]
             /\ tries' \in [Jobs -> 0..MaxAttempts] /\ holder' \in [Jobs -> SUBSET Workers]
  BY <1>3
<1>4. ASSUME NEW j \in Jobs, NEW w \in Workers, Queue!Strand(j, w)
      PROVE  /\ phase' \in [Jobs -> {"absent", "queued", "running", "done", "error"}]
             /\ tries' \in [Jobs -> 0..MaxAttempts] /\ holder' \in [Jobs -> SUBSET Workers]
  BY <1>4
<1>5. ASSUME NEW j \in Jobs, NEW w \in Workers, NEW o \in {"queued", "done", "error"},
             Queue!Settle(j, w, o)
      PROVE  /\ phase' \in [Jobs -> {"absent", "queued", "running", "done", "error"}]
             /\ tries' \in [Jobs -> 0..MaxAttempts] /\ holder' \in [Jobs -> SUBSET Workers]
  BY <1>5
<1> QED
  BY <1>1, <1>2, <1>3, <1>4, <1>5 DEF Queued

\* What a step may do to the tables that are not the queue's.
Tables ==
  /\ github' \in [PRs -> Version] /\ updated' \in Orders
  /\ greetings' \in [PRs -> Nat]
  /\ hook' \in [PRs -> {"none", "due", "done", "dropped"}]
  /\ record' \in [PRs -> Version \cup {"none"}]
  /\ payload' \in [Jobs -> SUBSET Repos]
  /\ progress' \in [Jobs -> Tally]
  /\ unlisted' \in [Jobs -> SUBSET PRs] /\ moved' \in [Jobs -> SUBSET PRs]
  /\ unheard' \in [PRs -> 0..MaxUnheard]
  /\ overtaken' \subseteq PRs /\ crashes' \in 0..MaxCrashes

\* A pull request that is updated moves to the front of its list.
LEMMA Touched ==
  ASSUME Types, NEW p \in PRs, Touch(p)
  PROVE  updated' \in Orders /\ moved' \in [Jobs -> SUBSET PRs]
<1>1. updated' \in Orders
  BY TouchOrders DEF Types, Stores
<1>2. \A j \in Jobs : moved[j] \in SUBSET PRs
  BY DEF Types, Stores
<1> QED
  BY <1>1, <1>2 DEF Touch

\* Every step keeps the types of GitHub, the tables and the history.
LEMMA TablesTyped ==
  ASSUME Basics, Next
  PROVE  Tables
<1>1. ASSUME NEW p \in PRs, GitHubStep(p) PROVE Tables
  <2>1. Touch(p)
    BY <1>1 DEF GitHubStep, Update, Merge
  <2>2. updated' \in Orders /\ moved' \in [Jobs -> SUBSET PRs]
    BY <2>1, Touched DEF Basics
  <2> QED
    BY <1>1, <2>2 DEF Basics, Types, Stores, GitHubStep, Update, Merge, Tables, queue, Version
<1>2. ASSUME NEW p \in PRs, HookStep(p) PROVE Tables
  BY <1>2 DEF Basics, Types, Stores, HookStep, HookInscribe, HookFails, Tables, atGitHub, history,
     queue,
              Stored
<1>3. ASSUME NEW j \in Jobs, NEW R \in SUBSET Repos, Enqueue(j, R) PROVE Tables
  BY <1>3 DEF Basics, Types, Stores, Enqueue, Tables, atGitHub, history
<1>4. ASSUME NEW w \in Workers, Crash(w) PROVE Tables
  BY <1>4, Bounds DEF Basics, Types, Stores, Crash, Tables, atGitHub, history
<1>5. ASSUME NEW w \in Workers, WorkerStep(w) PROVE Tables
  <2> USE DEF Basics, Types, Stores, Tables, atGitHub, history
  <2>1. ASSUME NEW j \in Jobs, Take(w, j) PROVE Tables
    BY <2>1 DEF Take
  <2>2. ASSUME NEW token \in BOOLEAN, Begin(w, token) PROVE Tables
    <3>1. Job(w) \in Jobs
      BY <2>2, JobIs DEF Begin, At
    <3>2. Fresh(w) \in Tally /\ [Fresh(w) EXCEPT !.state = "error"] \in Tally
      BY DEF Fresh, NoProgress, Tally
    <3> QED
      BY <2>2, <3>1, <3>2 DEF Begin
  <2>3. ASSUME NEW r \in Repos, NextRepo(w, r) PROVE Tables
    BY <2>3 DEF NextRepo
  <2>4. ASSUME NEW answered \in BOOLEAN, ListOpen(w, answered) PROVE Tables
    BY <2>4 DEF ListOpen
  <2>5. ASSUME NEW p \in PRs, NEW answer \in {"created", "refused", "lost"}, Welcome(w, p, answer)
        PROVE Tables
    <3>1. Job(w) \in Jobs
      BY <2>5, JobIs DEF Welcome, At
    <3>2. progress' \in [Jobs -> Tally]
      <4>1. progress' = [progress EXCEPT ![Job(w)].posted = IF answer = "created" THEN @ + 1 ELSE @]
        BY <2>5 DEF Welcome
      <4>2. progress[Job(w)] \in Tally
        BY <3>1
      <4>3. [progress[Job(w)] EXCEPT !.posted = progress[Job(w)].posted + 1] \in Tally
        BY <4>2, TallyTyped
      <4>4. CASE answer = "created"
        BY <3>1, <4>1, <4>3, <4>4
      <4>5. CASE answer # "created"
        <5>1. progress' = [progress EXCEPT ![Job(w)].posted = @]
          BY <4>1, <4>5
        <5>2. [progress[Job(w)] EXCEPT !.posted = progress[Job(w)].posted] \in Tally
          BY <4>2 DEF Tally
        <5> QED
          BY <3>1, <5>1, <5>2
      <4> QED
        BY <4>4, <4>5
    <3>3. updated' \in Orders /\ moved' \in [Jobs -> SUBSET PRs] /\ greetings' \in [PRs -> Nat]
      <4>1. CASE answer = "refused"
        BY <2>5, <4>1 DEF Welcome
      <4>2. CASE answer # "refused"
        BY <2>5, <4>2, Touched DEF Welcome
      <4> QED
        BY <4>1, <4>2
    <3>4. unheard' \in [PRs -> 0..MaxUnheard]
      <4>1. CASE answer = "lost"
        <5>1. Total(unheard, PRs) < MaxUnheard /\ unheard' = [unheard EXCEPT ![p] = @ + 1]
          BY <2>5, <4>1 DEF Welcome
        <5>2. \A q \in PRs : unheard[q] \in Nat
          BY Bounds
        <5>3. Total(unheard, PRs) \in Nat /\ unheard[p] <= Total(unheard, PRs)
          BY <5>2, FiniteAssumption, PairsFinite, TotalBound
        <5> QED
          BY <5>1, <5>2, <5>3, Bounds
      <4>2. CASE answer # "lost"
        BY <2>5, <4>2 DEF Welcome
      <4> QED
        BY <4>1, <4>2
    <3> QED
      BY <2>5, <3>2, <3>3, <3>4 DEF Welcome
  <2>6. ASSUME ListPage(w) PROVE Tables
    BY <2>6 DEF ListPage, In
  <2>7. ASSUME ListRefused(w) PROVE Tables
    BY <2>7 DEF ListRefused, In
  <2>8. ASSUME RecordPR(w) PROVE Tables
    <3>1. Head(run[w].todo) \in Listed
      BY <2>8, Busy, HeadTailProperties DEF RecordPR, At, Running
    <3>2. Head(run[w].todo).pr \in PRs /\ Head(run[w].todo).seen \in Version
      BY <3>1 DEF Listed
    <3> QED
      BY <2>8, <3>2 DEF RecordPR, Stored
  <2>9. ASSUME CountPR(w) PROVE Tables
    <3>1. Job(w) \in Jobs
      BY <2>9, JobIs DEF CountPR, At
    <3>2. progress' = [progress EXCEPT ![Job(w)].captured = @ + 1]
      BY <2>9 DEF CountPR
    <3>3. progress[Job(w)] \in Tally
      BY <3>1
    <3>4. [progress[Job(w)] EXCEPT !.captured = progress[Job(w)].captured + 1] \in Tally
      BY <3>3, TallyTyped
    <3>5. progress' \in [Jobs -> Tally]
      BY <3>1, <3>2, <3>4
    <3> QED
      BY <2>9, <3>5 DEF CountPR
  <2>10. ASSUME RepoDone(w) PROVE Tables
    <3>1. Job(w) \in Jobs
      BY <2>10, JobIs DEF RepoDone, At
    <3>2. progress' = [progress EXCEPT ![Job(w)].repos = @ + 1]
      BY <2>10 DEF RepoDone
    <3>3. progress[Job(w)] \in Tally
      BY <3>1
    <3>4. [progress[Job(w)] EXCEPT !.repos = progress[Job(w)].repos + 1] \in Tally
      BY <3>3, TallyTyped
    <3>5. progress' \in [Jobs -> Tally]
      BY <3>1, <3>2, <3>4
    <3> QED
      BY <2>10, <3>5 DEF RepoDone
  <2>11. ASSUME Finish(w) PROVE Tables
    <3>1. Job(w) \in Jobs
      BY <2>11, JobIs DEF Finish, At
    <3> QED
      BY <2>11, <3>1 DEF Finish, Tally
  <2>12. ASSUME Raise(w) PROVE Tables
    BY <2>12 DEF Raise
  <2>13. ASSUME Mark(w) PROVE Tables
    BY <2>13 DEF Mark
  <2> QED
    BY <1>5, <2>1, <2>2, <2>3, <2>4, <2>5, <2>6, <2>7, <2>8, <2>9, <2>10, <2>11, <2>12, <2>13
    DEF WorkerStep
<1> QED
  BY <1>1, <1>2, <1>3, <1>4, <1>5 DEF Next

\* Every step takes one of the queue's steps, or leaves it alone.
LEMMA QueueSteps ==
  ASSUME Basics, Next
  PROVE  Queued
<1> USE DEF Queued
<1>1. ASSUME NEW p \in PRs, GitHubStep(p) \/ HookStep(p) PROVE Queued
  BY <1>1 DEF GitHubStep, HookStep, Update, Merge, HookInscribe, HookFails
<1>2. ASSUME NEW j \in Jobs, NEW R \in SUBSET Repos, Enqueue(j, R) PROVE Queued
  BY <1>2 DEF Enqueue
<1>3. ASSUME NEW w \in Workers, WorkerStep(w) PROVE Queued
  <2>1. ASSUME NEW j \in Jobs, Take(w, j) PROVE Queued
    BY <2>1 DEF Take
  <2>2. ASSUME Mark(w) PROVE Queued
    <3>1. Job(w) \in Jobs
      BY <2>2, JobIs DEF Mark, Basics
    <3> QED
      BY <2>2, <3>1 DEF Mark
  <2>3. ASSUME ~ \E j \in Jobs : Take(w, j), ~Mark(w) PROVE UNCHANGED queue
    BY <1>3, <2>3 DEF WorkerStep, Begin, NextRepo, ListPage, ListRefused, RecordPR, CountPR, ListOpen,
                Welcome, RepoDone, Finish, Raise
  <2> QED
    BY <2>1, <2>2, <2>3
<1>4. ASSUME NEW w \in Workers, Crash(w) PROVE Queued
  <2>1. Job(w) \in Jobs
    BY <1>4, JobIs, EndGoes DEF Crash, Basics, Running
  <2> QED
    BY <1>4, <2>1 DEF Crash
<1> QED
  BY <1>1, <1>2, <1>3, <1>4 DEF Next

\* Every step keeps the types.
LEMMA TypesStep == Basics /\ [Next]_vars => Types'
<1> SUFFICES ASSUME Basics, [Next]_vars PROVE Types'
  OBVIOUS
<1>1. CASE Next
  <2>1. Tables /\ run' \in [Workers -> Run] /\ Queued
    BY <1>1, TablesTyped, RunTyped, QueueSteps
  <2>2. /\ phase' \in [Jobs -> {"absent", "queued", "running", "done", "error"}]
        /\ tries' \in [Jobs -> 0..MaxAttempts]
        /\ holder' \in [Jobs -> SUBSET Workers]
    BY <2>1, QueueTyped DEF Queued, Basics
  <2> QED
    BY <2>1, <2>2 DEF Tables, Types, Stores
<1>2. CASE UNCHANGED vars
  BY <1>2 DEF Basics, Types, Stores, vars, queue, atGitHub, history
<1> QED
  BY <1>1, <1>2

\* Neither job nor payload is another's business.
LEMMA AskedStep == Basics /\ [Next]_vars => Asked'
<1> SUFFICES ASSUME Basics, [Next]_vars PROVE Asked'
  OBVIOUS
<1> USE DEF Basics
<1>1. CASE UNCHANGED <<payload, queue>>
  BY <1>1 DEF Asked, queue
<1>2. ASSUME NEW j \in Jobs, NEW R \in SUBSET Repos, Enqueue(j, R) PROVE Asked'
  BY <1>2 DEF Enqueue, Queue!Submit, Asked, Types, Stores
<1>3. ASSUME NEW j \in Jobs, NEW w \in Workers, Take(w, j) PROVE Asked'
  BY <1>3 DEF Take, Queue!Take, Asked, Types, Stores
<1>4. ASSUME NEW w \in Workers, Mark(w) PROVE Asked'
  BY <1>4 DEF Mark, Queue!Settle, Asked, Types, Stores
<1>5. ASSUME NEW w \in Workers, Crash(w) PROVE Asked'
  BY <1>5 DEF Crash, Queue!Strand, Asked, Types, Stores
<1>6. ASSUME ~ UNCHANGED <<payload, queue>>
      PROVE  \/ \E j \in Jobs, R \in SUBSET Repos : Enqueue(j, R)
             \/ \E j \in Jobs, w \in Workers : Take(w, j)
             \/ \E w \in Workers : Mark(w) \/ Crash(w)
  <2>1. Next
    BY <1>6 DEF vars
  <2>2. ASSUME NEW p \in PRs PROVE ~(GitHubStep(p) \/ HookStep(p))
    BY <1>6 DEF GitHubStep, HookStep, Update, Merge, HookInscribe, HookFails
  <2>3. ASSUME NEW w \in Workers, WorkerStep(w) PROVE Mark(w) \/ \E j \in Jobs : Take(w, j)
    BY <1>6, <2>3 DEF WorkerStep, Begin, NextRepo, ListPage, ListRefused, RecordPR, CountPR, ListOpen,
                Welcome, RepoDone, Finish, Raise
  <2> QED
    BY <2>1, <2>2, <2>3 DEF Next
<1> QED
  BY <1>1, <1>2, <1>3, <1>4, <1>5, <1>6

\* A worker, and its job, that a step leaves alone ...
LEMMA WorksOn ==
  ASSUME Basics, NEW u \in Workers, run'[u] = run[u], run[u].pc # "idle",
         phase'[Job(u)] = phase[Job(u)], holder'[Job(u)] = holder[Job(u)],
         payload'[Job(u)] = payload[Job(u)]
  PROVE  Works(u)'
<1>1. Works(u)
  BY DEF Basics, Working
<1>2. Job(u)' = Job(u)
  BY DEF Job
<1> QED
  BY <1>1, <1>2 DEF Works, Form

\* ... one that goes on with its job ...
LEMMA WorkGoesOn ==
  ASSUME Basics, UNCHANGED <<payload, queue>>, NEW w \in Workers,
         run[w].pc # "idle", run'[w].job = Job(w), Others(w), Form(w)'
  PROVE  Working'
<1>1. phase' = phase /\ holder' = holder /\ payload' = payload
  BY DEF queue
<1>2. ASSUME NEW u \in Workers \ {w}, run'[u].pc # "idle" PROVE Works(u)'
  <2>1. run'[u] = run[u]
    BY DEF Others
  <2> QED
    BY <1>1, <1>2, <2>1, WorksOn
<1>3. Works(w)'
  <2>1. Works(w)
    BY DEF Basics, Working
  <2>2. Job(w)' = Job(w)
    BY DEF Job
  <2> QED
    BY <1>1, <2>1, <2>2 DEF Works
<1> QED
  BY <1>2, <1>3 DEF Working

\* ... and a step that no worker takes.
LEMMA WorkStays ==
  ASSUME Basics, UNCHANGED <<payload, queue, run>>
  PROVE  Working'
<1>1. ASSUME NEW u \in Workers, run'[u].pc # "idle" PROVE Works(u)'
  BY <1>1, WorksOn DEF queue
<1> QED
  BY <1>1 DEF Working

\* A worker whose job is gone, or somebody else's work.
LEMMA WorkEnds ==
  ASSUME Basics, UNCHANGED payload, NEW w \in Workers, NEW j \in Jobs,
         run'[w].pc # "idle" => Works(w)', Others(w),
         \A k \in Jobs \ {j} : phase'[k] = phase[k] /\ holder'[k] = holder[k],
         holder[j] \subseteq {w}
  PROVE  Working'
<1>1. ASSUME NEW u \in Workers, run'[u].pc # "idle", u # w PROVE Works(u)'
  <2>1. run'[u] = run[u]
    BY <1>1 DEF Others
  <2>2. Works(u) /\ Job(u) \in Jobs
    BY <1>1, <2>1, JobIs DEF Basics, Working
  <2>3. Job(u) # j
    BY <1>1, <2>2 DEF Works
  <2> QED
    BY <1>1, <2>1, <2>2, <2>3, WorksOn
<1> QED
  BY <1>1 DEF Working

\* No step gives a job to two workers, or leaves a worker with what is not of its job.
LEMMA WorkingStep == Basics /\ [Next]_vars => Working'
<1> SUFFICES ASSUME Basics, [Next]_vars PROVE Working'
  OBVIOUS
<1>1. CASE UNCHANGED vars
  BY <1>1, WorkStays DEF vars
<1>2. ASSUME NEW p \in PRs, GitHubStep(p) \/ HookStep(p) PROVE Working'
  BY <1>2, WorkStays DEF GitHubStep, HookStep, Update, Merge, HookInscribe, HookFails
<1>3. ASSUME NEW j \in Jobs, NEW R \in SUBSET Repos, Enqueue(j, R) PROVE Working'
  <2>1. ASSUME NEW u \in Workers, run'[u].pc # "idle" PROVE Works(u)'
    <3>1. run' = run /\ phase[j] = "absent" /\ phase' = [phase EXCEPT ![j] = "queued"]
          /\ holder' = holder /\ payload' = [payload EXCEPT ![j] = R]
      BY <1>3 DEF Enqueue, Queue!Submit
    <3>2. Works(u) /\ Job(u) \in Jobs
      BY <2>1, <3>1, JobIs DEF Basics, Working
    <3>3. Job(u) # j
      BY <3>1, <3>2 DEF Works
    <3>4. phase'[Job(u)] = phase[Job(u)] /\ holder'[Job(u)] = holder[Job(u)]
          /\ payload'[Job(u)] = payload[Job(u)]
      BY <3>1, <3>2, <3>3 DEF Basics, Types, Stores
    <3> QED
      BY <2>1, <3>1, <3>4, WorksOn
  <2> QED
    BY <2>1 DEF Working
<1>4. ASSUME NEW w \in Workers, Crash(w) PROVE Working'
  <2>1. run[w] \in Running /\ run'[w] = Idle /\ Others(w)
    BY <1>4, EndGoes DEF Basics
  <2>2. Job(w) \in Jobs
    BY <2>1 DEF Running, Job
  <2>3. holder[Job(w)] = {w} /\ phase' = phase /\ holder' = [holder EXCEPT ![Job(w)] = {}]
        /\ payload' = payload
    BY <1>4 DEF Crash, Queue!Strand
  <2> QED
    BY <2>1, <2>2, <2>3, WorkEnds DEF Idle, Basics, Types, Stores
<1>5. ASSUME NEW w \in Workers, Mark(w) PROVE Working'
  <2>1. run[w] \in Running /\ run'[w] = Idle /\ Others(w)
    BY <1>5, EndGoes DEF Basics
  <2>2. Job(w) \in Jobs
    BY <2>1 DEF Running, Job
  <2>3. /\ holder[Job(w)] = {w} /\ holder' = [holder EXCEPT ![Job(w)] = {}] /\ payload' = payload
        /\ \A k \in Jobs \ {Job(w)} : phase'[k] = phase[k]
    BY <1>5 DEF Mark, Queue!Settle, Basics, Types, Stores
  <2> QED
    BY <2>1, <2>2, <2>3, WorkEnds DEF Idle, Basics, Types, Stores
<1>6. ASSUME NEW w \in Workers, NEW j \in Jobs, Take(w, j) PROVE Working'
  <2>1. /\ run'[w].pc = "begin" /\ run'[w].job = j /\ run'[w].left = payload[j]
        /\ run'[w].todo = <<>> /\ run'[w].greet = {} /\ Others(w)
    BY <1>6, TakeGoes DEF Basics
  <2>2. /\ holder[j] = {} /\ holder' = [holder EXCEPT ![j] = {w}]
        /\ phase' = [phase EXCEPT ![j] = "running"] /\ payload' = payload
    BY <1>6 DEF Take, Queue!Take
  <2>3. phase'[j] = "running" /\ holder'[j] = {w}
        /\ \A k \in Jobs \ {j} : phase'[k] = phase[k] /\ holder'[k] = holder[k]
    BY <2>2 DEF Basics, Types, Stores
  <2>4. Works(w)'
    BY <2>1, <2>2, <2>3 DEF Works, Form, Job, Inside
  <2> QED
    BY <2>1, <2>2, <2>3, <2>4, WorkEnds
<1>7. ASSUME NEW w \in Workers, WorkerStep(w), ~Mark(w), ~ \E j \in Jobs : Take(w, j) PROVE Working'
  <2>1. UNCHANGED <<payload, queue>>
    BY <1>7 DEF WorkerStep, Begin, NextRepo, ListPage, ListRefused, RecordPR, CountPR, ListOpen,
                Welcome, RepoDone, Finish, Raise
  <2>2. ASSUME run[w].pc # "idle" PROVE Works(w) /\ run[w].todo \in Seq(Listed)
    BY <2>2, Busy DEF Basics, Working, Running
  <2>3. Types /\ Paging
    BY DEF Basics
  <2>4. ASSUME NEW token \in BOOLEAN, Begin(w, token)
        PROVE  Working'
    <3>1. run[w].pc # "idle"
          /\ Goes(w, IF token THEN "repos" ELSE "raised", run[w].left, run[w].repo, run[w].page,
               run[w].todo, run[w].greet)
      BY <2>3, <2>4, BeginGoes DEF Begin, At
    <3>2. Form(w)'
      BY <2>1, <2>2, <2>4, <3>1 DEF Goes, Begin, At, Works, Form, Inside, Job
    <3> QED
      BY <2>1, <3>1, <3>2, WorkGoesOn DEF Goes
  <2>5. ASSUME NEW r \in Repos, NextRepo(w, r)
        PROVE  Working'
    <3>1. run[w].pc # "idle" /\ Goes(w, "list", run[w].left \ {r}, r, 1, run[w].todo, run[w].greet)
      BY <2>3, <2>5, NextRepoGoes DEF NextRepo, At
    <3>2. Form(w)'
      BY <2>1, <2>2, <2>5, <3>1 DEF Goes, NextRepo, At, Works, Form, Inside, Job
    <3> QED
      BY <2>1, <3>1, <3>2, WorkGoesOn DEF Goes
  <2>6. ASSUME NEW answered \in BOOLEAN, ListOpen(w, answered)
        PROVE  Working'
    <3>1. run[w].pc # "idle" /\ Goes(w, "welcome", run[w].left, run[w].repo, run[w].page,
               run[w].todo, IF answered THEN Open(run[w].repo) ELSE {})
      BY <2>3, <2>6, ListOpenGoes DEF ListOpen, At
    <3>2. Form(w)'
      BY <2>1, <2>2, <2>6, <3>1 DEF Goes, ListOpen, At, Works, Form, Inside, Job, Open
    <3> QED
      BY <2>1, <3>1, <3>2, WorkGoesOn DEF Goes
  <2>7. ASSUME NEW p \in PRs, NEW answer \in {"created", "refused", "lost"}, Welcome(w, p, answer)
        PROVE  Working'
    <3>1. run[w].pc = "welcome"
      BY <2>7 DEF Welcome, At
    <3>2. CASE run' = run
      BY <2>1, <3>2, WorkStays
    <3>3. CASE Goes(w, "welcome", run[w].left, run[w].repo, run[w].page, run[w].todo,
          run[w].greet \ {p})
      <4>1. Form(w)'
        BY <2>1, <2>2, <3>1, <3>3 DEF Goes, Works, Form, Inside, Job
      <4> QED
        BY <2>1, <3>1, <3>3, <4>1, WorkGoesOn DEF Goes
    <3>4. CASE Goes(w, "raised", {}, AnyRepo, 0, <<>>, {})
      <4>1. Form(w)'
        BY <2>1, <2>2, <3>1, <3>4 DEF Goes, Works, Form, Inside, Job
      <4> QED
        BY <2>1, <3>1, <3>4, <4>1, WorkGoesOn DEF Goes
    <3> QED
      BY <2>3, <2>7, <3>2, <3>3, <3>4, WelcomeGoes
  <2>8. ASSUME ListPage(w)
        PROVE  Working'
    <3>1. run[w].pc = "list" /\ Goes(w, IF Last(w) THEN "prs" ELSE "list", run[w].left, run[w].repo,
              IF Last(w) THEN 0 ELSE run[w].page + 1, After(w), run[w].greet)
      BY <2>3, <2>8, ListPageGoes DEF ListPage, At
    <3>2. \A i \in 1..Len(After(w)) : After(w)[i].pr \in In({run[w].repo})
      <4>1. \A i \in 1..Len(run[w].todo) : run[w].todo[i].pr \in In({run[w].repo})
        BY <2>2, <3>1 DEF Works, Form
      <4>2. Len(run[w].todo) = From(w) /\ From(w) \in Int
        <5>1. Len(run[w].todo) = From(w)
          BY <2>3, <3>1 DEF Paging
        <5>2. Len(run[w].todo) \in Nat
          BY <2>2, <3>1, LenProperties
        <5> QED
          BY <5>1, <5>2
      <4>3. Len(After(w)) \in Nat
        BY <2>3, <2>8, AfterListed, LenProperties
      <4>4. /\ \A i \in 1..From(w) : After(w)[i] = run[w].todo[i]
            /\ \A i \in (From(w) + 1)..Len(After(w)) : After(w)[i].pr \in In({run[w].repo})
        BY <2>3, <2>8, AfterListed
      <4>5. ASSUME NEW i \in 1..Len(After(w))
            PROVE i \in 1..From(w) \/ i \in (From(w) + 1)..Len(After(w))
        BY <4>2, <4>3
      <4> QED
        BY <4>1, <4>2, <4>4, <4>5
    <3>3. Form(w)'
      BY <2>1, <2>2, <3>1, <3>2 DEF Goes, Works, Form, Inside, Job
    <3> QED
      BY <2>1, <3>1, <3>3, WorkGoesOn DEF Goes
  <2>9. ASSUME ListRefused(w)
        PROVE  Working'
    <3>1. run[w].pc # "idle" /\ Goes(w, "prs", run[w].left, run[w].repo, 0,
               run[w].todo, run[w].greet)
      BY <2>3, <2>9, ListRefusedGoes DEF ListRefused, At
    <3>2. Form(w)'
      BY <2>1, <2>2, <2>9, <3>1 DEF Goes, ListRefused, At, Works, Form, Inside, Job
    <3> QED
      BY <2>1, <3>1, <3>2, WorkGoesOn DEF Goes
  <2>10. ASSUME RecordPR(w)
        PROVE  Working'
    <3>1. run[w].pc = "prs"
          /\ Goes(w, "index", run[w].left, run[w].repo, run[w].page, Tail(run[w].todo),
                                     run[w].greet)
      BY <2>3, <2>10, RecordPRGoes DEF RecordPR, At
    <3>2. \A i \in 1..Len(Tail(run[w].todo)) : Tail(run[w].todo)[i].pr \in In({run[w].repo})
      <4>1. \A i \in 1..Len(run[w].todo) : run[w].todo[i].pr \in In({run[w].repo})
        BY <2>2, <3>1 DEF Works, Form
      <4>2. /\ Len(Tail(run[w].todo)) = Len(run[w].todo) - 1 /\ Len(run[w].todo) \in Nat
            /\ \A i \in 1..Len(Tail(run[w].todo)) : Tail(run[w].todo)[i] = run[w].todo[i + 1]
        BY <2>2, <2>10, <3>1, HeadTailProperties, LenProperties DEF RecordPR
      <4>3. Len(Tail(run[w].todo)) \in Int
        BY <4>2
      <4>4. ASSUME NEW i \in 1..Len(Tail(run[w].todo)) PROVE i + 1 \in 1..Len(run[w].todo)
        BY <4>2, <4>3
      <4> QED
        BY <4>1, <4>2, <4>4
    <3>3. Form(w)'
      BY <2>1, <2>2, <3>1, <3>2 DEF Goes, Works, Form, Inside, Job
    <3> QED
      BY <2>1, <3>1, <3>3, WorkGoesOn DEF Goes
  <2>11. ASSUME CountPR(w)
        PROVE  Working'
    <3>1. run[w].pc # "idle" /\ Goes(w, "prs", run[w].left, run[w].repo, run[w].page,
               run[w].todo, run[w].greet)
      BY <2>3, <2>11, CountPRGoes DEF CountPR, At
    <3>2. Form(w)'
      BY <2>1, <2>2, <2>11, <3>1 DEF Goes, CountPR, At, Works, Form, Inside, Job
    <3> QED
      BY <2>1, <3>1, <3>2, WorkGoesOn DEF Goes
  <2>12. ASSUME RepoDone(w)
        PROVE  Working'
    <3>1. run[w].pc # "idle" /\ Goes(w, "repos", run[w].left, AnyRepo, 0, <<>>, {})
      BY <2>3, <2>12, RepoDoneGoes DEF RepoDone, At
    <3>2. Form(w)'
      BY <2>1, <2>2, <2>12, <3>1 DEF Goes, RepoDone, At, Works, Form, Inside, Job
    <3> QED
      BY <2>1, <3>1, <3>2, WorkGoesOn DEF Goes
  <2>13. ASSUME Finish(w)
        PROVE  Working'
    <3>1. run[w].pc # "idle" /\ Goes(w, "returned", run[w].left, run[w].repo, run[w].page,
               run[w].todo, run[w].greet)
      BY <2>3, <2>13, FinishGoes DEF Finish, At
    <3>2. Form(w)'
      BY <2>1, <2>2, <2>13, <3>1 DEF Goes, Finish, At, Works, Form, Inside, Job
    <3> QED
      BY <2>1, <3>1, <3>2, WorkGoesOn DEF Goes
  <2>14. ASSUME Raise(w)
        PROVE  Working'
    <3>1. run[w].pc # "idle" /\ Goes(w, "raised", {}, AnyRepo, 0, <<>>, {})
      BY <2>3, <2>14, RaiseGoes DEF Raise, At
    <3>2. Form(w)'
      BY <2>1, <2>2, <2>14, <3>1 DEF Goes, Raise, At, Works, Form, Inside, Job
    <3> QED
      BY <2>1, <3>1, <3>2, WorkGoesOn DEF Goes
  <2> QED
    BY <1>7, <2>4, <2>5, <2>6, <2>7, <2>8, <2>9, <2>10, <2>11, <2>12, <2>13, <2>14 DEF WorkerStep
<1> QED
  BY <1>1, <1>2, <1>3, <1>4, <1>5, <1>6, <1>7 DEF Next, WorkerStep

\* The list a worker is reading, as Paging has it.
ReadsOn(w) ==
  run[w].pc = "list" =>
    /\ run[w].page > 0
    /\ Len(run[w].todo) = From(w) /\ From(w) < MaxPRs
    /\ From(w) <= Cardinality(In({run[w].repo}))

\* A worker's step disturbs no list but its own.
LEMMA PagingByWorker ==
  ASSUME Basics, NEW w \in Workers, Others(w), ReadsOn(w)'
  PROVE  Paging'
<1>1. ASSUME NEW u \in Workers \ {w} PROVE ReadsOn(u)'
  <2>1. run'[u] = run[u]
    BY DEF Others
  <2>2. ReadsOn(u)
    BY DEF Basics, Paging, ReadsOn
  <2> QED
    BY <2>1, <2>2 DEF ReadsOn, From
<1>2. \A u \in Workers : ReadsOn(u)'
  BY <1>1
<1> QED
  BY <1>2 DEF Paging, ReadsOn

\* Every step keeps the lists being read as long as the pages before.
LEMMA PagingStep == Basics /\ [Next]_vars => Paging'
<1> SUFFICES ASSUME Basics, [Next]_vars PROVE Paging'
  OBVIOUS
<1>1. CASE UNCHANGED run
  BY <1>1 DEF Basics, Paging, From
<1>2. ASSUME NEW w \in Workers, Others(w), run'[w].pc # "list" PROVE Paging'
  BY <1>2, PagingByWorker DEF ReadsOn
<1>3. ASSUME NEW p \in PRs, GitHubStep(p) \/ HookStep(p) PROVE UNCHANGED run
  BY <1>3 DEF GitHubStep, HookStep, Update, Merge, HookInscribe, HookFails
<1>4. ASSUME NEW j \in Jobs, NEW R \in SUBSET Repos, Enqueue(j, R) PROVE UNCHANGED run
  BY <1>4 DEF Enqueue
<1>5. ASSUME NEW w \in Workers, Crash(w) \/ Mark(w) PROVE Paging'
  BY <1>2, <1>5, EndGoes DEF Basics, Idle
<1>6. ASSUME NEW w \in Workers, WorkerStep(w) PROVE Paging'
  <2> USE DEF Basics
  <2>1. ASSUME NEW j \in Jobs, Take(w, j) PROVE Paging'
    BY <1>2, <2>1, TakeGoes
  <2>2. ASSUME NEW token \in BOOLEAN, Begin(w, token) PROVE Paging'
    BY <1>2, <2>2, BeginGoes DEF Goes
  <2>3. ASSUME NEW answered \in BOOLEAN, ListOpen(w, answered) PROVE Paging'
    BY <1>2, <2>3, ListOpenGoes DEF Goes
  <2>4. ASSUME NEW p \in PRs, NEW answer \in {"created", "refused", "lost"}, Welcome(w, p, answer)
        PROVE Paging'
    BY <1>1, <1>2, <2>4, WelcomeGoes DEF Goes
  <2>5. ASSUME ListRefused(w) PROVE Paging'
    BY <1>2, <2>5, ListRefusedGoes DEF Goes
  <2>6. ASSUME RecordPR(w) PROVE Paging'
    BY <1>2, <2>6, RecordPRGoes DEF Goes
  <2>7. ASSUME CountPR(w) PROVE Paging'
    BY <1>2, <2>7, CountPRGoes DEF Goes
  <2>8. ASSUME RepoDone(w) PROVE Paging'
    BY <1>2, <2>8, RepoDoneGoes DEF Goes
  <2>9. ASSUME Finish(w) PROVE Paging'
    BY <1>2, <2>9, FinishGoes DEF Goes
  <2>10. ASSUME Raise(w) PROVE Paging'
    BY <1>2, <2>10, RaiseGoes DEF Goes
  <2>11. ASSUME NEW r \in Repos, NextRepo(w, r) PROVE Paging'
    <3>1. Goes(w, "list", run[w].left \ {r}, r, 1, run[w].todo, run[w].greet) /\ run[w].pc = "repos"
      BY <2>11, NextRepoGoes DEF NextRepo, At
    <3>2. run[w].todo = <<>>
      BY <3>1 DEF Working, Works, Form
    <3>3. Len(<<>>) = 0
      BY EmptySeq
    <3>4. From(w)' = 0 /\ Cardinality(In({r})) \in Nat
      BY <3>1, InCounted, Bounds DEF From, Goes
    <3>5. ReadsOn(w)'
      BY <3>1, <3>2, <3>3, <3>4, Bounds DEF ReadsOn, Goes
    <3> QED
      BY <3>1, <3>5, PagingByWorker DEF Goes
  <2>12. ASSUME ListPage(w) PROVE Paging'
    <3>1. run[w].pc = "list" /\ Goes(w, IF Last(w) THEN "prs" ELSE "list", run[w].left, run[w].repo,
              IF Last(w) THEN 0 ELSE run[w].page + 1, After(w), run[w].greet)
      BY <2>12, ListPageGoes DEF ListPage, At
    <3>2. CASE Last(w)
      BY <1>2, <3>1, <3>2 DEF Goes
    <3>3. CASE ~Last(w)
      <4>1. /\ run[w].page > 0 /\ Len(run[w].todo) = From(w) /\ From(w) < MaxPRs
            /\ From(w) <= Cardinality(In({run[w].repo})) /\ run[w] \in Running
        BY <3>1 DEF Paging, Goes
      <4>2. /\ Size(w) \in 0..PerPage /\ From(w) \in Nat
            /\ From(w) + Size(w) <= Cardinality(In({run[w].repo}))
        BY <4>1, PageListed
      <4>3. /\ ~(Size(w) < PerPage) /\ ~(From(w) + Size(w) >= MaxPRs)
            /\ Len(After(w)) = IF From(w) + Size(w) < MaxPRs THEN From(w) + Size(w) ELSE MaxPRs
        BY <2>12, <3>3, AfterListed
      <4>4. Size(w) = PerPage /\ Len(After(w)) = From(w) + PerPage /\ From(w) + PerPage < MaxPRs
        BY <4>2, <4>3, Bounds
      <4>5. From(w)' = From(w) + PerPage
        <5>1. run'[w].page = run[w].page + 1 /\ run[w].page \in Nat
          BY <3>1, <3>3 DEF Goes, Running
        <5>2. From(w)' = run[w].page * PerPage /\ From(w) = (run[w].page - 1) * PerPage
          BY <5>1 DEF From
        <5> QED
          BY <5>1, <5>2, Bounds
      <4>6. ReadsOn(w)'
        BY <3>1, <3>3, <4>1, <4>2, <4>4, <4>5 DEF ReadsOn, Goes, Running
      <4> QED
        BY <3>1, <4>6, PagingByWorker DEF Goes
    <3> QED
      BY <3>2, <3>3
  <2>13. ASSUME Mark(w) PROVE Paging'
    BY <1>5, <2>13
  <2> QED
    BY <1>6, <2>1, <2>2, <2>3, <2>4, <2>5, <2>6, <2>7, <2>8, <2>9, <2>10, <2>11, <2>12, <2>13
    DEF WorkerStep
<1>7. UNCHANGED vars => UNCHANGED run
  BY DEF vars
<1> QED
  BY <1>1, <1>3, <1>4, <1>5, <1>6, <1>7 DEF Next

\* Basics always holds.
LEMMA BasicsHold == Spec => []Basics
<1>1. Basics /\ [Next]_vars => Basics'
  BY TypesStep, AskedStep, WorkingStep, PagingStep DEF Basics
<1> QED
  BY <1>1, InitBasics, PTL DEF Spec

-----------------------------------------------------------------------------
(* What keeps a merge                                                      *)

\* A pull request in hand, listed as open, is open or was overtaken: its merge is what
\* the inscription of it will erase.
InHandOpen ==
  \A w \in Workers : run[w].pc # "idle" =>
    \A i \in 1..Len(run[w].todo) :
       run[w].todo[i].seen = "open" /\ github[run[w].todo[i].pr] = "merged"
           => run[w].todo[i].pr \in overtaken
\* What keeps a merge recorded: only a merged one has a delivery, and no worker can
\* write an older version of it unless it was overtaken.
Keeps ==
  /\ \A p \in PRs : hook[p] # "none" => github[p] = "merged"
  /\ InHandOpen
  /\ MergeKept

\* Nothing is merged at first ...
LEMMA InitKeeps == Init => Keeps
  BY DEF Init, Keeps, InHandOpen, MergeKept, Idle

\* Nothing happens on GitHub or by the hook.
Quiet == UNCHANGED <<github, hook, overtaken>>

\* A worker that writes nothing and holds nothing new keeps Keeps ...
LEMMA KeepsOn ==
  ASSUME Basics, Keeps, Quiet, record' = record, NEW w \in Workers, Others(w),
         run'[w].pc # "idle" => \A i \in 1..Len(run'[w].todo) :
           run'[w].todo[i].seen = "open" /\ github[run'[w].todo[i].pr] = "merged"
               => run'[w].todo[i].pr \in overtaken
  PROVE  Keeps'
<1>1. InHandOpen'
  BY DEF Keeps, InHandOpen, Quiet, Others
<1> QED
  BY <1>1 DEF Keeps, Quiet, MergeKept

\* ... and a step that touches neither GitHub, the hook, a run nor the record.
LEMMA KeepsStays ==
  ASSUME Keeps, UNCHANGED <<github, hook, overtaken, run, record>>
  PROVE Keeps'
  BY DEF Keeps, InHandOpen, MergeKept

\* ... and no step of GitHub, of the webhook or of a worker takes a merge from the record.
LEMMA KeepsStep == Basics /\ Keeps /\ [Next]_vars => Keeps'
<1> SUFFICES ASSUME Basics, Keeps, [Next]_vars PROVE Keeps'
  OBVIOUS
<1>1. CASE UNCHANGED <<github, hook, overtaken, run, record>>
  BY <1>1, KeepsStays
<1>2. ASSUME NEW p \in PRs, Merge(p) PROVE Keeps'
  <2>1. /\ github[p] = "open" /\ github' = [github EXCEPT ![p] = "merged"]
        /\ hook' = [hook EXCEPT ![p] = "due"] /\ run' = run /\ record' = record
        /\ overtaken' = IF \E w \in Workers : InHand(w, p) THEN overtaken \cup {p} ELSE overtaken
    BY <1>2 DEF Merge
  <2>2. github \in [PRs -> Version] /\ hook \in [PRs -> {"none", "due", "done", "dropped"}]
    BY DEF Basics, Types, Stores
  <2>3. InHandOpen'
    <3> SUFFICES ASSUME NEW w \in Workers, run[w].pc # "idle", NEW i \in 1..Len(run[w].todo),
                        run[w].todo[i].seen = "open", github'[run[w].todo[i].pr] = "merged"
                 PROVE  run[w].todo[i].pr \in overtaken'
      BY <2>1 DEF InHandOpen
    <3>1. CASE run[w].todo[i].pr = p
      <4>1. run[w] \in Running /\ i \in DOMAIN run[w].todo
        BY Busy DEF Basics, Running
      <4>2. InHand(w, p)
        BY <3>1, <4>1 DEF InHand, Idle
      <4> QED
        BY <2>1, <3>1, <4>2
    <3>2. CASE run[w].todo[i].pr # p
      <4>1. run[w].todo[i].pr \in PRs
        BY DEF Basics, Working, Works, Form, In
      <4> QED
        BY <2>1, <2>2, <3>2, <4>1 DEF Keeps, InHandOpen
    <3> QED
      BY <3>1, <3>2
  <2> QED
    BY <2>1, <2>2, <2>3 DEF Keeps, MergeKept
<1>3. ASSUME NEW p \in PRs, HookStep(p) PROVE Keeps'
  BY <1>3 DEF HookStep, HookInscribe, HookFails, Stored, Keeps, InHandOpen, MergeKept, atGitHub,
     history,
              Basics, Types, Stores
<1>4. ASSUME NEW w \in Workers, Crash(w) \/ Mark(w) PROVE Keeps'
  BY <1>4, EndGoes, KeepsOn DEF Crash, Mark, Quiet, atGitHub, history, Idle, Basics
<1>5. ASSUME NEW w \in Workers, NEW j \in Jobs, Take(w, j) PROVE Keeps'
  <2>1. Others(w) /\ run'[w].todo = <<>>
    BY <1>5, TakeGoes DEF Basics
  <2>2. Quiet /\ record' = record
    BY <1>5 DEF Take, Quiet, atGitHub, history
  <2> QED
    BY <2>1, <2>2, KeepsOn, EmptySeq
<1>6. ASSUME NEW w \in Workers, RecordPR(w) PROVE Keeps'
  <2>1. /\ run[w].pc = "prs" /\ run[w].todo # <<>>
        /\ Goes(w, "index", run[w].left, run[w].repo, run[w].page, Tail(run[w].todo), run[w].greet)
    BY <1>6, RecordPRGoes DEF RecordPR, At, Basics
  <2>2. run[w].todo \in Seq(Listed)
    BY <2>1 DEF Goes, Running
  <2>3. /\ Len(run[w].todo) \in Nat \ {0} /\ Head(run[w].todo) = run[w].todo[1]
        /\ Tail(run[w].todo) \in Seq(Listed)
        /\ Len(Tail(run[w].todo)) = Len(run[w].todo) - 1
        /\ \A i \in 1..Len(Tail(run[w].todo)) : Tail(run[w].todo)[i] = run[w].todo[i + 1]
    BY <2>1, <2>2, HeadTailProperties, EmptySeq
  <2>4. Quiet
    BY <1>6 DEF RecordPR, Quiet, atGitHub, history
  <2>5. \A i \in 1..Len(run[w].todo) :
          run[w].todo[i].seen = "open" /\ github[run[w].todo[i].pr] = "merged"
              => run[w].todo[i].pr \in overtaken
    BY <2>1 DEF Keeps, InHandOpen
  <2>6. ASSUME NEW i \in 1..Len(Tail(run[w].todo)) PROVE i + 1 \in 1..Len(run[w].todo)
    BY <2>3
  <2>7. \A i \in 1..Len(Tail(run[w].todo)) :
          Tail(run[w].todo)[i].seen = "open" /\ github[Tail(run[w].todo)[i].pr] = "merged"
            => Tail(run[w].todo)[i].pr \in overtaken
    BY <2>3, <2>5, <2>6
  <2>8. InHandOpen'
    BY <2>1, <2>4, <2>7 DEF Goes, Others, Quiet, Keeps, InHandOpen
  <2>9. MergeKept'
    <3> DEFINE h == run[w].todo[1]
    <3>1. record' = [record EXCEPT ![h.pr] = h.seen]
      BY <1>6, <2>3 DEF RecordPR, Stored
    <3>2. 1 \in 1..Len(run[w].todo)
      BY <2>3
    <3>3. h.pr \in PRs /\ h.seen \in Version
      <4>1. h \in Listed
        BY <2>2, <3>2, ElementOfSeq
      <4> QED
        BY <4>1 DEF Listed
    <3>4. h.seen = "open" /\ github[h.pr] = "merged" => h.pr \in overtaken
      BY <2>5, <3>2
    <3> HIDE DEF h
    <3> QED
      BY <2>4, <3>1, <3>3, <3>4 DEF Keeps, MergeKept, Quiet, Version, Basics, Types, Stores
  <2> QED
    BY <2>4, <2>8, <2>9 DEF Keeps, Quiet
<1>7. ASSUME NEW w \in Workers, ListPage(w) PROVE Keeps'
  <2>1. run[w].pc = "list" /\ Goes(w, IF Last(w) THEN "prs" ELSE "list", run[w].left, run[w].repo,
              IF Last(w) THEN 0 ELSE run[w].page + 1, After(w), run[w].greet)
    BY <1>7, ListPageGoes DEF ListPage, At, Basics
  <2>2. Quiet /\ record' = record
    BY <1>7 DEF ListPage, Quiet, atGitHub
  <2>3. Len(run[w].todo) = From(w) /\ Len(run[w].todo) \in Nat
    BY <2>1, LenProperties DEF Basics, Paging, Goes, Running
  <2>4. /\ \A i \in 1..From(w) : After(w)[i] = run[w].todo[i]
        /\ \A i \in (From(w) + 1)..Len(After(w)) : After(w)[i].seen = github[After(w)[i].pr]
        /\ Len(After(w)) \in Nat
    BY <1>7, AfterListed DEF Basics
  <2>5. ASSUME NEW i \in 1..Len(After(w)), After(w)[i].seen = "open",
               github[After(w)[i].pr] = "merged"
        PROVE  After(w)[i].pr \in overtaken
    <3>1. i \in 1..From(w) \/ i \in (From(w) + 1)..Len(After(w))
      BY <2>3, <2>4
    <3>2. i \in 1..From(w)
      BY <2>4, <2>5, <3>1
    <3> QED
      BY <2>1, <2>3, <2>4, <2>5, <3>2 DEF Keeps, InHandOpen
  <2> QED
    BY <2>1, <2>2, <2>5, KeepsOn DEF Goes
<1>8. ASSUME NEW w \in Workers, WorkerStep(w), ~Mark(w), ~ListPage(w), ~RecordPR(w),
             ~ \E j \in Jobs : Take(w, j)
      PROVE Keeps'
  <2>1. Quiet /\ record' = record
    BY <1>8 DEF WorkerStep, Begin, NextRepo, ListRefused, CountPR, ListOpen,
                Welcome, RepoDone, Finish, Raise, Quiet, atGitHub, history
  <2>2. ASSUME Others(w), run'[w].todo = <<>> PROVE Keeps'
    BY <2>1, <2>2, KeepsOn, EmptySeq
  <2>3. ASSUME Others(w), run'[w].todo = run[w].todo, run[w].pc # "idle" PROVE Keeps'
    <3>1. \A i \in 1..Len(run'[w].todo) :
           run'[w].todo[i].seen = "open" /\ github[run'[w].todo[i].pr] = "merged"
               => run'[w].todo[i].pr \in overtaken
      BY <2>3 DEF Keeps, InHandOpen
    <3> QED
      BY <2>1, <2>3, <3>1, KeepsOn
  <2> USE DEF Basics
  <2>4. ASSUME NEW token \in BOOLEAN, Begin(w, token) PROVE Keeps'
    BY <2>3, <2>4, BeginGoes DEF Goes, Begin, At
  <2>5. ASSUME NEW r \in Repos, NextRepo(w, r) PROVE Keeps'
    BY <2>3, <2>5, NextRepoGoes DEF Goes, NextRepo, At
  <2>6. ASSUME NEW answered \in BOOLEAN, ListOpen(w, answered) PROVE Keeps'
    BY <2>3, <2>6, ListOpenGoes DEF Goes, ListOpen, At
  <2>7. ASSUME NEW p \in PRs, NEW answer \in {"created", "refused", "lost"},
               Welcome(w, p, answer) PROVE Keeps'
    <3>1. CASE run' = run
      BY <2>1, <3>1, KeepsStays DEF Quiet
    <3>2. CASE Goes(w, "welcome", run[w].left, run[w].repo, run[w].page, run[w].todo,
          run[w].greet \ {p})
      BY <2>3, <2>7, <3>2 DEF Goes, Welcome, At
    <3>3. CASE Goes(w, "raised", {}, AnyRepo, 0, <<>>, {})
      BY <2>2, <3>3 DEF Goes
    <3> QED
      BY <2>7, <3>1, <3>2, <3>3, WelcomeGoes
  <2>8. ASSUME ListRefused(w) PROVE Keeps'
    BY <2>3, <2>8, ListRefusedGoes DEF Goes, ListRefused, At
  <2>9. ASSUME CountPR(w) PROVE Keeps'
    BY <2>3, <2>9, CountPRGoes DEF Goes, CountPR, At
  <2>10. ASSUME RepoDone(w) PROVE Keeps'
    BY <2>2, <2>10, RepoDoneGoes DEF Goes
  <2>11. ASSUME Finish(w) PROVE Keeps'
    BY <2>3, <2>11, FinishGoes DEF Goes, Finish, At
  <2>12. ASSUME Raise(w) PROVE Keeps'
    BY <2>2, <2>12, RaiseGoes DEF Goes
  <2> QED
    BY <1>8, <2>4, <2>5, <2>6, <2>7, <2>8, <2>9, <2>10, <2>11, <2>12 DEF WorkerStep
<1>9. ASSUME NEW p \in PRs, Update(p) PROVE Keeps'
  BY <1>1, <1>9 DEF Update
<1>10. ASSUME NEW j \in Jobs, NEW R \in SUBSET Repos, Enqueue(j, R) PROVE Keeps'
  BY <1>1, <1>10 DEF Enqueue, atGitHub, history
<1>11. CASE UNCHANGED vars
  BY <1>1, <1>11 DEF vars, atGitHub, history
<1> QED
  BY <1>2, <1>3, <1>4, <1>5, <1>6, <1>7, <1>8, <1>9, <1>10, <1>11 DEF Next, GitHubStep, WorkerStep

\* What a step leaves alone of the work of a worker that does not take it.
Elsewhere(u) ==
  /\ run'[u] = run[u] /\ payload'[Job(u)] = payload[Job(u)]
  /\ progress'[Job(u)] = progress[Job(u)] /\ phase'[Job(u)] = phase[Job(u)]
  /\ unlisted'[Job(u)] = unlisted[Job(u)]
  /\ (updated' = updated /\ moved'[Job(u)] = moved[Job(u)]) \/ \E p \in PRs : Touch(p)

\* A worker's step moves no other.
LEMMA OthersStay ==
  ASSUME Basics, NEW w \in Workers, WorkerStep(w) \/ Crash(w)
  PROVE  Others(w)
<1> USE DEF Basics
<1>1. ASSUME NEW j \in Jobs, Take(w, j) PROVE Others(w)
  BY <1>1, TakeGoes
<1>2. ASSUME NEW token \in BOOLEAN, Begin(w, token) PROVE Others(w)
  BY <1>2, BeginGoes DEF Goes
<1>3. ASSUME NEW r \in Repos, NextRepo(w, r) PROVE Others(w)
  BY <1>3, NextRepoGoes DEF Goes
<1>4. ASSUME NEW answered \in BOOLEAN, ListOpen(w, answered) PROVE Others(w)
  BY <1>4, ListOpenGoes DEF Goes
<1>5. ASSUME NEW p \in PRs, NEW answer \in {"created", "refused", "lost"}, Welcome(w, p, answer)
      PROVE  Others(w)
  BY <1>5, WelcomeGoes DEF Goes, Others
<1>6. ASSUME ListPage(w) PROVE Others(w)
  BY <1>6, ListPageGoes DEF Goes
<1>7. ASSUME ListRefused(w) PROVE Others(w)
  BY <1>7, ListRefusedGoes DEF Goes
<1>8. ASSUME RecordPR(w) PROVE Others(w)
  BY <1>8, RecordPRGoes DEF Goes
<1>9. ASSUME CountPR(w) PROVE Others(w)
  BY <1>9, CountPRGoes DEF Goes
<1>10. ASSUME RepoDone(w) PROVE Others(w)
  BY <1>10, RepoDoneGoes DEF Goes
<1>11. ASSUME Finish(w) PROVE Others(w)
  BY <1>11, FinishGoes DEF Goes
<1>12. ASSUME Raise(w) PROVE Others(w)
  BY <1>12, RaiseGoes DEF Goes
<1>13. ASSUME Mark(w) \/ Crash(w) PROVE Others(w)
  BY <1>13, EndGoes
<1> QED
  BY <1>1, <1>2, <1>3, <1>4, <1>5, <1>6, <1>7, <1>8, <1>9, <1>10, <1>11, <1>12, <1>13
  DEF WorkerStep

\* A worker that has a job goes on with it, until it says how it ended.
LEMMA GoesOn ==
  ASSUME Basics, NEW w \in Workers, WorkerStep(w), ~Mark(w), \A j \in Jobs : ~Take(w, j)
  PROVE  run'[w].pc \in Inside \cup {"repos", "returned", "raised"} /\ run'[w].job = Job(w)
<1> USE DEF Basics, Inside
<1> DEFINE G == run'[w].pc \in Inside \cup {"repos", "returned", "raised"} /\ run'[w].job = Job(w)
<1>2. ASSUME NEW token \in BOOLEAN, Begin(w, token) PROVE G
  BY <1>2, BeginGoes DEF Goes
<1>3. ASSUME NEW r \in Repos, NextRepo(w, r) PROVE G
  BY <1>3, NextRepoGoes DEF Goes
<1>4. ASSUME NEW answered \in BOOLEAN, ListOpen(w, answered) PROVE G
  BY <1>4, ListOpenGoes DEF Goes
<1>5. ASSUME NEW p \in PRs, NEW answer \in {"created", "refused", "lost"}, Welcome(w, p, answer)
      PROVE  G
  BY <1>5, WelcomeGoes DEF Goes, Welcome, At, Job
<1>6. ASSUME ListPage(w) PROVE G
  BY <1>6, ListPageGoes DEF Goes
<1>7. ASSUME ListRefused(w) PROVE G
  BY <1>7, ListRefusedGoes DEF Goes
<1>8. ASSUME RecordPR(w) PROVE G
  BY <1>8, RecordPRGoes DEF Goes
<1>9. ASSUME CountPR(w) PROVE G
  BY <1>9, CountPRGoes DEF Goes
<1>10. ASSUME RepoDone(w) PROVE G
  BY <1>10, RepoDoneGoes DEF Goes
<1>11. ASSUME Finish(w) PROVE G
  BY <1>11, FinishGoes DEF Goes
<1>12. ASSUME Raise(w) PROVE G
  BY <1>12, RaiseGoes DEF Goes
<1> QED
  BY <1>2, <1>3, <1>4, <1>5, <1>6, <1>7, <1>8, <1>9, <1>10, <1>11, <1>12 DEF WorkerStep

\* Two workers have two jobs.
LEMMA DistinctJobs ==
  ASSUME Basics, NEW u \in Workers, NEW w \in Workers, u # w, run[u].pc # "idle", run[w].pc # "idle"
  PROVE  Job(u) # Job(w)
  BY DEF Basics, Working, Works

\* GitHub and the webhook leave a worker's job alone, but for the order of its list ...
LEMMA ElsewhereByGitHub ==
  ASSUME Basics, NEW p \in PRs, GitHubStep(p) \/ HookStep(p), NEW u \in Workers, run[u].pc # "idle"
  PROVE  Elsewhere(u)
  BY DEF GitHubStep, HookStep, Update, Merge, HookInscribe, HookFails, Elsewhere, queue, atGitHub,
     history

\* ... and so does a new job ...
LEMMA ElsewhereByEnqueue ==
  ASSUME Basics, NEW j \in Jobs, NEW R \in SUBSET Repos, Enqueue(j, R), NEW u \in Workers,
         run[u].pc # "idle"
  PROVE  Elsewhere(u)
<1>1. Job(u) \in Jobs /\ Job(u) # j
  BY JobIs DEF Basics, Working, Works, Enqueue, Queue!Submit
<1> QED
  BY <1>1 DEF Enqueue, Queue!Submit, Elsewhere, atGitHub, history, Basics, Types, Stores

\* ... and the steps of the other workers.
LEMMA ElsewhereByOthers ==
  ASSUME Basics, NEW w \in Workers, WorkerStep(w) \/ Crash(w), NEW u \in Workers, u # w,
         run[u].pc # "idle"
  PROVE  Elsewhere(u)
<1>1. Job(u) \in Jobs /\ Works(u)
  BY JobIs DEF Basics, Working
<1> USE DEF Elsewhere, atGitHub, history, queue, Basics, Types, Stores
<1>2. ASSUME NEW j \in Jobs, Take(w, j) PROVE Elsewhere(u)
  <2>1. Others(w)
    BY <1>2, TakeGoes
  <2>2. j # Job(u)
    BY <1>1, <1>2 DEF Works, Take, Queue!Take
  <2> QED
    BY <1>1, <1>2, <2>1, <2>2 DEF Take, Queue!Take, Others
<1>3. ASSUME Mark(w) \/ Crash(w) PROVE Elsewhere(u)
  <2>1. Others(w) /\ run[w] \in Running
    BY <1>3, EndGoes
  <2>2. Job(w) # Job(u)
    BY <2>1, DistinctJobs DEF Running
  <2> QED
    BY <1>1, <1>3, <2>1, <2>2 DEF Mark, Crash, Queue!Settle, Queue!Strand, Others
<1>4. ASSUME NEW token \in BOOLEAN, Begin(w, token) PROVE Elsewhere(u)
  <2>1. Others(w) /\ Job(w) # Job(u)
    BY <1>4, BeginGoes, DistinctJobs DEF Goes, Begin, At
  <2> QED
    BY <1>1, <1>4, <2>1 DEF Begin, Others
<1>5. ASSUME NEW r \in Repos, NextRepo(w, r) PROVE Elsewhere(u)
  <2>1. Others(w) /\ Job(w) # Job(u)
    BY <1>5, NextRepoGoes, DistinctJobs DEF Goes, NextRepo, At
  <2> QED
    BY <1>1, <1>5, <2>1 DEF NextRepo, Others
<1>6. ASSUME NEW answered \in BOOLEAN, ListOpen(w, answered) PROVE Elsewhere(u)
  <2>1. Others(w) /\ Job(w) # Job(u)
    BY <1>6, ListOpenGoes, DistinctJobs DEF Goes, ListOpen, At
  <2> QED
    BY <1>1, <1>6, <2>1 DEF ListOpen, Others
<1>7. ASSUME NEW p \in PRs, NEW answer \in {"created", "refused", "lost"}, Welcome(w, p, answer)
             PROVE Elsewhere(u)
  <2>1. run'[u] = run[u] /\ Job(w) # Job(u)
    BY <1>7, WelcomeGoes, DistinctJobs DEF Goes, Welcome, At, Others
  <2>2. (UNCHANGED <<updated, moved>>) \/ Touch(p)
    BY <1>7 DEF Welcome
  <2> QED
    BY <1>1, <1>7, <2>1, <2>2 DEF Welcome
<1>8. ASSUME ListPage(w) PROVE Elsewhere(u)
  <2>1. Others(w) /\ Job(w) # Job(u)
    BY <1>8, ListPageGoes, DistinctJobs DEF Goes, ListPage, At
  <2>2. unlisted'[Job(u)] = unlisted[Job(u)]
    BY <1>1, <1>8, <2>1 DEF ListPage
  <2> QED
    BY <1>1, <1>8, <2>1, <2>2 DEF ListPage, Others
<1>9. ASSUME ListRefused(w) PROVE Elsewhere(u)
  <2>1. Others(w) /\ Job(w) # Job(u)
    BY <1>9, ListRefusedGoes, DistinctJobs DEF Goes, ListRefused, At
  <2> QED
    BY <1>1, <1>9, <2>1 DEF ListRefused, Others
<1>10. ASSUME RecordPR(w) PROVE Elsewhere(u)
  BY <1>1, <1>10, RecordPRGoes DEF RecordPR, Goes, Others
<1>11. ASSUME CountPR(w) PROVE Elsewhere(u)
  <2>1. Others(w) /\ Job(w) # Job(u)
    BY <1>11, CountPRGoes, DistinctJobs DEF Goes, CountPR, At
  <2> QED
    BY <1>1, <1>11, <2>1 DEF CountPR, Others
<1>12. ASSUME RepoDone(w) PROVE Elsewhere(u)
  <2>1. Others(w) /\ Job(w) # Job(u)
    BY <1>12, RepoDoneGoes, DistinctJobs DEF Goes, RepoDone, At
  <2> QED
    BY <1>1, <1>12, <2>1 DEF RepoDone, Others
<1>13. ASSUME Finish(w) PROVE Elsewhere(u)
  <2>1. Others(w) /\ Job(w) # Job(u)
    BY <1>13, FinishGoes, DistinctJobs DEF Goes, Finish, At
  <2> QED
    BY <1>1, <1>13, <2>1 DEF Finish, Others
<1>14. ASSUME Raise(w) PROVE Elsewhere(u)
  BY <1>1, <1>14, RaiseGoes DEF Raise, Goes, Others
<1> QED
  BY <1>2, <1>3, <1>4, <1>5, <1>6, <1>7, <1>8, <1>9, <1>10, <1>11, <1>12, <1>13, <1>14
  DEF WorkerStep

-----------------------------------------------------------------------------
(* What progress says                                                      *)

\* The repositories of its job a worker has entered ...
Entered(w) == payload[Job(w)] \ run[w].left
\* ... the one it is in ...
Here(w) == IF run[w].pc \in Inside THEN {run[w].repo} ELSE {}
\* ... and those it is done with.
Past(w) == Entered(w) \ Here(w)

\* What a worker's progress says is what it has done: it is done when the worker has
\* returned, and counts the repositories it has left.
Says(w) ==
  /\ run[w].pc \in Inside \cup {"repos"} => progress[Job(w)].state = "running"
  /\ progress[Job(w)].state = "done" => run[w].pc = "returned"
  /\ run[w].pc \in Inside \cup {"repos", "returned"} => progress[Job(w)].repos = Cardinality(Past(w))

\* Every worker's progress does.
Reports == \A w \in Workers : run[w].pc # "idle" => Says(w)

\* A job's progress, whoever wrote it: done only at the end, and with all of its
\* repositories; a retry starts it again.
Truthful ==
  \A j \in Jobs :
    /\ phase[j] = "absent" => progress[j] = NoProgress
    /\ progress[j].state = "done" =>
         phase[j] \in {"running", "done"} /\ progress[j].repos = Cardinality(payload[j])
    /\ progress[j].repos <= Cardinality(Repos)

\* Nothing is reported at first.
LEMMA InitReports == Init => Reports /\ Truthful
<1> SUFFICES ASSUME Init PROVE Reports /\ Truthful
  OBVIOUS
<1>1. Reports
  BY DEF Init, Reports, Idle
<1>2. Cardinality(Repos) \in Nat
  BY FiniteAssumption, FS_CardinalityType
<1>3. Truthful
  BY <1>2 DEF Init, Truthful, NoProgress
<1> QED
  BY <1>1, <1>3

\* A step elsewhere leaves what a worker has done and what its progress says.
LEMMA SaysElsewhere ==
  ASSUME NEW u \in Workers, Says(u), Elsewhere(u)
  PROVE  Says(u)'
  BY DEF Says, Elsewhere, Past, Entered, Here, Job

\* A worker's own step moves both together.
LEMMA SaysByWorker ==
  ASSUME Basics, Reports, Truthful, NEW w \in Workers, WorkerStep(w), run'[w].pc # "idle"
  PROVE  Says(w)'
<1> USE DEF Basics
<1>1. ASSUME run[w].pc # "idle"
      PROVE  /\ run[w] \in Running /\ Job(w) \in Jobs /\ Works(w) /\ Says(w)
             /\ progress[Job(w)] \in Tally
             /\ IsFiniteSet(payload[Job(w)])
  <2>1. run[w] \in Running /\ Job(w) \in Jobs /\ Works(w) /\ Says(w)
    BY <1>1, Busy, JobIs DEF Working, Reports
  <2>2. payload[Job(w)] \in SUBSET Repos
    BY <2>1 DEF Types, Stores
  <2>3. IsFiniteSet(payload[Job(w)])
    BY <2>2, FiniteAssumption, FS_Subset
  <2> QED
    BY <2>1, <2>3 DEF Types, Stores
<1>2. ASSUME NEW j \in Jobs, Take(w, j) PROVE Says(w)'
  <2>1. run'[w].pc = "begin" /\ run'[w].job = j
    BY <1>2, TakeGoes
  <2>2. progress' = progress /\ phase[j] = "queued"
    BY <1>2 DEF Take, Queue!Take
  <2> QED
    BY <2>1, <2>2 DEF Says, Truthful, Inside, Job
<1>3. ASSUME NEW token \in BOOLEAN, Begin(w, token) PROVE Says(w)'
  <2>1. run[w].pc = "begin"
    BY <1>3 DEF Begin, At
  <2>2. Goes(w, IF token THEN "repos" ELSE "raised", run[w].left, run[w].repo, run[w].page,
             run[w].todo, run[w].greet)
    BY <1>3, BeginGoes
  <2>3. /\ progress' = [progress EXCEPT ![Job(w)] = IF token THEN Fresh(w) ELSE [Fresh(w) EXCEPT !.state = "error"]]
        /\ payload' = payload
    BY <1>3 DEF Begin
  <2>4. /\ Fresh(w).state = "running" /\ Fresh(w).repos = 0
        /\ [Fresh(w) EXCEPT !.state = "error"].state = "error"
    BY DEF Fresh, NoProgress
  <2>5. /\ token => progress'[Job(w)].state = "running" /\ progress'[Job(w)].repos = 0
        /\ ~token => progress'[Job(w)].state = "error"
    BY <1>1, <2>1, <2>3, <2>4 DEF Types, Stores
  <2>6. Job(w)' = Job(w) /\ run'[w].left = payload[Job(w)]
        /\ run'[w].pc = IF token THEN "repos" ELSE "raised"
    BY <1>1, <2>1, <2>2 DEF Goes, Job, Works, Form
  <2>7. Past(w)' = {}
    BY <2>3, <2>6 DEF Past, Entered
  <2>8. Cardinality({}) = 0
    BY FS_EmptySet
  <2> QED
    BY <2>5, <2>6, <2>7, <2>8 DEF Says, Inside
<1>4. ASSUME run[w].pc \in Inside \cup {"repos"}, run'[w].pc \in Inside \cup {"repos", "returned"},
             Goes(w, run'[w].pc, run'[w].left, run'[w].repo, run'[w].page, run'[w].todo,
                 run'[w].greet),
             payload' = payload, Past(w)' = Past(w), progress'[Job(w)].repos = progress[Job(w)].repos,
             progress'[Job(w)].state = IF run'[w].pc = "returned" THEN "done"
                 ELSE progress[Job(w)].state
      PROVE Says(w)'
  <2>1. run[w].pc # "idle"
    BY <1>4 DEF Inside
  <2>2. Says(w) /\ Job(w)' = Job(w)
    BY <1>1, <1>4, <2>1 DEF Goes, Job
  <2> QED
    BY <1>4, <2>2 DEF Says, Inside
<1>5. ASSUME NEW r \in Repos, NextRepo(w, r) PROVE Says(w)'
  <2>1. run[w].pc = "repos" /\ Goes(w, "list", run[w].left \ {r}, r, 1, run[w].todo, run[w].greet)
        /\ r \in run[w].left /\ UNCHANGED <<payload, progress>>
    BY <1>5, NextRepoGoes DEF NextRepo, At
  <2>2. Past(w)' = Past(w)
    BY <2>1 DEF Past, Entered, Here, Goes, Job, Inside
  <2> QED
    BY <1>4, <2>1, <2>2 DEF Goes, Inside
<1>6. ASSUME run[w].pc \in Inside, run'[w].pc \in Inside, run'[w].left = run[w].left,
             run'[w].repo = run[w].repo,
             run'[w].job = Job(w), payload' = payload
      PROVE Past(w)' = Past(w)
  BY <1>6 DEF Past, Entered, Here, Job
<1>7. ASSUME NEW answered \in BOOLEAN, ListOpen(w, answered) PROVE Says(w)'
  <2>1. run[w].pc = "prs" /\ Goes(w, "welcome", run[w].left, run[w].repo, run[w].page, run[w].todo,
              IF answered THEN Open(run[w].repo) ELSE {}) /\ UNCHANGED <<payload, progress>>
    BY <1>7, ListOpenGoes DEF ListOpen, At
  <2> QED
    BY <1>4, <1>6, <2>1 DEF Goes, Inside
<1>8. ASSUME ListPage(w) PROVE Says(w)'
  <2>1. run[w].pc = "list" /\ Goes(w, IF Last(w) THEN "prs" ELSE "list", run[w].left, run[w].repo,
              IF Last(w) THEN 0 ELSE run[w].page + 1, After(w), run[w].greet)
        /\ UNCHANGED <<payload, progress>>
    BY <1>8, ListPageGoes DEF ListPage, At
  <2> QED
    BY <1>4, <1>6, <2>1 DEF Goes, Inside
<1>9. ASSUME ListRefused(w) PROVE Says(w)'
  <2>1. run[w].pc = "list" /\ Goes(w, "prs", run[w].left, run[w].repo, 0, run[w].todo, run[w].greet)
        /\ UNCHANGED <<payload, progress>>
    BY <1>9, ListRefusedGoes DEF ListRefused, At
  <2> QED
    BY <1>4, <1>6, <2>1 DEF Goes, Inside
<1>10. ASSUME RecordPR(w) PROVE Says(w)'
  <2>1. run[w].pc = "prs"
        /\ Goes(w, "index", run[w].left, run[w].repo, run[w].page, Tail(run[w].todo), run[w].greet)
        /\ UNCHANGED <<payload, progress>>
    BY <1>10, RecordPRGoes DEF RecordPR, At
  <2> QED
    BY <1>4, <1>6, <2>1 DEF Goes, Inside
<1>11. ASSUME CountPR(w) PROVE Says(w)'
  <2>1. run[w].pc = "index"
        /\ Goes(w, "prs", run[w].left, run[w].repo, run[w].page, run[w].todo, run[w].greet)
        /\ payload' = payload
    BY <1>11, CountPRGoes DEF CountPR, At
  <2>2. progress' = [progress EXCEPT ![Job(w)].captured = @ + 1]
    BY <1>11 DEF CountPR
  <2>3. progress'[Job(w)].repos = progress[Job(w)].repos
        /\ progress'[Job(w)].state = progress[Job(w)].state
    BY <1>1, <2>1, <2>2 DEF Types, Stores, Tally
  <2> QED
    BY <1>4, <1>6, <2>1, <2>3 DEF Goes, Inside
<1>12. ASSUME NEW p \in PRs, NEW answer \in {"created", "refused", "lost"}, Welcome(w, p, answer)
              PROVE Says(w)'
  <2>1. run[w].pc = "welcome" /\ payload' = payload
        /\ progress' = [progress EXCEPT ![Job(w)].posted = IF answer = "created" THEN @ + 1 ELSE @]
    BY <1>12 DEF Welcome, At
  <2>2. progress'[Job(w)].repos = progress[Job(w)].repos
        /\ progress'[Job(w)].state = progress[Job(w)].state
    BY <1>1, <2>1 DEF Types, Stores, Tally
  <2>3. CASE run' = run
    BY <1>1, <2>1, <2>2, <2>3 DEF Says, Past, Entered, Here, Job
  <2>4. CASE Goes(w, "welcome", run[w].left, run[w].repo, run[w].page, run[w].todo,
        run[w].greet \ {p})
    BY <1>4, <1>6, <2>1, <2>2, <2>4 DEF Goes, Inside
  <2>5. CASE Goes(w, "raised", {}, AnyRepo, 0, <<>>, {})
    BY <1>1, <2>1, <2>2, <2>5 DEF Goes, Inside, Says, Job
  <2> QED
    BY <1>12, <2>3, <2>4, <2>5, WelcomeGoes
<1>13. ASSUME RepoDone(w) PROVE Says(w)'
  <2>1. run[w].pc = "welcome" /\ Goes(w, "repos", run[w].left, AnyRepo, 0, <<>>, {})
        /\ payload' = payload
    BY <1>13, RepoDoneGoes DEF RepoDone, At
  <2>2. progress' = [progress EXCEPT ![Job(w)].repos = @ + 1]
    BY <1>13 DEF RepoDone
  <2>3. progress'[Job(w)].repos = progress[Job(w)].repos + 1
        /\ progress'[Job(w)].state = progress[Job(w)].state
    BY <1>1, <2>1, <2>2 DEF Types, Stores, Tally
  <2>4. /\ Past(w) = Entered(w) \ {run[w].repo} /\ Past(w)' = Entered(w) /\ run[w].repo \in Entered(w)
        /\ Entered(w) \in SUBSET payload[Job(w)]
    BY <1>1, <2>1 DEF Past, Entered, Here, Goes, Job, Inside, Works, Form
  <2>5. IsFiniteSet(Entered(w)) /\ Cardinality(Past(w)) = Cardinality(Entered(w)) - 1
        /\ Cardinality(Entered(w)) \in Nat
    <3>1. IsFiniteSet(payload[Job(w)])
      BY <1>1, <2>1
    <3>2. IsFiniteSet(Entered(w))
      BY <2>4, <3>1, FS_Subset
    <3>3. Cardinality(Entered(w)) \in Nat
      BY <3>2, FS_CardinalityType
    <3>4. Cardinality(Entered(w) \ {run[w].repo}) = Cardinality(Entered(w)) - 1
      BY <2>4, <3>2, FS_RemoveElement
    <3> QED
      BY <2>4, <3>2, <3>3, <3>4
  <2>6. progress[Job(w)].repos = Cardinality(Past(w)) /\ progress[Job(w)].state = "running"
    BY <1>1, <2>1 DEF Says, Inside
  <2> QED
    BY <2>1, <2>3, <2>4, <2>5, <2>6 DEF Says, Goes, Job, Inside
<1>14. ASSUME Finish(w) PROVE Says(w)'
  <2>1. run[w].pc = "repos" /\ payload' = payload
        /\ Goes(w, "returned", run[w].left, run[w].repo, run[w].page, run[w].todo, run[w].greet)
    BY <1>14, FinishGoes DEF Finish, At
  <2>2. progress' = [progress EXCEPT ![Job(w)].state = "done"]
    BY <1>14 DEF Finish
  <2>3. progress'[Job(w)].repos = progress[Job(w)].repos /\ progress'[Job(w)].state = "done"
    BY <1>1, <2>1, <2>2 DEF Types, Stores, Tally
  <2>4. Past(w)' = Past(w)
    BY <2>1 DEF Past, Entered, Here, Goes, Job, Inside
  <2> QED
    BY <1>4, <2>1, <2>3, <2>4 DEF Goes, Inside
<1>15. ASSUME Raise(w) PROVE Says(w)'
  <2>1. run[w].pc \in {"begin", "repos", "list", "prs", "index", "welcome"} /\ progress' = progress
        /\ Goes(w, "raised", {}, AnyRepo, 0, <<>>, {})
    BY <1>15, RaiseGoes DEF Raise
  <2>2. run[w].pc # "idle" /\ run[w].pc # "returned"
    BY <2>1
  <2> QED
    BY <1>1, <2>1, <2>2 DEF Goes, Inside, Says, Job
<1>16. ~Mark(w)
  BY EndGoes DEF Idle
<1> QED
  BY <1>2, <1>3, <1>5, <1>7, <1>8, <1>9, <1>10, <1>11, <1>12, <1>13, <1>14, <1>15, <1>16
     DEF WorkerStep

\* Every step keeps every worker's progress at what it has done.
LEMMA ReportsStep == Basics /\ Reports /\ Truthful /\ [Next]_vars => Reports'
<1> SUFFICES ASSUME Basics, Reports, Truthful, [Next]_vars PROVE Reports'
  OBVIOUS
<1>1. ASSUME \A u \in Workers : run[u].pc # "idle" => Elsewhere(u), run' = run PROVE Reports'
  BY <1>1, SaysElsewhere DEF Reports
<1>2. CASE UNCHANGED vars
  BY <1>1, <1>2 DEF vars, Elsewhere, queue, atGitHub, history
<1>3. ASSUME NEW p \in PRs, GitHubStep(p) \/ HookStep(p) PROVE Reports'
  <2>1. run' = run
    BY <1>3 DEF GitHubStep, HookStep, Update, Merge, HookInscribe, HookFails
  <2> QED
    BY <1>1, <1>3, <2>1, ElsewhereByGitHub
<1>4. ASSUME NEW j \in Jobs, NEW R \in SUBSET Repos, Enqueue(j, R) PROVE Reports'
  BY <1>1, <1>4, ElsewhereByEnqueue DEF Enqueue
<1>5. ASSUME NEW w \in Workers, WorkerStep(w) \/ Crash(w) PROVE Reports'
  <2>1. ASSUME NEW u \in Workers, u # w, run'[u].pc # "idle" PROVE Says(u)'
    <3>1. run'[u] = run[u] \/ run[u].pc = "idle"
      BY <1>5, <2>1, ElsewhereByOthers DEF Elsewhere
    <3>2. Others(w)
      BY <1>5, OthersStay
    <3>3. run[u].pc # "idle"
      BY <2>1, <3>2 DEF Others
    <3> QED
      BY <1>5, <2>1, <3>3, ElsewhereByOthers, SaysElsewhere DEF Reports
  <2>2. ASSUME run'[w].pc # "idle" PROVE Says(w)'
    <3>1. ~Crash(w)
      BY <2>2, EndGoes DEF Idle, Basics
    <3> QED
      BY <1>5, <2>2, <3>1, SaysByWorker
  <2> QED
    BY <2>1, <2>2 DEF Reports
<1> QED
  BY <1>2, <1>3, <1>4, <1>5 DEF Next

\* A worker's step leaves the jobs of others alone, but for where GitHub lists what.
LEMMA JobsElsewhere ==
  ASSUME Basics, NEW w \in Workers, WorkerStep(w) \/ Crash(w), NEW j \in Jobs,
         run[w].pc # "idle" => j # Job(w), ~Take(w, j)
  PROVE  /\ progress'[j] = progress[j] /\ phase'[j] = phase[j] /\ payload'[j] = payload[j]
         /\ tries'[j] = tries[j]
<1> USE DEF Basics, Types, Stores, queue
<1>1. ASSUME NEW k \in Jobs, Take(w, k)
      PROVE  progress'[j] = progress[j] /\ phase'[j] = phase[j] /\ payload'[j] = payload[j]
             /\ tries'[j] = tries[j]
  BY <1>1 DEF Take, Queue!Take
<1>2. ASSUME Mark(w) \/ Crash(w)
      PROVE  progress'[j] = progress[j] /\ phase'[j] = phase[j] /\ payload'[j] = payload[j]
             /\ tries'[j] = tries[j]
  <2>1. j # Job(w)
    BY <1>2, EndGoes DEF Running
  <2> QED
    BY <1>2, <2>1 DEF Mark, Crash, Queue!Settle, Queue!Strand
<1>3. ASSUME run[w].pc # "idle", progress' = progress
             \/ \E x : progress' = [progress EXCEPT ![Job(w)] = x],
             UNCHANGED <<payload, queue>>
      PROVE  progress'[j] = progress[j] /\ phase'[j] = phase[j] /\ payload'[j] = payload[j]
             /\ tries'[j] = tries[j]
  BY <1>3
<1>4. ASSUME NEW token \in BOOLEAN, Begin(w, token)
      PROVE  progress'[j] = progress[j] /\ phase'[j] = phase[j] /\ payload'[j] = payload[j]
             /\ tries'[j] = tries[j]
  BY <1>4 DEF Begin, At
<1>5. ASSUME NEW r \in Repos, NextRepo(w, r)
      PROVE  progress'[j] = progress[j] /\ phase'[j] = phase[j] /\ payload'[j] = payload[j]
             /\ tries'[j] = tries[j]
  BY <1>5 DEF NextRepo
<1>6. ASSUME NEW answered \in BOOLEAN, ListOpen(w, answered)
      PROVE  progress'[j] = progress[j] /\ phase'[j] = phase[j] /\ payload'[j] = payload[j]
             /\ tries'[j] = tries[j]
  BY <1>6 DEF ListOpen
<1>7. ASSUME NEW p \in PRs, NEW answer \in {"created", "refused", "lost"}, Welcome(w, p, answer)
      PROVE  progress'[j] = progress[j] /\ phase'[j] = phase[j] /\ payload'[j] = payload[j]
             /\ tries'[j] = tries[j]
  BY <1>7 DEF Welcome, At
<1>8. ASSUME ListPage(w) \/ ListRefused(w) \/ RecordPR(w) \/ Raise(w)
      PROVE  progress'[j] = progress[j] /\ phase'[j] = phase[j] /\ payload'[j] = payload[j]
             /\ tries'[j] = tries[j]
  BY <1>8 DEF ListPage, ListRefused, RecordPR, Raise
<1>9. ASSUME CountPR(w) \/ RepoDone(w) \/ Finish(w)
      PROVE  progress'[j] = progress[j] /\ phase'[j] = phase[j] /\ payload'[j] = payload[j]
             /\ tries'[j] = tries[j]
  BY <1>9 DEF CountPR, RepoDone, Finish, At
<1> QED
  BY <1>1, <1>2, <1>4, <1>5, <1>6, <1>7, <1>8, <1>9 DEF WorkerStep

\* What a worker that raises leaves in its job's progress.
LEMMA RaisedRepos ==
  ASSUME Basics, NEW w \in Workers, WorkerStep(w), run[w].pc # "idle", run'[w].pc = "raised"
  PROVE  progress'[Job(w)].repos \in {0, progress[Job(w)].repos}
<1> USE DEF Basics
<1>1. run[w] \in Running /\ Job(w) \in Jobs /\ progress[Job(w)] \in Tally
  BY Busy, JobIs DEF Types, Stores
<1>2. ASSUME NEW token \in BOOLEAN, Begin(w, token) PROVE progress'[Job(w)].repos = 0
  <2>1. Fresh(w).repos = 0 /\ [Fresh(w) EXCEPT !.state = "error"].repos = 0
    BY DEF Fresh, NoProgress
  <2> QED
    BY <1>1, <1>2, <2>1 DEF Begin, Types, Stores
<1>3. ASSUME NEW p \in PRs, NEW answer \in {"created", "refused", "lost"}, Welcome(w, p, answer)
      PROVE progress'[Job(w)].repos = progress[Job(w)].repos
  <2>1. progress' = [progress EXCEPT ![Job(w)].posted = IF answer = "created" THEN @ + 1 ELSE @]
    BY <1>3 DEF Welcome
  <2> QED
    BY <1>1, <2>1 DEF Types, Stores, Tally
<1>4. ASSUME Raise(w) PROVE progress' = progress
  BY <1>4 DEF Raise
<1>5. ASSUME NEW j \in Jobs, Take(w, j) PROVE FALSE
  BY <1>5, TakeGoes
<1>6. ASSUME NEW r \in Repos, NextRepo(w, r) PROVE FALSE
  BY <1>6, NextRepoGoes DEF Goes
<1>7. ASSUME NEW answered \in BOOLEAN, ListOpen(w, answered) PROVE FALSE
  BY <1>7, ListOpenGoes DEF Goes
<1>8. ~ListPage(w) /\ ~ListRefused(w)
  BY ListPageGoes, ListRefusedGoes DEF Goes
<1>9. ~RecordPR(w) /\ ~CountPR(w)
  BY RecordPRGoes, CountPRGoes DEF Goes
<1>10. ~RepoDone(w) /\ ~Finish(w) /\ ~Mark(w)
  BY RepoDoneGoes, FinishGoes, EndGoes DEF Goes, Idle
<1> QED
  BY <1>2, <1>3, <1>4, <1>5, <1>6, <1>7, <1>8, <1>9, <1>10 DEF WorkerStep

\* No step, a crash or a retry least of all, leaves a progress that overstates.
LEMMA TruthfulStep ==
  ASSUME Basics, Basics', Reports, Reports', Truthful, [Next]_vars
  PROVE  Truthful'
<1> SUFFICES ASSUME NEW j \in Jobs
             PROVE  /\ phase'[j] = "absent" => progress'[j] = NoProgress
                    /\ progress'[j].state = "done" =>
                         phase'[j] \in {"running", "done"}
                             /\ progress'[j].repos = Cardinality(payload'[j])
                    /\ progress'[j].repos <= Cardinality(Repos)
  BY DEF Truthful
<1> DEFINE G == /\ phase'[j] = "absent" => progress'[j] = NoProgress
                /\ progress'[j].state = "done" =>
                     phase'[j] \in {"running", "done"}
                         /\ progress'[j].repos = Cardinality(payload'[j])
                /\ progress'[j].repos <= Cardinality(Repos)
<1>1. ASSUME progress'[j] = progress[j], phase'[j] = phase[j], payload'[j] = payload[j] PROVE G
  BY <1>1 DEF Truthful
<1>2. CASE UNCHANGED vars
  BY <1>1, <1>2 DEF vars, queue
<1>3. ASSUME NEW p \in PRs, GitHubStep(p) \/ HookStep(p) PROVE G
  BY <1>1, <1>3 DEF GitHubStep, HookStep, Update, Merge, HookInscribe, HookFails, queue
<1>4. ASSUME NEW k \in Jobs, NEW R \in SUBSET Repos, Enqueue(k, R) PROVE G
  <2>1. /\ phase[k] = "absent" /\ phase' = [phase EXCEPT ![k] = "queued"] /\ progress' = progress
        /\ payload' = [payload EXCEPT ![k] = R]
    BY <1>4 DEF Enqueue, Queue!Submit
  <2>2. CASE k # j
    BY <1>1, <2>1, <2>2 DEF Basics, Types, Stores
  <2>3. CASE k = j
    BY <2>1, <2>3 DEF Truthful, NoProgress, Basics, Types, Stores
  <2> QED
    BY <2>2, <2>3
<1>5. ASSUME NEW w \in Workers, WorkerStep(w) \/ Crash(w) PROVE G
  <2>1. CASE Take(w, j)
    <3>1. phase[j] = "queued" /\ phase' = [phase EXCEPT ![j] = "running"] /\ UNCHANGED <<progress,
          payload>>
      BY <2>1 DEF Take, Queue!Take
    <3> QED
      BY <3>1 DEF Truthful, Basics, Types, Stores
  <2>2. CASE ~Take(w, j) /\ (run[w].pc # "idle" => j # Job(w))
    BY <1>1, <1>5, <2>2, JobsElsewhere
  <2>3. CASE ~Take(w, j) /\ run[w].pc # "idle" /\ j = Job(w)
    <3>1. phase[j] = "running" /\ holder[j] = {w} /\ Says(w) /\ progress[j] \in Tally
      BY <2>3 DEF Basics, Working, Works, Reports, Types, Stores
    <3>2. CASE Crash(w)
      BY <1>1, <3>2, <2>3 DEF Crash, Queue!Strand
    <3>3. CASE Mark(w)
      <4>1. /\ phase' = [phase EXCEPT ![j] = IF At(w, "returned") THEN "done"
                                         ELSE IF tries[Job(w)] < MaxAttempts THEN "queued"
                                             ELSE "error"]
            /\ UNCHANGED <<progress, payload>>
        BY <2>3, <3>3 DEF Mark, Queue!Settle
      <4>2. phase'[j] # "absent" /\ (At(w, "returned") => phase'[j] = "done")
        BY <4>1 DEF Basics, Types, Stores
      <4>3. progress[j].state = "done" => At(w, "returned")
        BY <2>3, <3>1 DEF Says, At
      <4> QED
        BY <4>1, <4>2, <4>3 DEF Truthful
    <3>4. CASE WorkerStep(w) /\ ~Mark(w)
      <4>1. ASSUME NEW k \in Jobs PROVE ~Take(w, k)
        BY <2>3, <3>1 DEF Take, Queue!Take, Queue!Jobs, Jobs
      <4>2. run'[w].pc # "idle" /\ run'[w].job = j
        BY <2>3, <3>4, <4>1, GoesOn DEF Basics, Inside
      <4>3. Job(w)' = j /\ Works(w)' /\ Says(w)'
        BY <4>2 DEF Basics, Working, Reports, Job
      <4>4. phase'[j] = "running"
        BY <4>3 DEF Works
      <4>5. payload'[j] \in SUBSET Repos /\ IsFiniteSet(payload'[j])
            /\ Cardinality(payload'[j]) <= Cardinality(Repos)
            /\ Cardinality(Repos) \in Nat
        <5>1. payload'[j] \in SUBSET Repos
          BY DEF Basics, Types, Stores
        <5> QED
          BY <5>1, FiniteAssumption, FS_Subset, FS_CardinalityType
      <4>6. Past(w)' \subseteq payload'[j] /\ Cardinality(Past(w)') <= Cardinality(Repos)
        <5>1. Past(w)' \in SUBSET Repos /\ Past(w)' \subseteq payload'[j]
          BY <4>3, <4>5 DEF Past, Entered
        <5> QED
          BY <5>1, FiniteAssumption, FS_Subset
      <4>7. ASSUME progress'[j].state = "done" PROVE progress'[j].repos = Cardinality(payload'[j])
        <5>1. run'[w].pc = "returned"
          BY <4>3, <4>7 DEF Says
        <5>2. Past(w)' = payload'[j]
          BY <4>3, <5>1 DEF Past, Entered, Here, Works, Form, Inside
        <5> QED
          BY <4>3, <5>1, <5>2 DEF Says
      <4>8. progress'[j].repos <= Cardinality(Repos)
        <5>1. CASE run'[w].pc \in Inside \cup {"repos", "returned"}
          BY <4>3, <4>6, <5>1 DEF Says
        <5>2. CASE run'[w].pc = "raised"
          BY <2>3, <3>4, <4>5, <5>2, RaisedRepos DEF Truthful
        <5>3. run'[w].pc \in Inside \cup {"repos", "returned", "raised"}
          BY <2>3, <3>4, <4>1, GoesOn
        <5> QED
          BY <5>1, <5>2, <5>3
      <4> QED
        BY <4>4, <4>7, <4>8
    <3> QED
      BY <1>5, <3>2, <3>3, <3>4
  <2> QED
    BY <2>1, <2>2, <2>3
<1> QED
  BY <1>2, <1>3, <1>4, <1>5 DEF Next

\* Basics with what progress says.
Honest == Basics /\ Reports /\ Truthful

\* Honest always holds.
LEMMA HonestHolds == Spec => []Honest
<1>1. Init => Honest
  BY InitBasics, InitReports DEF Honest
<1>2. Honest /\ [Next]_vars => Honest'
  <2> SUFFICES ASSUME Honest, [Next]_vars PROVE Honest'
    OBVIOUS
  <2>1. Basics'
    BY TypesStep, AskedStep, WorkingStep, PagingStep DEF Honest, Basics
  <2>2. Reports'
    BY ReportsStep DEF Honest
  <2>3. Truthful'
    BY <2>1, <2>2, TruthfulStep DEF Honest
  <2> QED
    BY <2>1, <2>2, <2>3 DEF Honest
<1> QED
  BY <1>1, <1>2, PTL DEF Spec

\* No merge the webhook recorded is lost from the record, however the backfills and
\* GitHub interleave, unless a backfill held the pull request, listed as open, when it
\* was merged: record_event replaces whatever is stored.
THEOREM MergesAreKept == Spec => []MergeKept
<1>1. Basics /\ Keeps /\ [Next]_vars => Keeps'
  BY KeepsStep
<1>2. Keeps => MergeKept
  BY DEF Keeps
<1> QED
  BY <1>1, <1>2, InitKeeps, BasicsHold, PTL DEF Spec

\* Every variable of the backfill keeps its type; that a job counts no more
\* repositories than there are is what Truthful is for.
THEOREM BackfillTypeCorrect == Spec => []TypeOK
<1>1. Honest => TypeOK
  <2> SUFFICES ASSUME Honest PROVE TypeOK
    OBVIOUS
  <2>1. Cardinality(Repos) \in Nat
    BY FiniteAssumption, FS_CardinalityType
  <2>2. ASSUME NEW j \in Jobs PROVE progress[j] \in Progress
    <3>1. progress[j] \in Tally /\ progress[j].repos <= Cardinality(Repos)
      BY DEF Honest, Basics, Types, Stores, Truthful
    <3>2. progress[j].repos \in 0..Cardinality(Repos)
      BY <2>1, <3>1 DEF Tally
    <3> QED
      BY <3>1, <3>2 DEF Tally, Progress
  <2>3. progress \in [Jobs -> Progress]
    BY <2>2 DEF Honest, Basics, Types, Stores
  <2> QED
    BY <2>3 DEF Honest, Basics, Types, Stores, TypeOK
<1> QED
  BY <1>1, HonestHolds, PTL

-----------------------------------------------------------------------------
(* What a backfill records                                                 *)

\* The pull requests in the record.
Recorded == {p \in PRs : record[p] # "none"}
\* Those a job's last attempt left out.
Missed(j) == unlisted[j] \cup moved[j]
\* Those a worker has listed and not yet inscribed.
Hand(w) == {run[w].todo[i].pr : i \in 1..Len(run[w].todo)}

\* A list being read holds all it has come past, but for those that moved meanwhile.
Lists(w) ==
  run[w].pc = "list" =>
    \A p \in In({run[w].repo}) \ moved[Job(w)] : updated[p] <= From(w) => p \in Hand(w)

\* All of the repositories a worker has left is in the record, and all of the one it is
\* in, once it is listed, in the record or in its hand: but for what it missed.
Captures(w) ==
  /\ run[w].pc \in Inside \cup {"repos", "returned"} => In(Past(w)) \ Missed(Job(w))
     \subseteq Recorded
  /\ run[w].pc \in {"prs", "index", "welcome"} =>
       In({run[w].repo}) \ Missed(Job(w)) \subseteq Recorded \cup Hand(w)

\* So it is with every worker.
Thorough == \A w \in Workers : run[w].pc # "idle" => Lists(w) /\ Captures(w)

\* What is in the record stays there.
LEMMA RecordGrows ==
  ASSUME Basics, [Next]_vars
  PROVE  Recorded \subseteq Recorded'
<1>1. CASE record' = record
  BY <1>1 DEF Recorded
<1>2. ASSUME NEW p \in PRs, HookInscribe(p) PROVE Recorded \subseteq Recorded'
  BY <1>2 DEF HookInscribe, Stored, Recorded, Version, Basics, Types, Stores
<1>3. ASSUME NEW w \in Workers, RecordPR(w) PROVE Recorded \subseteq Recorded'
  <2>1. Head(run[w].todo) \in Listed
    BY <1>3, Busy, HeadTailProperties DEF RecordPR, At, Running, Basics
  <2>2. Head(run[w].todo).pr \in PRs /\ Head(run[w].todo).seen \in Version
    BY <2>1 DEF Listed
  <2> QED
    BY <1>3, <2>2 DEF RecordPR, Stored, Recorded, Version, Basics, Types, Stores
<1>4. ASSUME record' # record
      PROVE  (\E p \in PRs : HookInscribe(p)) \/ (\E w \in Workers : RecordPR(w))
  <2>1. Next
    BY <1>4 DEF vars
  <2>2. ASSUME NEW w \in Workers, WorkerStep(w) PROVE RecordPR(w)
    BY <1>4, <2>2 DEF WorkerStep, Take, Begin, NextRepo, ListPage, ListRefused, CountPR, ListOpen,
                Welcome, RepoDone, Finish, Raise, Mark
  <2> QED
    BY <1>4, <2>1, <2>2 DEF Next, GitHubStep, HookStep, Update, Merge, HookFails, Enqueue, Crash
<1> QED
  BY <1>1, <1>2, <1>3, <1>4

\* A job that is not starting keeps what it counted as moved.
LEMMA MovedGrows ==
  ASSUME Basics, [Next]_vars, NEW j \in Jobs,
         \A w \in Workers, token \in BOOLEAN : Begin(w, token) => Job(w) # j
  PROVE  moved[j] \subseteq moved'[j]
<1>1. CASE moved' = moved
  BY <1>1
<1>2. ASSUME NEW p \in PRs, Touch(p) PROVE moved[j] \subseteq moved'[j]
  BY <1>2 DEF Touch
<1>3. ASSUME NEW w \in Workers, NEW token \in BOOLEAN, Begin(w, token) PROVE moved[j]
             \subseteq moved'[j]
  <2>1. Job(w) # j /\ moved' = [moved EXCEPT ![Job(w)] = {}]
    BY <1>3 DEF Begin
  <2> QED
    BY <2>1 DEF Basics, Types, Stores
<1>4. ASSUME moved' # moved
      PROVE  (\E p \in PRs : Touch(p)) \/ (\E w \in Workers, token \in BOOLEAN : Begin(w, token))
  <2>1. Next
    BY <1>4 DEF vars, history
  <2>2. ASSUME NEW w \in Workers, WorkerStep(w)
        PROVE (\E token \in BOOLEAN : Begin(w, token)) \/ \E p \in PRs : Touch(p)
    BY <1>4, <2>2 DEF WorkerStep, Take, NextRepo, ListPage, ListRefused, RecordPR, CountPR, ListOpen,
                Welcome, RepoDone, Finish, Raise, Mark, history
  <2> QED
    BY <1>4, <2>1, <2>2 DEF Next, GitHubStep, HookStep, Update, Merge, HookInscribe, HookFails,
       Enqueue, Crash,
                            history
<1> QED
  BY <1>1, <1>2, <1>3, <1>4

\* An update moves others down GitHub's list, and never a pull request past a reader
\* without being counted as moved.
LEMMA ListsElsewhere ==
  ASSUME Basics, NEW u \in Workers, run[u].pc # "idle", Lists(u), Elsewhere(u)
  PROVE  Lists(u)'
<1> SUFFICES ASSUME run[u].pc = "list", NEW q \in In({run[u].repo}) \ moved'[Job(u)],
    updated'[q] <= From(u)
             PROVE  q \in Hand(u)
  BY DEF Lists, Elsewhere, From, Hand, In, Job
<1>0. Job(u) \in Jobs /\ run[u] \in Running /\ Works(u)
  BY JobIs, Busy DEF Basics, Working
<1>1. CASE updated' = updated /\ moved'[Job(u)] = moved[Job(u)]
  BY <1>1 DEF Lists
<1>2. ASSUME NEW p \in PRs, Touch(p) PROVE q \in Hand(u)
  <2>1. updated' \in Orders /\ updated \in Orders
    BY <1>2, TouchOrders DEF Basics, Types, Stores
  <2>2. run[u].page \in Nat /\ run[u].page > 0 /\ q \in PRs /\ RepoOf(q) = run[u].repo
    BY <1>0 DEF Basics, Paging, Running, In
  <2>3. updated'[q] \in Nat \ {0} /\ updated[q] \in Nat /\ updated[p] \in Nat
    <3>1. Cardinality(PRs) \in Nat
      BY FiniteAssumption, FS_CardinalityType
    <3> QED
      BY <2>1, <2>2, <3>1 DEF Orders
  <2>4. run[u].page > 1
    <3>1. run[u].page # 1
      BY <2>3, Bounds DEF From
    <3> QED
      BY <2>2, <3>1
  <2>5. From(u) \in Nat
    BY <2>2, Bounds DEF From
  <2>6. RepoOf(p) = run[u].repo => moved'[Job(u)] = moved[Job(u)] \cup {p}
    BY <1>0, <1>2, <2>4 DEF Touch, At, Works
  <2>7. moved[Job(u)] \subseteq moved'[Job(u)]
    BY <1>0, <1>2 DEF Touch
  <2>8. q # p
    <3>1. CASE RepoOf(p) = run[u].repo
      BY <2>6, <3>1
    <3>2. CASE RepoOf(p) # run[u].repo
      BY <2>2, <3>2
    <3> QED
      BY <3>1, <3>2
  <2>9. updated[q] <= updated'[q]
    BY <1>2, <2>2, <2>3, <2>8 DEF Touch
  <2>10. updated[q] <= From(u)
    BY <2>3, <2>5, <2>9
  <2> QED
    BY <2>7, <2>10 DEF Lists
<1> QED
  BY <1>1, <1>2 DEF Elsewhere

\* The steps of the others add to the record and take nothing from it.
LEMMA CapturesElsewhere ==
  ASSUME Basics, [Next]_vars, NEW u \in Workers, run[u].pc # "idle", Captures(u), Elsewhere(u)
  PROVE  Captures(u)'
<1>1. Recorded \subseteq Recorded'
  BY RecordGrows
<1>2. Job(u) \in Jobs
  BY JobIs DEF Basics
<1>3. Missed(Job(u)) \subseteq Missed(Job(u))'
  <2>1. moved[Job(u)] \subseteq moved'[Job(u)]
    BY <1>2 DEF Elsewhere, Touch
  <2> QED
    BY <2>1 DEF Elsewhere, Missed, Job
<1>4. Past(u)' = Past(u) /\ Hand(u)' = Hand(u) /\ run'[u] = run[u]
  BY DEF Elsewhere, Past, Entered, Here, Hand, Job
<1> QED
  BY <1>1, <1>3, <1>4 DEF Captures, In

\* Those in the hand of a worker after the next page.
LEMMA PageInHand ==
  ASSUME Basics, NEW w \in Workers, ListPage(w), Lists(w),
         NEW q \in In({run[w].repo}) \ moved[Job(w)], updated[q] <= Len(After(w))
  PROVE  \E i \in 1..Len(After(w)) : After(w)[i].pr = q
<1> USE DEF Basics
<1>1. run[w].pc = "list" /\ run[w] \in Running
  BY Busy DEF ListPage, At
<1>2. /\ From(w) \in Nat
      /\ Len(run[w].todo) = From(w)
  <2>1. run[w].page > 0 /\ Len(run[w].todo) = From(w) /\ From(w) <= Cardinality(In({run[w].repo}))
    BY <1>1 DEF Paging
  <2> QED
    BY <1>1, <2>1, PageListed
<1>3. /\ Len(After(w)) \in Nat /\ From(w) <= Len(After(w))
      /\ \A i \in 1..From(w) : After(w)[i] = run[w].todo[i]
      /\ \A i \in (From(w) + 1)..Len(After(w)) :
           After(w)[i].pr \in In({run[w].repo}) /\ updated[After(w)[i].pr] = i
  BY AfterListed
<1>4. updated[q] \in Nat \ {0} /\ updated \in Orders
  <2>1. Cardinality(PRs) \in Nat
    BY FiniteAssumption, FS_CardinalityType
  <2>2. q \in PRs /\ updated \in Orders
    BY DEF Types, Stores, In
  <2> QED
    BY <2>1, <2>2 DEF Orders
<1>5. CASE updated[q] <= From(w)
  <2>1. q \in Hand(w)
    BY <1>1, <1>5 DEF Lists
  <2>2. PICK i \in 1..Len(run[w].todo) : run[w].todo[i].pr = q
    BY <2>1 DEF Hand
  <2>3. i \in 1..From(w) /\ i \in 1..Len(After(w))
    BY <1>2, <1>3
  <2> QED
    BY <1>3, <2>2, <2>3
<1>6. CASE ~(updated[q] <= From(w))
  <2>1. updated[q] \in (From(w) + 1)..Len(After(w)) /\ updated[q] \in 1..Len(After(w))
    BY <1>2, <1>3, <1>4, <1>6
  <2>2. After(w)[updated[q]].pr \in In({run[w].repo}) /\ updated[After(w)[updated[q]].pr] = updated[q]
    BY <1>3, <2>1
  <2>3. After(w)[updated[q]].pr = q
    BY <1>4, <2>2 DEF Orders, In
  <2> QED
    BY <2>1, <2>3
<1> QED
  BY <1>5, <1>6

\* What a job missed grows, but when it begins anew.
LEMMA MissedGrows ==
  ASSUME Basics, NEW w \in Workers, WorkerStep(w), run[w].pc # "idle", run[w].pc # "begin"
  PROVE  /\ unlisted[Job(w)] \subseteq unlisted'[Job(w)] /\ moved[Job(w)] \subseteq moved'[Job(w)]
         /\ Missed(Job(w)) \subseteq unlisted'[Job(w)] \cup moved'[Job(w)]
<1>1. Job(w) \in Jobs
  BY JobIs DEF Basics
<1>2. ASSUME NEW v \in Workers, NEW token \in BOOLEAN, Begin(v, token) PROVE Job(v) # Job(w)
  <2>1. v # w
    BY <1>2 DEF Begin, At
  <2> QED
    BY <1>2, <2>1, DistinctJobs DEF Begin, At
<1>3. Next
  BY DEF Next
<1>4. moved[Job(w)] \subseteq moved'[Job(w)]
  BY <1>1, <1>2, <1>3, MovedGrows
<1>5. unlisted[Job(w)] \subseteq unlisted'[Job(w)]
  <2>1. CASE unlisted' = unlisted
    BY <2>1
  <2>2. CASE ListPage(w) \/ ListRefused(w)
    BY <1>1, <2>2 DEF ListPage, ListRefused, Basics, Types, Stores
  <2> QED
    BY <2>1, <2>2 DEF WorkerStep, Take, Begin, At, NextRepo, RecordPR, CountPR, ListOpen,
                Welcome, RepoDone, Finish, Raise, Mark, history
<1> QED
  BY <1>4, <1>5 DEF Missed

\* A worker's step in a repository, which loses nothing it has in hand.
LEMMA CapturesOn ==
  ASSUME Basics, NEW w \in Workers, WorkerStep(w), Captures(w), run[w].pc \in Inside \cup {"repos"},
         run'[w].job = Job(w), payload' = payload, Past(w)' = Past(w),
         run'[w].pc \in {"prs", "index", "welcome"} =>
           In({run'[w].repo}) \ (unlisted'[Job(w)] \cup moved'[Job(w)])
               \subseteq Recorded' \cup Hand(w)'
  PROVE  Captures(w)'
<1>1. run[w].pc # "idle" /\ run[w].pc # "begin" /\ Next
  BY DEF Inside, Next
<1>2. Recorded \subseteq Recorded'
  BY <1>1, RecordGrows
<1>3. Missed(Job(w)) \subseteq Missed(Job(w))'
  BY <1>1, MissedGrows DEF Missed, Job
<1>4. In(Past(w)') \ Missed(Job(w))' \subseteq Recorded'
  BY <1>2, <1>3 DEF Captures
<1>5. run'[w].pc \in {"prs", "index", "welcome"} =>
        In({run'[w].repo}) \ Missed(Job(w))' \subseteq Recorded' \cup Hand(w)'
  BY DEF Missed, Job
<1> QED
  BY <1>4, <1>5 DEF Captures, In

\* A worker that records the first in its hand loses nothing.
LEMMA RecordedFromHand ==
  ASSUME Basics, NEW w \in Workers, RecordPR(w)
  PROVE  Hand(w) \subseteq Recorded' \cup Hand(w)'
<1> USE DEF Basics
<1>1. run[w].pc = "prs" /\ run[w].todo # <<>> /\ payload' = payload
      /\ Goes(w, "index", run[w].left, run[w].repo, run[w].page, Tail(run[w].todo), run[w].greet)
  BY RecordPRGoes DEF RecordPR, At
<1>2. run[w].todo \in Seq(Listed)
  BY <1>1 DEF Goes, Running
<1>3. /\ Len(run[w].todo) \in Nat \ {0} /\ Head(run[w].todo) = run[w].todo[1]
      /\ Len(Tail(run[w].todo)) = Len(run[w].todo) - 1
      /\ \A i \in 1..Len(Tail(run[w].todo)) : Tail(run[w].todo)[i] = run[w].todo[i + 1]
  BY <1>1, <1>2, HeadTailProperties, EmptySeq
<1>4. run[w].todo[1].pr \in Recorded'
  <2>1. 1 \in 1..Len(run[w].todo)
    BY <1>3
  <2>2. run[w].todo[1] \in Listed
    BY <1>2, <2>1, ElementOfSeq
  <2>3. run[w].todo[1].pr \in PRs /\ run[w].todo[1].seen \in Version
    BY <2>2 DEF Listed
  <2>4. record' = [record EXCEPT ![run[w].todo[1].pr] = run[w].todo[1].seen]
    BY <1>3 DEF RecordPR, Stored
  <2> QED
    BY <2>3, <2>4 DEF Recorded, Version, Types, Stores
<1>5. ASSUME NEW i \in 1..Len(run[w].todo) PROVE run[w].todo[i].pr \in Recorded' \cup Hand(w)'
  <2>1. CASE i = 1
    BY <1>4, <2>1
  <2>2. CASE i # 1
    <3>1. i - 1 \in 1..Len(Tail(run[w].todo)) /\ (i - 1) + 1 = i
      BY <1>3, <2>2
    <3>2. Tail(run[w].todo)[i - 1] = run[w].todo[i]
      BY <1>3, <3>1
    <3> QED
      BY <1>1, <3>1, <3>2 DEF Hand, Goes
  <2> QED
    BY <2>1, <2>2
<1>6. Hand(w) \subseteq Recorded' \cup Hand(w)'
  BY <1>5 DEF Hand
<1> QED
  BY <1>6

\* A worker's own steps: a page, a refusal, an inscription, the next repository.
LEMMA ThoroughByWorker ==
  ASSUME Basics, Thorough, NEW w \in Workers, WorkerStep(w), run'[w].pc # "idle"
  PROVE  Lists(w)' /\ Captures(w)'
<1> USE DEF Basics
<1>1. ASSUME run[w].pc # "idle"
      PROVE  /\ run[w] \in Running /\ Job(w) \in Jobs /\ Works(w) /\ Lists(w) /\ Captures(w)
  BY <1>1, Busy, JobIs DEF Working, Thorough
<1>2. Next
  BY DEF Next
<1>3. Recorded \subseteq Recorded'
  BY <1>2, RecordGrows
<1>4. ASSUME run'[w].pc # "list" PROVE Lists(w)'
  BY <1>4 DEF Lists
<1>5. ASSUME run'[w].pc = "raised" PROVE Lists(w)' /\ Captures(w)'
  BY <1>5 DEF Lists, Captures, Inside
<1>6. ASSUME NEW j \in Jobs, Take(w, j) PROVE Lists(w)' /\ Captures(w)'
  BY <1>6, TakeGoes DEF Lists, Captures, Inside
<1>7. ASSUME NEW token \in BOOLEAN, Begin(w, token) PROVE Lists(w)' /\ Captures(w)'
  <2>1. run[w].pc = "begin" /\ payload' = payload
        /\ Goes(w, IF token THEN "repos" ELSE "raised", run[w].left, run[w].repo, run[w].page,
           run[w].todo, run[w].greet)
    BY <1>7, BeginGoes DEF Begin, At
  <2>2. Past(w)' = {}
    BY <1>1, <2>1 DEF Past, Entered, Goes, Job, Works, Form
  <2> QED
    BY <2>1, <2>2 DEF Lists, Captures, Inside, In, Goes
<1>8. ASSUME NEW r \in Repos, NextRepo(w, r) PROVE Lists(w)' /\ Captures(w)'
  <2>1. run[w].pc = "repos" /\ Goes(w, "list", run[w].left \ {r}, r, 1, run[w].todo, run[w].greet)
        /\ r \in run[w].left /\ UNCHANGED <<payload, updated, moved>>
    BY <1>8, NextRepoGoes DEF NextRepo, At, atGitHub, history
  <2>2. Past(w)' = Past(w)
    BY <2>1 DEF Past, Entered, Here, Goes, Job, Inside
  <2>3. From(w)' = 0
    BY <2>1, Bounds DEF From, Goes
  <2>4. \A p \in PRs : updated[p] \in Nat \ {0}
    <3>1. Cardinality(PRs) \in Nat
      BY FiniteAssumption, FS_CardinalityType
    <3> QED
      BY <3>1 DEF Types, Stores, Orders
  <2>5. Lists(w)'
    BY <2>1, <2>3, <2>4 DEF Lists, In
  <2> QED
    BY <1>1, <2>1, <2>2, <2>5, CapturesOn DEF Goes
<1>9. ASSUME run[w].pc \in Inside, run'[w].pc \in Inside, run'[w].left = run[w].left,
             run'[w].repo = run[w].repo,
             run'[w].job = Job(w), payload' = payload
      PROVE Past(w)' = Past(w)
  BY <1>9 DEF Past, Entered, Here, Job
<1>10. ASSUME ListPage(w) PROVE Lists(w)' /\ Captures(w)'
  <2>1. run[w].pc = "list" /\ Goes(w, IF Last(w) THEN "prs" ELSE "list", run[w].left, run[w].repo,
              IF Last(w) THEN 0 ELSE run[w].page + 1, After(w), run[w].greet)
        /\ UNCHANGED <<payload, updated, moved>>
    BY <1>10, ListPageGoes DEF ListPage, At, atGitHub
  <2>2. Hand(w)' = {After(w)[i].pr : i \in 1..Len(After(w))}
    BY <2>1 DEF Goes, Hand
  <2>3. \A q \in In({run[w].repo}) \ moved[Job(w)] : updated[q] <= Len(After(w)) => q \in Hand(w)'
    BY <1>1, <1>10, <2>1, <2>2, PageInHand
  <2>4. /\ Size(w) \in 0..PerPage /\ From(w) \in Nat
        /\ From(w) + Size(w) <= Cardinality(In({run[w].repo}))
        /\ Size(w) < PerPage => From(w) + Size(w) = Cardinality(In({run[w].repo}))
    <3>1. run[w].page > 0 /\ From(w) <= Cardinality(In({run[w].repo}))
      BY <2>1 DEF Paging
    <3> QED
      BY <1>1, <2>1, <3>1, PageListed
  <2>5. /\ Last(w) <=> Size(w) < PerPage \/ From(w) + Size(w) >= MaxPRs
        /\ Len(After(w)) = IF From(w) + Size(w) < MaxPRs THEN From(w) + Size(w) ELSE MaxPRs
    BY <1>10, AfterListed
  <2>6. \A q \in In({run[w].repo}) : updated[q] \in Nat
        /\ updated[q] <= Cardinality(In({run[w].repo}))
    BY InCounted DEF Types, Stores, Orders, In
  <2>7. CASE ~Last(w)
    <3>1. Size(w) = PerPage /\ Len(After(w)) = From(w) + PerPage
      BY <2>4, <2>5, <2>7, Bounds
    <3>2. From(w)' = From(w) + PerPage
      <4>1. run'[w].page = run[w].page + 1 /\ run[w].page \in Nat
        BY <2>1, <2>7 DEF Goes, Running
      <4>2. From(w)' = run[w].page * PerPage /\ From(w) = (run[w].page - 1) * PerPage
        BY <4>1 DEF From
      <4> QED
        BY <4>1, <4>2, Bounds
    <3>3. Lists(w)'
      BY <2>1, <2>3, <3>1, <3>2 DEF Lists, Goes, Job
    <3>4. run'[w].pc = "list" /\ Past(w)' = Past(w)
      BY <1>9, <2>1, <2>7 DEF Goes, Inside
    <3> QED
      BY <1>1, <2>1, <3>3, <3>4, CapturesOn DEF Goes, Inside
  <2>8. CASE Last(w)
    <3>1. run'[w].pc = "prs" /\ Past(w)' = Past(w) /\ run'[w].repo = run[w].repo
      BY <1>9, <2>1, <2>8 DEF Goes, Inside
    <3>2. \A q \in In({run[w].repo}) : updated[q] <= Len(After(w)) \/ updated[q] > MaxPRs
      <4> TAKE q \in In({run[w].repo})
      <4>1. updated[q] \in Nat /\ updated[q] <= Cardinality(In({run[w].repo}))
        BY <2>6
      <4> QED
        BY <2>4, <2>5, <2>8, <4>1, InCounted, Bounds
    <3>3. \A q \in In({run[w].repo}) : updated[q] > MaxPRs => q \in unlisted'[Job(w)]
      <4>1. unlisted' = [unlisted EXCEPT ![Job(w)] = @ \cup
                           {p \in In({run[w].repo}) : updated[p] > MaxPRs}]
        BY <1>10, <2>8 DEF ListPage, Last
      <4> QED
        BY <1>1, <2>1, <4>1 DEF Types, Stores
    <3>4. In({run[w].repo}) \ (unlisted'[Job(w)] \cup moved'[Job(w)]) \subseteq Hand(w)'
      BY <2>1, <2>3, <3>2, <3>3
    <3> QED
      BY <1>1, <1>4, <2>1, <3>1, <3>4, CapturesOn DEF Goes, Inside
  <2> QED
    BY <2>7, <2>8
<1>11. ASSUME ListRefused(w) PROVE Lists(w)' /\ Captures(w)'
  <2>1. run[w].pc = "list" /\ Goes(w, "prs", run[w].left, run[w].repo, 0, run[w].todo, run[w].greet)
        /\ payload' = payload
        /\ unlisted' = [unlisted EXCEPT ![Job(w)] = @ \cup {p \in In({run[w].repo}) : ~InHand(w, p)}]
    BY <1>11, ListRefusedGoes DEF ListRefused, At
  <2>2. \A p \in PRs : InHand(w, p) => p \in Hand(w)
    BY <1>1, <2>1 DEF InHand, Hand, Running
  <2>3. In({run[w].repo}) \ unlisted'[Job(w)] \subseteq Hand(w)
    BY <1>1, <2>1, <2>2 DEF Types, Stores, In
  <2>4. Hand(w)' = Hand(w) /\ Past(w)' = Past(w)
    BY <1>9, <2>1 DEF Goes, Hand, Inside
  <2> QED
    BY <1>1, <1>4, <2>1, <2>3, <2>4, CapturesOn DEF Goes, Inside
<1>12. ASSUME run[w].pc \in {"prs", "index", "welcome"}, run'[w].pc \in {"prs", "index", "welcome"},
              run'[w].left = run[w].left, run'[w].repo = run[w].repo, run'[w].job = Job(w),
                  payload' = payload,
              Hand(w) \subseteq Recorded' \cup Hand(w)'
       PROVE  Lists(w)' /\ Captures(w)'
  <2>1. Past(w)' = Past(w)
    BY <1>9, <1>12 DEF Inside
  <2>2. run[w].pc # "idle" /\ run[w].pc # "begin"
    BY <1>12
  <2>3. Missed(Job(w)) \subseteq unlisted'[Job(w)] \cup moved'[Job(w)]
    BY <2>2, MissedGrows
  <2>4. In({run[w].repo}) \ Missed(Job(w)) \subseteq Recorded \cup Hand(w)
    BY <1>1, <1>12, <2>2 DEF Captures
  <2>5. In({run'[w].repo}) \ (unlisted'[Job(w)] \cup moved'[Job(w)]) \subseteq Recorded' \cup Hand(w)'
    BY <1>3, <1>12, <2>3, <2>4
  <2> QED
    BY <1>1, <1>4, <1>12, <2>1, <2>2, <2>5, CapturesOn DEF Inside
<1>13. ASSUME RecordPR(w) PROVE Lists(w)' /\ Captures(w)'
  <2>1. run[w].pc = "prs" /\ payload' = payload
        /\ Goes(w, "index", run[w].left, run[w].repo, run[w].page, Tail(run[w].todo), run[w].greet)
    BY <1>13, RecordPRGoes DEF RecordPR, At
  <2>2. Hand(w) \subseteq Recorded' \cup Hand(w)'
    BY <1>13, RecordedFromHand
  <2> QED
    BY <1>12, <2>1, <2>2 DEF Goes
<1>14. ASSUME CountPR(w) PROVE Lists(w)' /\ Captures(w)'
  <2>1. run[w].pc = "index" /\ payload' = payload
        /\ Goes(w, "prs", run[w].left, run[w].repo, run[w].page, run[w].todo, run[w].greet)
    BY <1>14, CountPRGoes DEF CountPR, At
  <2> QED
    BY <1>12, <2>1 DEF Goes, Hand
<1>15. ASSUME NEW answered \in BOOLEAN, ListOpen(w, answered) PROVE Lists(w)' /\ Captures(w)'
  <2>1. run[w].pc = "prs" /\ payload' = payload
        /\ Goes(w, "welcome", run[w].left, run[w].repo, run[w].page, run[w].todo,
                IF answered THEN Open(run[w].repo) ELSE {})
    BY <1>15, ListOpenGoes DEF ListOpen, At
  <2> QED
    BY <1>12, <2>1 DEF Goes, Hand
<1>16. ASSUME NEW p \in PRs, NEW answer \in {"created", "refused", "lost"}, Welcome(w, p, answer)
       PROVE Lists(w)' /\ Captures(w)'
  <2>1. run[w].pc = "welcome" /\ payload' = payload
    BY <1>16 DEF Welcome, At
  <2>2. CASE run' = run
    BY <1>12, <2>1, <2>2 DEF Hand, Job
  <2>3. CASE Goes(w, "welcome", run[w].left, run[w].repo, run[w].page, run[w].todo,
        run[w].greet \ {p})
    BY <1>12, <2>1, <2>3 DEF Goes, Hand
  <2>4. CASE Goes(w, "raised", {}, AnyRepo, 0, <<>>, {})
    BY <1>5, <2>4 DEF Goes
  <2> QED
    BY <1>16, <2>2, <2>3, <2>4, WelcomeGoes
<1>17. ASSUME RepoDone(w) PROVE Lists(w)' /\ Captures(w)'
  <2>1. run[w].pc = "welcome" /\ Goes(w, "repos", run[w].left, AnyRepo, 0, <<>>, {})
        /\ payload' = payload
    BY <1>17, RepoDoneGoes DEF RepoDone, At
  <2>2. Past(w)' \subseteq Past(w) \cup {run[w].repo}
    BY <2>1 DEF Past, Entered, Here, Goes, Job, Inside
  <2>3. Hand(w) = {}
    <3>1. run[w].todo = <<>> /\ Len(<<>>) = 0
      BY <1>1, <2>1, EmptySeq DEF Works, Form
    <3> QED
      BY <3>1 DEF Hand
  <2>4. In(Past(w)) \ Missed(Job(w)) \subseteq Recorded /\ In({run[w].repo}) \ Missed(Job(w))
        \subseteq Recorded
    BY <1>1, <2>1, <2>3 DEF Captures, Inside
  <2>5. Missed(Job(w)) \subseteq Missed(Job(w))'
    BY <2>1, MissedGrows DEF Missed, Goes, Job
  <2>6. In(Past(w)') \ Missed(Job(w))' \subseteq Recorded'
    BY <1>3, <2>2, <2>4, <2>5 DEF In
  <2> QED
    BY <2>1, <2>6 DEF Lists, Captures, Goes, In
<1>18. ASSUME Finish(w) PROVE Lists(w)' /\ Captures(w)'
  <2>1. run[w].pc = "repos" /\ payload' = payload
        /\ Goes(w, "returned", run[w].left, run[w].repo, run[w].page, run[w].todo, run[w].greet)
    BY <1>18, FinishGoes DEF Finish, At
  <2>2. Past(w)' = Past(w)
    BY <2>1 DEF Past, Entered, Here, Goes, Job, Inside
  <2> QED
    BY <1>1, <1>4, <2>1, <2>2, CapturesOn DEF Goes
<1>19. ASSUME Raise(w) PROVE Lists(w)' /\ Captures(w)'
  BY <1>5, <1>19, RaiseGoes DEF Goes
<1>20. ~Mark(w)
  BY EndGoes DEF Idle
<1> QED
  BY <1>6, <1>7, <1>8, <1>10, <1>11, <1>13, <1>14, <1>15, <1>16, <1>17, <1>18, <1>19, <1>20
     DEF WorkerStep

\* No step leaves a worker behind what it has come past.
LEMMA ThoroughStep == Basics /\ Thorough /\ [Next]_vars => Thorough'
<1> SUFFICES ASSUME Basics, Thorough, [Next]_vars PROVE Thorough'
  OBVIOUS
<1>0. ASSUME NEW u \in Workers, run[u].pc # "idle", Elsewhere(u) PROVE Lists(u)' /\ Captures(u)'
  BY <1>0, ListsElsewhere, CapturesElsewhere DEF Thorough
<1>1. ASSUME \A u \in Workers : run[u].pc # "idle" => Elsewhere(u), run' = run PROVE Thorough'
  BY <1>0, <1>1 DEF Thorough
<1>2. CASE UNCHANGED vars
  BY <1>1, <1>2 DEF vars, Elsewhere, queue, atGitHub, history
<1>3. ASSUME NEW p \in PRs, GitHubStep(p) \/ HookStep(p) PROVE Thorough'
  <2>1. run' = run
    BY <1>3 DEF GitHubStep, HookStep, Update, Merge, HookInscribe, HookFails
  <2> QED
    BY <1>1, <1>3, <2>1, ElsewhereByGitHub
<1>4. ASSUME NEW j \in Jobs, NEW R \in SUBSET Repos, Enqueue(j, R) PROVE Thorough'
  BY <1>1, <1>4, ElsewhereByEnqueue DEF Enqueue
<1>5. ASSUME NEW w \in Workers, WorkerStep(w) \/ Crash(w) PROVE Thorough'
  <2>1. ASSUME NEW u \in Workers, u # w, run'[u].pc # "idle" PROVE Lists(u)' /\ Captures(u)'
    <3>1. run[u].pc # "idle"
      BY <1>5, <2>1, OthersStay DEF Others
    <3> QED
      BY <1>0, <1>5, <2>1, <3>1, ElsewhereByOthers
  <2>2. ASSUME run'[w].pc # "idle" PROVE Lists(w)' /\ Captures(w)'
    <3>1. ~Crash(w)
      BY <2>2, EndGoes DEF Idle, Basics
    <3> QED
      BY <1>5, <2>2, <3>1, ThoroughByWorker
  <2> QED
    BY <2>1, <2>2 DEF Thorough
<1> QED
  BY <1>2, <1>3, <1>4, <1>5 DEF Next

\* A job nobody runs, and nobody takes, is left alone.
LEMMA JobRests ==
  ASSUME Basics, [Next]_vars, NEW j \in Jobs, phase[j] \in {"done", "error"}
  PROVE  /\ phase'[j] = phase[j] /\ payload'[j] = payload[j] /\ unlisted'[j] = unlisted[j]
         /\ progress'[j] = progress[j] /\ moved[j] \subseteq moved'[j]
<1>1. ASSUME NEW w \in Workers, run[w].pc # "idle" PROVE Job(w) # j
  BY <1>1 DEF Basics, Working, Works
<1>2. moved[j] \subseteq moved'[j]
  BY <1>1, MovedGrows DEF Begin, At
<1>3. ASSUME NEW w \in Workers PROVE ~Take(w, j)
  BY DEF Take, Queue!Take
<1>4. ASSUME NEW w \in Workers, WorkerStep(w) \/ Crash(w)
      PROVE  phase'[j] = phase[j] /\ payload'[j] = payload[j] /\ progress'[j] = progress[j]
  BY <1>1, <1>3, <1>4, JobsElsewhere
<1>5. ASSUME NEW w \in Workers, WorkerStep(w) \/ Crash(w) PROVE unlisted'[j] = unlisted[j]
  <2>1. CASE unlisted' = unlisted
    BY <2>1
  <2>2. CASE (\E token \in BOOLEAN : Begin(w, token)) \/ ListPage(w) \/ ListRefused(w)
    <3>1. Job(w) # j
      BY <1>1, <2>2 DEF Begin, ListPage, ListRefused, At
    <3> QED
      BY <2>2, <3>1 DEF Begin, ListPage, ListRefused, Basics, Types, Stores
  <2> QED
    BY <1>5, <2>1, <2>2 DEF WorkerStep, Take, NextRepo, RecordPR, CountPR, ListOpen, Crash,
                Welcome, RepoDone, Finish, Raise, Mark, history
<1>6. ASSUME NEW p \in PRs, GitHubStep(p) \/ HookStep(p)
      PROVE  phase' = phase /\ payload' = payload /\ progress' = progress /\ unlisted' = unlisted
  BY <1>6 DEF GitHubStep, HookStep, Update, Merge, HookInscribe, HookFails, queue, history
<1>7. ASSUME NEW k \in Jobs, NEW R \in SUBSET Repos, Enqueue(k, R)
      PROVE  phase'[j] = phase[j] /\ payload'[j] = payload[j] /\ progress' = progress
             /\ unlisted' = unlisted
  <2>1. phase[k] = "absent" /\ k # j
    BY <1>7 DEF Enqueue, Queue!Submit
  <2> QED
    BY <1>7, <2>1 DEF Enqueue, Queue!Submit, history, Basics, Types, Stores
<1>8. CASE UNCHANGED vars
  BY <1>2, <1>8 DEF vars, queue, history
<1> QED
  BY <1>2, <1>4, <1>5, <1>6, <1>7, <1>8 DEF Next

\* Whose step ends a job well.
LEMMA DoneByMark ==
  ASSUME Basics, [Next]_vars, NEW j \in Jobs, phase'[j] = "done", phase[j] # "done"
  PROVE  \E w \in Workers : Mark(w) /\ Job(w) = j /\ run[w].pc = "returned"
<1> USE DEF Basics, Types, Stores
<1>1. ASSUME NEW w \in Workers, Mark(w) PROVE Job(w) = j /\ run[w].pc = "returned"
  BY <1>1 DEF Mark, Queue!Settle, At
<1>2. ASSUME NEW w \in Workers, WorkerStep(w), ~Mark(w) PROVE FALSE
  <2>1. ASSUME NEW k \in Jobs, Take(w, k) PROVE FALSE
    BY <2>1 DEF Take, Queue!Take
  <2>2. phase' # phase
    OBVIOUS
  <2> QED
    BY <1>2, <2>1, <2>2 DEF WorkerStep, Begin, NextRepo, ListPage, ListRefused, RecordPR, CountPR,
       ListOpen,
                Welcome, RepoDone, Finish, Raise, queue
<1>3. ASSUME NEW w \in Workers, Crash(w) PROVE FALSE
  BY <1>3 DEF Crash, Queue!Strand
<1>4. ASSUME NEW p \in PRs, GitHubStep(p) \/ HookStep(p) PROVE FALSE
  BY <1>4 DEF GitHubStep, HookStep, Update, Merge, HookInscribe, HookFails, queue
<1>5. ASSUME NEW k \in Jobs, NEW R \in SUBSET Repos, Enqueue(k, R) PROVE FALSE
  BY <1>5 DEF Enqueue, Queue!Submit
<1>6. CASE UNCHANGED vars
  BY <1>6 DEF vars, queue
<1> QED
  BY <1>1, <1>2, <1>3, <1>4, <1>5, <1>6 DEF Next

\* A job ends well only by a worker that has captured all of it.
LEMMA DoneStep == Basics /\ Thorough /\ DoneMeansRecorded /\ [Next]_vars => DoneMeansRecorded'
<1> SUFFICES ASSUME Basics, Thorough, DoneMeansRecorded, [Next]_vars,
                    NEW j \in Jobs, phase'[j] = "done"
             PROVE  In(payload'[j]) \ (unlisted'[j] \cup moved'[j]) \subseteq Recorded'
  BY DEF DoneMeansRecorded, Recorded, In
<1>1. Recorded \subseteq Recorded'
  BY RecordGrows
<1>2. CASE phase[j] = "done"
  <2>1. payload'[j] = payload[j] /\ unlisted'[j] = unlisted[j] /\ moved[j] \subseteq moved'[j]
    BY <1>2, JobRests
  <2>2. In(payload[j]) \ (unlisted[j] \cup moved[j]) \subseteq Recorded
    BY <1>2 DEF DoneMeansRecorded, Recorded, In
  <2> QED
    BY <1>1, <2>1, <2>2
<1>3. CASE phase[j] # "done"
  <2>1. PICK w \in Workers : Mark(w) /\ Job(w) = j /\ run[w].pc = "returned"
    BY <1>3, DoneByMark
  <2>2. Captures(w) /\ Works(w)
    BY <2>1 DEF Basics, Thorough, Working
  <2>3. Past(w) = payload[j]
    BY <2>1, <2>2 DEF Works, Form, Past, Entered, Here, Inside
  <2>4. In(payload[j]) \ (unlisted[j] \cup moved[j]) \subseteq Recorded
    BY <2>1, <2>2, <2>3 DEF Captures, Missed
  <2> QED
    BY <1>1, <2>1, <2>4 DEF Mark, history
<1> QED
  BY <1>2, <1>3

\* A backfill that is done has put every pull request of its repositories in the
\* record, but for those GitHub refused to list, those beyond max_prs and those that moved
\* while it was reading, whatever failed attempts came before it.
THEOREM DoneIsRecorded == Spec => []DoneMeansRecorded
<1>1. Init => Thorough /\ DoneMeansRecorded
  BY DEF Init, Thorough, DoneMeansRecorded, Idle, Queue!Init, Queue!Jobs, Jobs
<1>2. Basics /\ Thorough /\ [Next]_vars => Thorough'
  BY ThoroughStep
<1>3. Basics /\ Thorough /\ DoneMeansRecorded /\ [Next]_vars => DoneMeansRecorded'
  BY DoneStep
<1> QED
  BY <1>1, <1>2, <1>3, BasicsHold, PTL DEF Spec

-----------------------------------------------------------------------------
(* What progress counts                                                    *)

\* Counting parts of a set of pull requests.
LEMMA SubsetsCounted ==
  ASSUME NEW B, B \subseteq PRs
  PROVE  /\ IsFiniteSet(B) /\ Cardinality(B) \in Nat
         /\ \A A \in SUBSET B : IsFiniteSet(A) /\ Cardinality(A) \in Nat
            /\ Cardinality(A) <= Cardinality(B)
<1>1. IsFiniteSet(B) /\ Cardinality(B) \in Nat
  BY FiniteAssumption, FS_Subset, FS_CardinalityType
<1>2. ASSUME NEW A \in SUBSET B
      PROVE IsFiniteSet(A) /\ Cardinality(A) \in Nat /\ Cardinality(A) <= Cardinality(B)
  BY <1>1, <1>2, FS_Subset, FS_CardinalityType
<1> QED
  BY <1>1, <1>2

\* Two parts of a set that have nothing in common.
LEMMA PartsCounted ==
  ASSUME NEW B, B \subseteq PRs, NEW S \in SUBSET B, NEW T \in SUBSET B
  PROVE  /\ Cardinality(S \cup T) <= Cardinality(S) + Cardinality(T)
         /\ S \cap T = {} => Cardinality(S) + Cardinality(T) <= Cardinality(B)
<1>1. IsFiniteSet(S) /\ IsFiniteSet(T) /\ Cardinality(S) \in Nat /\ Cardinality(T) \in Nat
  BY SubsetsCounted
<1>2. Cardinality(S \cup T) = Cardinality(S) + Cardinality(T) - Cardinality(S \cap T)
  BY <1>1, FS_Union
<1>3. Cardinality(S \cap T) \in Nat /\ Cardinality(S \cup T) \in Nat
      /\ Cardinality(S \cup T) <= Cardinality(B)
        /\ Cardinality(B) \in Nat
  <2>1. S \cap T \in SUBSET B /\ S \cup T \in SUBSET B
    OBVIOUS
  <2> QED
    BY <2>1, SubsetsCounted
<1>4. S \cap T = {} => Cardinality(S \cap T) = 0
  BY FS_EmptySet
<1> QED
  BY <1>1, <1>2, <1>3, <1>4

\* A worker has no more pull requests in hand than places on its list.
LEMMA HandCount ==
  ASSUME NEW w \in Workers, run[w] \in Running
  PROVE  IsFiniteSet(Hand(w)) /\ Cardinality(Hand(w)) <= Len(run[w].todo)
         /\ Cardinality(Hand(w)) \in Nat
         /\ Hand(w) \subseteq PRs /\ Len(run[w].todo) \in Nat
<1> DEFINE n == Len(run[w].todo)
           f == [i \in 1..n |-> run[w].todo[i].pr]
<1>1. run[w].todo \in Seq(Listed) /\ n \in Nat
  BY LenProperties DEF Running
<1>2. \A i \in 1..n : run[w].todo[i].pr \in PRs
  <2> TAKE i \in 1..n
  <2>1. run[w].todo[i] \in Listed
    BY <1>1, ElementOfSeq
  <2> QED
    BY <2>1 DEF Listed
<1>3. f \in Surjection(1..n, Hand(w))
  BY DEF Surjection, Hand
<1>4. IsFiniteSet(1..n) /\ Cardinality(1..n) = n
  <2> HIDE DEF n
  <2> QED
    BY <1>1, FS_Interval
<1>5. IsFiniteSet(Hand(w)) /\ Cardinality(Hand(w)) <= n
  <2> HIDE DEF f, n
  <2> QED
    BY <1>3, <1>4, FS_Surjection
<1> QED
  BY <1>1, <1>2, <1>5, FS_CardinalityType DEF Hand

\* The repositories whose pull requests a worker has listed, or has begun to.
Seen(w) == IF run[w].pc = "list" THEN Past(w) ELSE Entered(w)
\* What it has yet to count.
Due(w) == IF run[w].pc = "list" THEN 0
          ELSE Len(run[w].todo) + (IF run[w].pc = "index" THEN 1 ELSE 0)
\* Of those repositories, what is in the record or in its hand.
Got(w) == (Recorded \cup Hand(w)) \cap In(Seen(w))

\* What a worker has counted, and has yet to, is no more than it got, or saw twice as
\* it moved.
Counts(w) ==
  run[w].pc \in Inside \cup {"repos"} =>
    progress[Job(w)].captured + Due(w) <= Cardinality(Got(w)) + Cardinality(moved[Job(w)] \cap In(Seen(w)))

\* So it is with every worker.
Tallied == \A w \in Workers : run[w].pc # "idle" => Counts(w)

\* A step that counts no more than it takes from the hand, and loses nothing.
LEMMA CountsOn ==
  ASSUME NEW w \in Workers, progress[Job(w)].captured \in Nat, Due(w) \in Nat, Due(w)' \in Nat,
         Counts(w), run[w].pc \in Inside \cup {"repos"}, Job(w)' = Job(w), Seen(w)' = Seen(w),
         moved[Job(w)] \subseteq moved'[Job(w)], Got(w) \subseteq Got(w)',
         progress'[Job(w)].captured + Due(w)' <= progress[Job(w)].captured + Due(w),
         progress'[Job(w)].captured \in Nat
  PROVE  Counts(w)'
<1> DEFINE M == moved[Job(w)] \cap In(Seen(w))
           N == moved'[Job(w)] \cap In(Seen(w))
           G == Got(w)
           H == Got(w)'
<1>1. G \in SUBSET H /\ H \subseteq PRs /\ M \in SUBSET N /\ N \subseteq PRs
  BY DEF Got, In
<1>2. Cardinality(G) <= Cardinality(H) /\ Cardinality(M) <= Cardinality(N)
      /\ Cardinality(G) \in Nat /\ Cardinality(H) \in Nat /\ Cardinality(M) \in Nat
         /\ Cardinality(N) \in Nat
  <2> HIDE DEF M, N, G, H
  <2> QED
    BY <1>1, SubsetsCounted
<1>3. progress[Job(w)].captured + Due(w) <= Cardinality(G) + Cardinality(M)
  BY DEF Counts
<1>4. progress'[Job(w)].captured + Due(w)' <= Cardinality(H) + Cardinality(N)
  <2> HIDE DEF M, N, G, H
  <2> QED
    BY <1>2, <1>3
<1>5. N = (moved[Job(w)] \cap In(Seen(w)))'
  BY DEF In
<1> QED
  BY <1>4, <1>5 DEF Counts

\* The steps of the others.
LEMMA CountsElsewhere ==
  ASSUME Basics, [Next]_vars, NEW u \in Workers, run[u].pc # "idle", Counts(u), Elsewhere(u)
  PROVE  Counts(u)'
<1> SUFFICES ASSUME run[u].pc \in Inside \cup {"repos"} PROVE Counts(u)'
  BY DEF Counts, Elsewhere
<1>1. Recorded \subseteq Recorded'
  BY RecordGrows
<1>2. Job(u) \in Jobs /\ run[u] \in Running /\ progress[Job(u)] \in Tally
  BY JobIs, Busy DEF Basics, Types, Stores
<1>3. moved[Job(u)] \subseteq moved'[Job(u)]
  BY <1>2 DEF Elsewhere, Touch
<1>4. Job(u)' = Job(u) /\ Seen(u)' = Seen(u) /\ Hand(u)' = Hand(u) /\ Due(u)' = Due(u)
      /\ progress'[Job(u)] = progress[Job(u)]
  BY DEF Elsewhere, Past, Entered, Here, Hand, Job, Seen, Due
<1>5. Got(u) \subseteq Got(u)'
  BY <1>1, <1>4 DEF Got, In
<1>6. Due(u) \in Nat
  <2>1. Len(run[u].todo) \in Nat
    BY <1>2, HandCount
  <2>2. Len(run[u].todo) + (IF run[u].pc = "index" THEN 1 ELSE 0) \in Nat
    <3>1. CASE run[u].pc = "index"
      BY <2>1, <3>1
    <3>2. CASE run[u].pc # "index"
      BY <2>1, <3>2
    <3> QED
      BY <3>1, <3>2
  <2> QED
    BY <2>2 DEF Due
<1>7. progress[Job(u)].captured \in Nat
  BY <1>2 DEF Tally
<1> QED
  BY <1>3, <1>4, <1>5, <1>6, <1>7, CountsOn

\* A list ends: each place it reached is that of a pull request it holds, or of one that moved.
LEMMA ListEnds ==
  ASSUME Basics, NEW w \in Workers, run[w].pc = "list", Counts(w), Form(w)',
         run'[w] \in Running, run'[w].pc = "prs", run'[w].left = run[w].left,
             run'[w].repo = run[w].repo,
         run'[w].job = Job(w), payload' = payload,
         progress' = progress, moved' = moved, record' = record,
         Len(run'[w].todo) <= Cardinality(In({run[w].repo})),
         \A q \in In({run[w].repo}) \ moved[Job(w)] : updated[q] <= Len(run'[w].todo)
             => q \in Hand(w)'
  PROVE  Counts(w)'
<1> DEFINE j == Job(w)
           r == run[w].repo
           m == Len(run'[w].todo)
           A == Got(w)
           M == moved[j] \cap In(Past(w))
           U == Upto(r, m)
           G == Got(w)'
           N == moved[j] \cap In(Entered(w))
<1>1. run[w] \in Running /\ j \in Jobs /\ Form(w) /\ r \in Repos
  BY Busy, JobIs DEF Basics, Working, Works, Running
<1>2. r \in Entered(w) /\ Past(w) = Entered(w) \ {r} /\ Seen(w) = Past(w) /\ Seen(w)' = Entered(w)
      /\ j' = j /\ Due(w) = 0 /\ Due(w)' = m
  BY <1>1 DEF Form, Entered, Past, Here, Seen, Inside, Job, Due
<1>3. m \in Nat /\ Hand(w) \subseteq In({r})
  BY <1>1, LenProperties DEF Running, Hand, Form
<1>4. U \subseteq In({r}) /\ Cardinality(U) = m /\ U \subseteq PRs
  <2>1. m \in 0..Cardinality(In({r}))
    BY <1>3, InCounted
  <2> HIDE DEF m, r
  <2>2. Cardinality(Upto(r, m)) = m
    BY <1>1, <2>1, CountUpto DEF Basics, Types, Stores
  <2> QED
    BY <2>2 DEF Upto, In
<1>5. A \in SUBSET (Recorded \cap In(Past(w)))
  BY <1>2, <1>3 DEF Got, In
<1>6. U \ moved[j] \subseteq Hand(w)' \cap In({r})
  BY <1>4 DEF Upto
<1>7. A \cup (U \ moved[j]) \subseteq G /\ A \cap (U \ moved[j]) = {} /\ G \subseteq PRs
  <2>1. In({r}) \subseteq In(Entered(w)) /\ In(Past(w)) \subseteq In(Entered(w))
        /\ In({r}) \cap In(Past(w)) = {}
    BY <1>2 DEF In
  <2>2. G = (Recorded \cup Hand(w)') \cap In(Entered(w))
    BY <1>2 DEF Got, Recorded, In
  <2>3. In(Entered(w)) \subseteq PRs
    BY DEF In
  <2> QED
    BY <1>5, <1>6, <2>1, <2>2, <2>3
<1>8. M \cup (U \cap moved[j]) \subseteq N /\ M \cap (U \cap moved[j]) = {} /\ N \subseteq PRs
  BY <1>2, <1>4 DEF In
<1>9. (U \ moved[j]) \cup (U \cap moved[j]) = U
  OBVIOUS
<1>10. progress[j].captured <= Cardinality(A) + Cardinality(M) /\ progress[j].captured \in Nat
  <2>1. progress[j].captured \in Nat
    BY <1>1 DEF Basics, Types, Stores, Tally
  <2> QED
    BY <1>2, <2>1 DEF Counts, Inside
<1>11. /\ Cardinality(A) \in Nat /\ Cardinality(M) \in Nat /\ Cardinality(G) \in Nat
       /\ Cardinality(N) \in Nat
       /\ Cardinality(U \ moved[j]) \in Nat /\ Cardinality(U \cap moved[j]) \in Nat
  <2>1. A \subseteq PRs /\ M \subseteq PRs /\ U \ moved[j] \subseteq PRs /\ U \cap moved[j]
        \subseteq PRs
    BY <1>4, <1>7, <1>8
  <2> HIDE DEF A, M, G, N, U, j
  <2> QED
    BY <1>7, <1>8, <2>1, SubsetsCounted
<1>12. progress[j].captured + m <= Cardinality(G) + Cardinality(N)
  <2> HIDE DEF A, M, G, N, U, j, m
  <2>1. Cardinality(A) + Cardinality(U \ moved[j]) <= Cardinality(G)
    BY <1>7, PartsCounted
  <2>2. Cardinality(M) + Cardinality(U \cap moved[j]) <= Cardinality(N)
    BY <1>8, PartsCounted
  <2>3. m <= Cardinality(U \ moved[j]) + Cardinality(U \cap moved[j])
    <3>1. U \ moved[j] \in SUBSET U /\ U \cap moved[j] \in SUBSET U
      OBVIOUS
    <3> QED
      BY <1>4, <1>9, <3>1, PartsCounted
  <2> QED
    BY <1>3, <1>10, <1>11, <2>1, <2>2, <2>3
<1>13. N = (moved[Job(w)] \cap In(Seen(w)))'
  BY <1>2 DEF In
<1> QED
  BY <1>2, <1>12, <1>13 DEF Counts

\* A worker's own steps: it counts what it has inscribed, once.
LEMMA CountsByWorker ==
  ASSUME Basics, Basics', Thorough, Tallied, NEW w \in Workers, WorkerStep(w), run'[w].pc # "idle"
  PROVE  Counts(w)'
<1> USE DEF Basics
<1>1. ASSUME run[w].pc # "idle"
      PROVE  /\ run[w] \in Running /\ Job(w) \in Jobs /\ Works(w) /\ Lists(w) /\ Counts(w)
             /\ progress[Job(w)] \in Tally /\ progress[Job(w)].captured \in Nat /\ Due(w) \in Nat
  <2>1. run[w] \in Running /\ Job(w) \in Jobs /\ Works(w) /\ Lists(w) /\ Counts(w)
        /\ progress[Job(w)] \in Tally
    BY <1>1, Busy, JobIs DEF Working, Thorough, Tallied, Types, Stores
  <2>2. Len(run[w].todo) \in Nat
    BY <2>1, HandCount
  <2>3. Len(run[w].todo) + (IF run[w].pc = "index" THEN 1 ELSE 0) \in Nat
    <3>1. CASE run[w].pc = "index"
      BY <2>2, <3>1
    <3>2. CASE run[w].pc # "index"
      BY <2>2, <3>2
    <3> QED
      BY <3>1, <3>2
  <2>4. Due(w) \in Nat
    BY <2>3 DEF Due
  <2>5. progress[Job(w)].captured \in Nat
    BY <2>1 DEF Tally
  <2> QED
    BY <2>1, <2>4, <2>5
<1>2. run'[w] \in Running /\ Works(w)' /\ Due(w)' \in Nat
  <2>1. run'[w] \in Running /\ Works(w)'
    BY DEF Types, Run, Idle, Working
  <2>2. run'[w].todo \in Seq(Listed)
    BY <2>1 DEF Running
  <2>3. Len(run'[w].todo) \in Nat
    BY <2>2, LenProperties
  <2>4. Len(run'[w].todo) + (IF run'[w].pc = "index" THEN 1 ELSE 0) \in Nat
    <3>1. CASE run'[w].pc = "index"
      BY <2>3, <3>1
    <3>2. CASE run'[w].pc # "index"
      BY <2>3, <3>2
    <3> QED
      BY <3>1, <3>2
  <2>5. Due(w)' \in Nat
    BY <2>4 DEF Due
  <2> QED
    BY <2>1, <2>5
<1>3. Recorded \subseteq Recorded'
  BY RecordGrows DEF Next
<1>4. ASSUME run'[w].pc \notin Inside \cup {"repos"} PROVE Counts(w)'
  BY <1>4 DEF Counts
<1>5. ASSUME NEW j \in Jobs, Take(w, j) PROVE Counts(w)'
  BY <1>4, <1>5, TakeGoes DEF Inside
<1>6. ASSUME NEW token \in BOOLEAN, Begin(w, token) PROVE Counts(w)'
  <2>1. run[w].pc = "begin"
        /\ Goes(w, IF token THEN "repos" ELSE "raised", run[w].left, run[w].repo, run[w].page,
           run[w].todo, run[w].greet)
    BY <1>6, BeginGoes DEF Begin, At
  <2>2. CASE ~token
    BY <1>4, <2>1, <2>2 DEF Goes, Inside
  <2>3. CASE token
    <3>1. progress' = [progress EXCEPT ![Job(w)] = Fresh(w)]
      BY <1>6, <2>3 DEF Begin
    <3>2. progress'[Job(w)].captured = 0
      BY <1>1, <2>1, <3>1 DEF Fresh, NoProgress, Types, Stores
    <3>3. run'[w].pc = "repos" /\ run'[w].todo = <<>> /\ Job(w)' = Job(w)
      BY <1>1, <2>1, <2>3 DEF Goes, Job, Works, Form
    <3>4. Due(w)' = 0
      BY <3>3, EmptySeq DEF Due
    <3>5. Cardinality(Got(w)') \in Nat /\ Cardinality((moved[Job(w)] \cap In(Seen(w)))') \in Nat
      <4>1. Got(w)' \subseteq PRs /\ (moved[Job(w)] \cap In(Seen(w)))' \subseteq PRs
        BY DEF Got, In
      <4> QED
        BY <4>1, SubsetsCounted
    <3> QED
      BY <3>2, <3>3, <3>4, <3>5 DEF Counts
  <2> QED
    BY <2>2, <2>3
<1>7. ASSUME run[w].pc \in Inside \cup {"repos"}, run'[w].job = Job(w), payload' = payload,
             progress'[Job(w)].captured = progress[Job(w)].captured, Due(w)' <= Due(w),
             Seen(w)' = Seen(w), Hand(w) \cap In(Seen(w)) \subseteq Recorded' \cup Hand(w)'
      PROVE  Counts(w)'
  <2>1. run[w].pc # "idle" /\ run[w].pc # "begin"
    BY <1>7 DEF Inside
  <2>2. moved[Job(w)] \subseteq moved'[Job(w)]
    BY <2>1, MissedGrows
  <2>3. Got(w) \subseteq Got(w)'
    BY <1>3, <1>7 DEF Got, In
  <2>4. progress'[Job(w)].captured + Due(w)' <= progress[Job(w)].captured + Due(w)
    BY <1>1, <1>2, <1>7, <2>1
  <2>5. Job(w)' = Job(w)
    BY <1>7 DEF Job
  <2> QED
    BY <1>1, <1>2, <1>7, <2>1, <2>2, <2>3, <2>4, <2>5, CountsOn
<1>8. ASSUME NEW r \in Repos, NextRepo(w, r) PROVE Counts(w)'
  <2>1. run[w].pc = "repos" /\ Goes(w, "list", run[w].left \ {r}, r, 1, run[w].todo, run[w].greet)
        /\ r \in run[w].left /\ UNCHANGED <<payload, progress>>
    BY <1>8, NextRepoGoes DEF NextRepo, At
  <2>2. Seen(w)' = Seen(w)
    BY <2>1 DEF Past, Entered, Here, Goes, Job, Inside, Seen
  <2>3. Due(w)' <= Due(w) /\ Hand(w)' = Hand(w)
    BY <1>1, <2>1 DEF Due, Hand, Goes
  <2> QED
    BY <1>7, <2>1, <2>2, <2>3 DEF Goes
<1>9. ASSUME run[w].pc \in Inside, run'[w].pc \in Inside, run'[w].left = run[w].left,
             run'[w].repo = run[w].repo,
             run'[w].job = Job(w), payload' = payload
      PROVE Past(w)' = Past(w) /\ Entered(w)' = Entered(w)
  BY <1>9 DEF Past, Entered, Here, Job
<1>10. ASSUME ListPage(w) PROVE Counts(w)'
  <2>1. run[w].pc = "list" /\ Goes(w, IF Last(w) THEN "prs" ELSE "list", run[w].left, run[w].repo,
              IF Last(w) THEN 0 ELSE run[w].page + 1, After(w), run[w].greet)
        /\ UNCHANGED <<payload, moved, progress, record>>
    BY <1>10, ListPageGoes DEF ListPage, At
  <2>2. Hand(w)' = {After(w)[i].pr : i \in 1..Len(After(w))}
    BY <2>1 DEF Goes, Hand
  <2>3. CASE ~Last(w)
    <3>1. Seen(w)' = Seen(w) /\ Seen(w) = Past(w) /\ Due(w)' = 0 /\ Due(w) = 0
      BY <1>9, <2>1, <2>3 DEF Goes, Seen, Inside, Due
    <3>2. Hand(w) \cap In(Past(w)) = {}
      BY <1>1, <2>1 DEF Hand, Works, Form, In, Past, Here, Inside
    <3> QED
      BY <1>7, <2>1, <3>1, <3>2 DEF Goes, Inside
  <2>4. CASE Last(w)
    <3>1. \A q \in In({run[w].repo}) \ moved[Job(w)] : updated[q] <= Len(After(w)) => q \in Hand(w)'
      BY <1>1, <1>10, <2>1, <2>2, PageInHand
    <3>2. Len(After(w)) <= Cardinality(In({run[w].repo}))
      <4>1. run[w].page > 0 /\ From(w) <= Cardinality(In({run[w].repo}))
        BY <2>1 DEF Paging
      <4>2. From(w) + Size(w) <= Cardinality(In({run[w].repo})) /\ From(w) \in Nat /\ Size(w) \in Nat
        BY <1>1, <2>1, <4>1, PageListed, Bounds
      <4>3. Len(After(w)) = IF From(w) + Size(w) < MaxPRs THEN From(w) + Size(w) ELSE MaxPRs
        BY <1>10, AfterListed
      <4> QED
        BY <4>2, <4>3, InCounted, Bounds
    <3>3. run'[w].pc = "prs" /\ run'[w].left = run[w].left /\ run'[w].repo = run[w].repo
          /\ run'[w].job = Job(w) /\ run'[w].todo = After(w)
      BY <2>1, <2>4 DEF Goes
    <3> QED
      BY <1>1, <1>2, <2>1, <3>1, <3>2, <3>3, ListEnds DEF Works
  <2> QED
    BY <2>3, <2>4
<1>11. ASSUME ListRefused(w) PROVE Counts(w)'
  <2>1. run[w].pc = "list" /\ Goes(w, "prs", run[w].left, run[w].repo, 0, run[w].todo, run[w].greet)
        /\ UNCHANGED <<payload, moved, progress, record>>
    BY <1>11, ListRefusedGoes DEF ListRefused, At
  <2>2. Len(run[w].todo) = From(w) /\ From(w) <= Cardinality(In({run[w].repo}))
    BY <2>1 DEF Paging
  <2>3. \A q \in In({run[w].repo}) \ moved[Job(w)] : updated[q] <= Len(run[w].todo) => q \in Hand(w)
    BY <1>1, <2>1, <2>2 DEF Lists
  <2>4. Hand(w)' = Hand(w)
    BY <2>1 DEF Goes, Hand
  <2>5. run'[w].pc = "prs" /\ run'[w].left = run[w].left /\ run'[w].repo = run[w].repo
          /\ run'[w].job = Job(w) /\ run'[w].todo = run[w].todo
    BY <2>1 DEF Goes
  <2> QED
    BY <1>1, <1>2, <2>1, <2>2, <2>3, <2>4, <2>5, ListEnds DEF Works
<1>12. ASSUME RecordPR(w) PROVE Counts(w)'
  <2>1. run[w].pc = "prs" /\ run[w].todo # <<>> /\ UNCHANGED <<payload, progress>>
        /\ Goes(w, "index", run[w].left, run[w].repo, run[w].page, Tail(run[w].todo), run[w].greet)
    BY <1>12, RecordPRGoes DEF RecordPR, At
  <2>2. Len(Tail(run[w].todo)) = Len(run[w].todo) - 1 /\ Len(run[w].todo) \in Nat
    BY <1>1, <2>1, HeadTailProperties, LenProperties DEF Running
  <2>3. Due(w)' = Due(w) /\ Seen(w)' = Seen(w)
    BY <1>9, <2>1, <2>2 DEF Due, Goes, Seen, Inside
  <2>4. Hand(w) \subseteq Recorded' \cup Hand(w)'
    BY <1>12, RecordedFromHand
  <2> QED
    BY <1>1, <1>7, <2>1, <2>3, <2>4 DEF Goes, Inside
<1>13. ASSUME CountPR(w) PROVE Counts(w)'
  <2>1. run[w].pc = "index" /\ payload' = payload
        /\ progress' = [progress EXCEPT ![Job(w)].captured = @ + 1]
        /\ Goes(w, "prs", run[w].left, run[w].repo, run[w].page, run[w].todo, run[w].greet)
    BY <1>13, CountPRGoes DEF CountPR, At
  <2>2. progress'[Job(w)].captured = progress[Job(w)].captured + 1
    BY <1>1, <2>1 DEF Types, Stores, Tally
  <2>3. Seen(w)' = Seen(w) /\ Hand(w)' = Hand(w) /\ Job(w)' = Job(w)
    BY <1>9, <2>1 DEF Goes, Seen, Inside, Hand, Job
  <2>4. Len(run[w].todo) \in Nat
    BY <1>1, <2>1, HandCount
  <2>5. Due(w)' = Len(run[w].todo) /\ Due(w) = Len(run[w].todo) + 1
    BY <2>1 DEF Due, Goes
  <2>6. progress'[Job(w)].captured + Due(w)' <= progress[Job(w)].captured + Due(w)
        /\ progress'[Job(w)].captured \in Nat
    BY <1>1, <2>1, <2>2, <2>4, <2>5
  <2>7. moved[Job(w)] \subseteq moved'[Job(w)]
    BY <2>1, MissedGrows
  <2>8. Got(w) \subseteq Got(w)'
    BY <1>3, <2>3 DEF Got, In
  <2> QED
    BY <1>1, <1>2, <2>1, <2>3, <2>6, <2>7, <2>8, CountsOn DEF Inside
<1>14. ASSUME NEW answered \in BOOLEAN, ListOpen(w, answered) PROVE Counts(w)'
  <2>1. run[w].pc = "prs" /\ UNCHANGED <<payload, progress>>
        /\ Goes(w, "welcome", run[w].left, run[w].repo, run[w].page, run[w].todo,
                IF answered THEN Open(run[w].repo) ELSE {})
    BY <1>14, ListOpenGoes DEF ListOpen, At
  <2>2. Seen(w)' = Seen(w) /\ Hand(w)' = Hand(w) /\ Due(w)' = Due(w)
    BY <1>9, <2>1 DEF Goes, Seen, Inside, Hand, Due
  <2> QED
    BY <1>1, <1>7, <2>1, <2>2 DEF Goes, Inside
<1>15. ASSUME NEW p \in PRs, NEW answer \in {"created", "refused", "lost"}, Welcome(w, p, answer)
       PROVE Counts(w)'
  <2>1. run[w].pc = "welcome" /\ payload' = payload
        /\ progress' = [progress EXCEPT ![Job(w)].posted = IF answer = "created" THEN @ + 1 ELSE @]
    BY <1>15 DEF Welcome, At
  <2>2. progress'[Job(w)].captured = progress[Job(w)].captured
    BY <1>1, <2>1 DEF Types, Stores, Tally
  <2>3. CASE run' = run
    <3>1. Seen(w)' = Seen(w) /\ Hand(w)' = Hand(w) /\ Due(w)' = Due(w) /\ run'[w].job = Job(w)
      BY <2>1, <2>3 DEF Seen, Past, Entered, Here, Hand, Due, Job
    <3> QED
      BY <1>1, <1>7, <2>1, <2>2, <3>1 DEF Inside
  <2>4. CASE Goes(w, "welcome", run[w].left, run[w].repo, run[w].page, run[w].todo,
        run[w].greet \ {p})
    <3>1. Seen(w)' = Seen(w) /\ Hand(w)' = Hand(w) /\ Due(w)' = Due(w) /\ run'[w].job = Job(w)
      BY <1>9, <2>1, <2>4 DEF Goes, Seen, Inside, Hand, Due
    <3> QED
      BY <1>1, <1>7, <2>1, <2>2, <3>1 DEF Inside
  <2>5. CASE Goes(w, "raised", {}, AnyRepo, 0, <<>>, {})
    BY <1>4, <2>5 DEF Goes, Inside
  <2> QED
    BY <1>15, <2>3, <2>4, <2>5, WelcomeGoes
<1>16. ASSUME RepoDone(w) PROVE Counts(w)'
  <2>1. run[w].pc = "welcome" /\ Goes(w, "repos", run[w].left, AnyRepo, 0, <<>>, {})
        /\ payload' = payload
        /\ progress' = [progress EXCEPT ![Job(w)].repos = @ + 1]
    BY <1>16, RepoDoneGoes DEF RepoDone, At
  <2>2. progress'[Job(w)].captured = progress[Job(w)].captured
    BY <1>1, <2>1 DEF Types, Stores, Tally
  <2>3. run[w].todo = <<>>
    BY <1>1, <2>1 DEF Works, Form
  <2>4. Seen(w)' = Seen(w) /\ Hand(w)' = Hand(w) /\ Due(w)' = Due(w)
    BY <2>1, <2>3 DEF Goes, Seen, Entered, Hand, Due, Job
  <2> QED
    BY <1>1, <1>7, <2>1, <2>2, <2>4 DEF Goes, Inside
<1>17. ASSUME Finish(w) \/ Raise(w) PROVE Counts(w)'
  BY <1>4, <1>17, FinishGoes, RaiseGoes DEF Goes, Inside
<1>18. ~Mark(w)
  BY EndGoes DEF Idle
<1> QED
  BY <1>5, <1>6, <1>8, <1>10, <1>11, <1>12, <1>13, <1>14, <1>15, <1>16, <1>17, <1>18 DEF WorkerStep

\* No step lets a worker count what is not there.
LEMMA TalliedStep == Basics /\ Basics' /\ Thorough /\ Tallied /\ [Next]_vars => Tallied'
<1> SUFFICES ASSUME Basics, Basics', Thorough, Tallied, [Next]_vars PROVE Tallied'
  OBVIOUS
<1>0. ASSUME NEW u \in Workers, run[u].pc # "idle", Elsewhere(u) PROVE Counts(u)'
  BY <1>0, CountsElsewhere DEF Tallied
<1>1. ASSUME \A u \in Workers : run[u].pc # "idle" => Elsewhere(u), run' = run PROVE Tallied'
  BY <1>0, <1>1 DEF Tallied
<1>2. CASE UNCHANGED vars
  BY <1>1, <1>2 DEF vars, Elsewhere, queue, atGitHub, history
<1>3. ASSUME NEW p \in PRs, GitHubStep(p) \/ HookStep(p) PROVE Tallied'
  <2>1. run' = run
    BY <1>3 DEF GitHubStep, HookStep, Update, Merge, HookInscribe, HookFails
  <2> QED
    BY <1>1, <1>3, <2>1, ElsewhereByGitHub
<1>4. ASSUME NEW j \in Jobs, NEW R \in SUBSET Repos, Enqueue(j, R) PROVE Tallied'
  BY <1>1, <1>4, ElsewhereByEnqueue DEF Enqueue
<1>5. ASSUME NEW w \in Workers, WorkerStep(w) \/ Crash(w) PROVE Tallied'
  <2>1. ASSUME NEW u \in Workers, u # w, run'[u].pc # "idle" PROVE Counts(u)'
    <3>1. run[u].pc # "idle"
      BY <1>5, <2>1, OthersStay DEF Others
    <3> QED
      BY <1>0, <1>5, <2>1, <3>1, ElsewhereByOthers
  <2>2. ASSUME run'[w].pc # "idle" PROVE Counts(w)'
    <3>1. ~Crash(w)
      BY <2>2, EndGoes DEF Idle, Basics
    <3> QED
      BY <1>5, <2>2, <3>1, CountsByWorker
  <2> QED
    BY <2>1, <2>2 DEF Tallied
<1> QED
  BY <1>2, <1>3, <1>4, <1>5 DEF Next

\* No comment on GitHub is deleted.
LEMMA GreetingsGrow ==
  ASSUME Basics, [Next]_vars
  PROVE  greetings' \in [PRs -> Nat] /\ \A p \in PRs : greetings[p] \in Nat
         /\ greetings[p] <= greetings'[p]
<1>1. greetings \in [PRs -> Nat]
  BY DEF Basics, Types, Stores
<1>2. CASE greetings' = greetings
  BY <1>1, <1>2
<1>3. ASSUME NEW p \in PRs, greetings' = [greetings EXCEPT ![p] = @ + 1]
      PROVE greetings' \in [PRs -> Nat] /\ \A q \in PRs : greetings[q] \in Nat
             /\ greetings[q] <= greetings'[q]
  BY <1>1, <1>3
<1>4. ASSUME greetings' # greetings PROVE \E p \in PRs : greetings' = [greetings EXCEPT ![p] = @ + 1]
  <2>1. Next
    BY <1>4 DEF vars, atGitHub
  <2>2. ASSUME NEW w \in Workers, WorkerStep(w)
               PROVE \E p \in PRs : greetings' = [greetings EXCEPT ![p] = @ + 1]
    BY <1>4, <2>2 DEF WorkerStep, Take, Begin, NextRepo, ListPage, ListRefused, RecordPR, CountPR,
       ListOpen,
                Welcome, RepoDone, Finish, Raise, Mark, atGitHub
  <2> QED
    BY <1>4, <2>1, <2>2 DEF Next, GitHubStep, HookStep, Update, Merge, HookInscribe, HookFails,
       Enqueue, Crash,
                            atGitHub
<1> QED
  BY <1>2, <1>3, <1>4

\* What a job's progress counts, whoever wrote it, is in the record and on GitHub.
Covered ==
  \A j \in Jobs :
    /\ progress[j].captured <= Cardinality(Recorded \cap In(payload[j])) + Cardinality(moved[j])
    /\ progress[j].posted <= Total(greetings, In(payload[j]))

\* What a worker's step does to the two counts of its job.
LEMMA CountsMove ==
  ASSUME Basics, NEW w \in Workers, WorkerStep(w), run[w].pc # "idle"
  PROVE  /\ CountPR(w) \/ progress'[Job(w)].captured \in {0, progress[Job(w)].captured}
         /\ (\E p \in PRs : Welcome(w, p, "created"))
            \/ progress'[Job(w)].posted \in {0, progress[Job(w)].posted}
<1> USE DEF Basics, Types, Stores
<1>1. Job(w) \in Jobs /\ progress[Job(w)] \in Tally
  BY JobIs
<1> DEFINE G == /\ CountPR(w) \/ progress'[Job(w)].captured \in {0, progress[Job(w)].captured}
                /\ (\E p \in PRs : Welcome(w, p, "created"))
                   \/ progress'[Job(w)].posted \in {0, progress[Job(w)].posted}
<1>2. CASE progress' = progress
  BY <1>2
<1>3. ASSUME NEW token \in BOOLEAN, Begin(w, token) PROVE G
  <2>1. /\ Fresh(w).captured = 0 /\ [Fresh(w) EXCEPT !.state = "error"].captured = 0
        /\ Fresh(w).posted = 0 /\ [Fresh(w) EXCEPT !.state = "error"].posted = 0
    BY DEF Fresh, NoProgress
  <2> QED
    BY <1>1, <1>3, <2>1 DEF Begin
<1>4. ASSUME CountPR(w) PROVE G
  <2>1. progress' = [progress EXCEPT ![Job(w)].captured = @ + 1]
    BY <1>4 DEF CountPR
  <2>2. progress'[Job(w)].posted = progress[Job(w)].posted
    BY <1>1, <2>1 DEF Tally
  <2> QED
    BY <1>4, <2>2
<1>5. ASSUME NEW p \in PRs, NEW answer \in {"created", "refused", "lost"}, Welcome(w, p, answer)
             PROVE G
  <2>1. progress' = [progress EXCEPT ![Job(w)].posted = IF answer = "created" THEN @ + 1 ELSE @]
    BY <1>5 DEF Welcome
  <2>2. progress'[Job(w)].captured = progress[Job(w)].captured
    BY <1>1, <2>1 DEF Tally
  <2>3. answer # "created" => progress'[Job(w)].posted = progress[Job(w)].posted
    BY <1>1, <2>1 DEF Tally
  <2> QED
    BY <1>5, <2>2, <2>3
<1>6. ASSUME RepoDone(w) PROVE G
  <2>1. progress' = [progress EXCEPT ![Job(w)].repos = @ + 1]
    BY <1>6 DEF RepoDone
  <2> QED
    BY <1>1, <2>1 DEF Tally
<1>7. ASSUME Finish(w) PROVE G
  <2>1. progress' = [progress EXCEPT ![Job(w)].state = "done"]
    BY <1>7 DEF Finish
  <2> QED
    BY <1>1, <2>1 DEF Tally
<1> QED
  BY <1>2, <1>3, <1>4, <1>5, <1>6, <1>7
  DEF WorkerStep, Take, NextRepo, ListPage, ListRefused, RecordPR, ListOpen, Raise, Mark

\* When a worker counts a pull request, it is in the record next to those counted before.
LEMMA CountCovered ==
  ASSUME Basics, Tallied, NEW w \in Workers, CountPR(w)
  PROVE  progress'[Job(w)].captured <=
           Cardinality(Recorded \cap In(payload[Job(w)])) + Cardinality(moved[Job(w)])
<1> DEFINE j == Job(w)
           A == Recorded \cap In(payload[j])
           M == moved[j] \cap In(Seen(w))
           H == Hand(w)
<1>1. run[w].pc = "index" /\ run[w] \in Running /\ j \in Jobs /\ Counts(w) /\ progress[j] \in Tally
  BY Busy, JobIs DEF Basics, CountPR, At, Tallied, Types, Stores
<1>2. progress'[j].captured = progress[j].captured + 1 /\ progress[j].captured \in Nat
  BY <1>1 DEF CountPR, Basics, Types, Stores, Tally
<1>3. progress[j].captured + (Len(run[w].todo) + 1) <= Cardinality(Got(w)) + Cardinality(M)
  BY <1>1 DEF Counts, Due, Inside
<1>4. Cardinality(H) <= Len(run[w].todo) /\ Cardinality(H) \in Nat /\ Len(run[w].todo) \in Nat
      /\ H \subseteq PRs
  BY <1>1, HandCount
<1>5. Got(w) \subseteq A \cup H /\ A \subseteq PRs /\ A \cup H \subseteq PRs
  BY <1>1, <1>4 DEF Got, Seen, Entered, In
<1>6. M \in SUBSET moved[j] /\ moved[j] \subseteq PRs
  BY <1>1 DEF Basics, Types, Stores
<1>7. Cardinality(A \cup H) <= Cardinality(A) + Cardinality(H)
  <2> HIDE DEF A, H
  <2>1. A \in SUBSET PRs /\ H \in SUBSET PRs
    BY <1>4, <1>5
  <2> QED
    BY <2>1, PartsCounted
<1>8. Cardinality(Got(w)) <= Cardinality(A \cup H) /\ Cardinality(Got(w)) \in Nat
      /\ Cardinality(A \cup H) \in Nat
      /\ Cardinality(A) \in Nat /\ Cardinality(M) <= Cardinality(moved[j]) /\ Cardinality(M) \in Nat
      /\ Cardinality(moved[j]) \in Nat
  <2> HIDE DEF A, H, M, j
  <2> QED
    BY <1>5, <1>6, SubsetsCounted
<1>9. ASSUME NEW c \in Nat, NEW n \in Nat, NEW g \in Nat, NEW m \in Nat, NEW b \in Nat, NEW a \in Nat,
             NEW h \in Nat, NEW v \in Nat,
             c + (n + 1) <= g + m, h <= n, g <= b, b <= a + h, m <= v
      PROVE  c + 1 <= a + v
  BY <1>9
<1>10. progress[j].captured + 1 <= Cardinality(A) + Cardinality(moved[j])
  <2> HIDE DEF A, H, M, j
  <2> QED
    BY <1>2, <1>3, <1>4, <1>7, <1>8, <1>9
<1> QED
  BY <1>2, <1>10

\* Every step keeps the progress of every job covered: of one being run by what its
\* worker got, of the others by what only grows.
LEMMA CoveredStep == Basics /\ Truthful /\ Tallied /\ Covered /\ [Next]_vars => Covered'
<1> SUFFICES ASSUME Basics, Truthful, Tallied, Covered, [Next]_vars, NEW j \in Jobs
             PROVE  /\ progress'[j].captured <= Cardinality(Recorded' \cap In(payload'[j])) + Cardinality(moved'[j])
                    /\ progress'[j].posted <= Total(greetings', In(payload'[j]))
  BY DEF Covered, In
<1> DEFINE Old == Recorded \cap In(payload[j])
           New == Recorded' \cap In(payload'[j])
           G == progress'[j].captured <= Cardinality(New) + Cardinality(moved'[j])
           P == progress'[j].posted <= Total(greetings', In(payload'[j]))
<1>1. moved'[j] \subseteq PRs /\ moved[j] \subseteq PRs /\ New \subseteq PRs /\ Old \subseteq PRs
      /\ progress[j] \in Tally /\ In(payload'[j]) \subseteq PRs
  <2>1. Types'
    BY TypesStep
  <2> QED
    BY <2>1 DEF Basics, Types, Stores, In
<1>2. Cardinality(New) \in Nat /\ Cardinality(moved'[j]) \in Nat /\ Cardinality(Old) \in Nat
      /\ Cardinality(moved[j]) \in Nat
  <2> HIDE DEF New, Old
  <2> QED
    BY <1>1, SubsetsCounted
<1>3. IsFiniteSet(In(payload'[j]))
      /\ (\A p \in In(payload'[j]) : greetings'[p] \in Nat /\ greetings[p] \in Nat
        /\ greetings[p] <= greetings'[p]) /\ Total(greetings', In(payload'[j])) \in Nat
  <2>1. IsFiniteSet(In(payload'[j]))
    BY InCounted
  <2>2. \A p \in In(payload'[j]) : greetings'[p] \in Nat /\ greetings[p] \in Nat
        /\ greetings[p] <= greetings'[p]
    BY <1>1, GreetingsGrow
  <2> QED
    BY <2>1, <2>2, PairsFinite
<1>4. progress'[j].captured = 0 => G
  <2> HIDE DEF New
  <2> QED
    BY <1>2
<1>5. progress'[j].posted = 0 => P
  BY <1>3
<1>6. ASSUME progress'[j].captured <= progress[j].captured
             \/ progress'[j].captured <= Cardinality(Old) + Cardinality(moved[j]),
             progress'[j].captured \in Nat,
             payload'[j] = payload[j], moved[j] \subseteq moved'[j]
      PROVE  G
  <2>1. Old \in SUBSET New
    BY <1>6, RecordGrows
  <2>2. Cardinality(Old) <= Cardinality(New) /\ Cardinality(moved[j]) <= Cardinality(moved'[j])
    <3> HIDE DEF New, Old
    <3> QED
      BY <1>1, <1>6, <2>1, SubsetsCounted
  <2>3. progress[j].captured <= Cardinality(Old) + Cardinality(moved[j])
        /\ progress[j].captured \in Nat
    BY <1>1 DEF Covered, Tally
  <2> HIDE DEF New, Old
  <2> QED
    BY <1>2, <1>6, <2>2, <2>3
<1>7. ASSUME progress'[j].posted = progress[j].posted, payload'[j] = payload[j] PROVE P
  <2>1. Total(greetings, In(payload[j])) <= Total(greetings', In(payload'[j]))
          /\ Total(greetings, In(payload[j])) \in Nat
    BY <1>3, <1>7, TotalMono, PairsFinite
  <2>2. progress[j].posted <= Total(greetings, In(payload[j])) /\ progress[j].posted \in Nat
    BY <1>1 DEF Covered, Tally
  <2> QED
    BY <1>3, <1>7, <2>1, <2>2
<1>8. ASSUME progress'[j] = progress[j], payload'[j] = payload[j], moved[j] \subseteq moved'[j]
             PROVE G /\ P
  <2>1. progress[j].captured \in Nat
    BY <1>1 DEF Tally
  <2> HIDE DEF G, P
  <2> QED
    BY <1>6, <1>7, <1>8, <2>1
<1>9. ASSUME NEW k \in Jobs, NEW R \in SUBSET Repos, Enqueue(k, R) PROVE G /\ P
  <2>1. progress' = progress /\ payload' = [payload EXCEPT ![k] = R] /\ phase[k] = "absent"
        /\ moved' = moved
    BY <1>9 DEF Enqueue, Queue!Submit, history
  <2>2. CASE k = j
    <3>1. progress'[j].captured = 0 /\ progress'[j].posted = 0
      BY <2>1, <2>2 DEF Truthful, NoProgress
    <3> QED
      BY <1>4, <1>5, <3>1
  <2>3. CASE k # j
    BY <1>8, <2>1, <2>3 DEF Basics, Types, Stores
  <2> QED
    BY <2>2, <2>3
<1>10. ASSUME NEW p \in PRs, GitHubStep(p) \/ HookStep(p) PROVE G /\ P
  <2>1. \A w \in Workers, token \in BOOLEAN : Begin(w, token) => run'[w] # run[w]
    BY BeginGoes DEF Goes, Begin, At, Basics
  <2>2. run' = run /\ progress' = progress /\ payload' = payload
    BY <1>10 DEF GitHubStep, HookStep, Update, Merge, HookInscribe, HookFails
  <2>3. moved[j] \subseteq moved'[j]
    BY <2>1, <2>2, MovedGrows
  <2> QED
    BY <1>8, <2>2, <2>3
<1>11. CASE UNCHANGED vars
  BY <1>8, <1>11 DEF vars, history
<1>12. ASSUME NEW w \in Workers, WorkerStep(w) \/ Crash(w) PROVE G /\ P
  <2>1. ASSUME run[w].pc # "idle" => Job(w) # j PROVE moved[j] \subseteq moved'[j]
    <3>1. ASSUME NEW u \in Workers, NEW token \in BOOLEAN, Begin(u, token), Job(u) = j PROVE FALSE
      <4>1. run[u].pc # "idle" /\ run'[u] # run[u]
        <5>1. run[u].pc = "begin"
          BY <3>1 DEF Begin, At
        <5>2. run'[u].pc = IF token THEN "repos" ELSE "raised"
          BY <3>1, BeginGoes DEF Goes, Basics
        <5> QED
          BY <5>1, <5>2
      <4>2. u # w
        BY <2>1, <3>1, <4>1
      <4> QED
        BY <1>12, <4>1, <4>2, OthersStay DEF Others
    <3> QED
      BY <3>1, MovedGrows
  <2>2. CASE run[w].pc # "idle" => Job(w) # j
    <3>1. progress'[j] = progress[j] /\ payload'[j] = payload[j]
      <4>1. CASE Take(w, j)
        BY <4>1 DEF Take
      <4>2. CASE ~Take(w, j)
        BY <1>12, <2>2, <4>2, JobsElsewhere
      <4> QED
        BY <4>1, <4>2
    <3> QED
      BY <1>8, <2>1, <2>2, <3>1
  <2>3. CASE run[w].pc # "idle" /\ Job(w) = j
    <3>1. payload' = payload
      BY <1>12 DEF WorkerStep, Take, Begin, NextRepo, ListPage, ListRefused, RecordPR, CountPR,
         ListOpen,
                Welcome, RepoDone, Finish, Raise, Mark, Crash
    <3>2. CASE Crash(w)
      BY <1>8, <3>1, <3>2 DEF Crash, history
    <3>3. CASE WorkerStep(w) /\ run[w].pc = "begin"
      <4>1. CASE progress' = progress /\ moved' = moved
        BY <1>8, <3>1, <4>1
      <4>2. ASSUME NEW token \in BOOLEAN, Begin(w, token) PROVE G /\ P
        <5>1. /\ Fresh(w).captured = 0 /\ [Fresh(w) EXCEPT !.state = "error"].captured = 0
              /\ Fresh(w).posted = 0 /\ [Fresh(w) EXCEPT !.state = "error"].posted = 0
          BY DEF Fresh, NoProgress
        <5>2. progress'[j].captured = 0 /\ progress'[j].posted = 0
          BY <2>3, <4>2, <5>1 DEF Begin, Basics, Types, Stores
        <5> QED
          BY <1>4, <1>5, <5>2
      <4> QED
        BY <3>3, <4>1, <4>2 DEF WorkerStep, Take, At, NextRepo, ListPage, ListRefused, RecordPR,
           CountPR,
             ListOpen, Welcome, RepoDone, Finish, Raise, Mark, history
    <3>4. CASE WorkerStep(w) /\ run[w].pc # "begin"
      <4>1. moved[j] \subseteq moved'[j]
        BY <2>3, <3>4, MissedGrows
      <4>2. G
        <5>1. CASE CountPR(w)
          <6>1. progress'[j].captured <= Cardinality(Old) + Cardinality(moved[j])
            BY <2>3, <5>1, CountCovered
          <6>2. progress'[j].captured \in Nat
            BY <1>1, <2>3, <5>1 DEF CountPR, Basics, Types, Stores, Tally
          <6> HIDE DEF G, Old
          <6> QED
            BY <1>6, <3>1, <4>1, <6>1, <6>2
        <5>2. CASE ~CountPR(w)
          <6>1. progress'[j].captured \in {0, progress[j].captured}
            BY <2>3, <3>4, <5>2, CountsMove
          <6>2. progress[j].captured \in Nat
            BY <1>1 DEF Tally
          <6> HIDE DEF G, Old
          <6> QED
            BY <1>4, <1>6, <3>1, <4>1, <6>1, <6>2
        <5> QED
          BY <5>1, <5>2
      <4>3. P
        <5>1. ASSUME NEW p \in PRs, Welcome(w, p, "created") PROVE P
          <6>1. /\ run[w].pc = "welcome" /\ p \in run[w].greet
                /\ greetings' = [greetings EXCEPT ![p] = @ + 1]
                /\ progress' = [progress EXCEPT ![Job(w)].posted = @ + 1]
            BY <5>1 DEF Welcome, At
          <6>2. progress'[j].posted = progress[j].posted + 1
            BY <1>1, <2>3, <6>1 DEF Basics, Types, Stores, Tally
          <6>3. p \in In(payload[j])
            BY <2>3, <6>1 DEF Basics, Working, Works, Form, Inside, In
          <6>4. greetings'[p] = greetings[p] + 1
                /\ \A q \in In(payload[j]) \ {p} : greetings'[q] = greetings[q]
            BY <6>1 DEF Basics, Types, Stores, In
          <6>5. Total(greetings', In(payload[j])) = Total(greetings, In(payload[j])) + 1
            BY <1>3, <3>1, <6>3, <6>4, TotalBump
          <6>6. Total(greetings, In(payload[j])) \in Nat
            BY <1>3, <3>1, PairsFinite
          <6>7. progress[j].posted <= Total(greetings, In(payload[j])) /\ progress[j].posted \in Nat
            BY <1>1 DEF Covered, Tally
          <6> QED
            BY <3>1, <6>2, <6>5, <6>6, <6>7
        <5>2. ASSUME ~ \E p \in PRs : Welcome(w, p, "created") PROVE P
          <6>1. progress'[j].posted \in {0, progress[j].posted}
            BY <2>3, <3>4, <5>2, CountsMove
          <6> HIDE DEF P
          <6> QED
            BY <1>5, <1>7, <3>1, <6>1
        <5> QED
          BY <5>1, <5>2
      <4> QED
        BY <4>2, <4>3
    <3> QED
      BY <1>12, <3>2, <3>3, <3>4
  <2> QED
    BY <2>2, <2>3
<1> QED
  BY <1>9, <1>10, <1>11, <1>12 DEF Next

\* /v1/backfill/status never overstates what is captured or posted, and never says
\* done of a job that is not, or that is later run again: through crashes, failures and
\* retries.
THEOREM ProgressIsAlwaysHonest == Spec => []ProgressIsHonest
<1>1. Init => Thorough /\ Tallied /\ Covered
  <2> SUFFICES ASSUME Init PROVE Thorough /\ Tallied /\ Covered
    OBVIOUS
  <2>1. Thorough /\ Tallied
    BY DEF Init, Thorough, Tallied, Idle
  <2>2. ASSUME NEW j \in Jobs
        PROVE  /\ progress[j].captured = 0 /\ progress[j].posted = 0
               /\ Cardinality(Recorded \cap In(payload[j])) \in Nat /\ Cardinality(moved[j]) \in Nat
               /\ Total(greetings, In(payload[j])) \in Nat
    <3>1. progress[j] = NoProgress /\ moved[j] = {} /\ \A p \in In(payload[j]) : greetings[p] = 0
      BY DEF Init, In
    <3>2. Recorded \cap In(payload[j]) \subseteq PRs /\ {} \subseteq PRs
      BY DEF In
    <3>3. Cardinality(Recorded \cap In(payload[j])) \in Nat /\ Cardinality(moved[j]) \in Nat
      BY <3>1, <3>2, SubsetsCounted
    <3>4. Total(greetings, In(payload[j])) \in Nat
      BY <3>1, InCounted, PairsFinite
    <3> QED
      BY <3>1, <3>3, <3>4 DEF NoProgress
  <2>3. Covered
    <3> SUFFICES ASSUME NEW j \in Jobs
                 PROVE  /\ progress[j].captured <= Cardinality(Recorded \cap In(payload[j])) + Cardinality(moved[j])
                        /\ progress[j].posted <= Total(greetings, In(payload[j]))
      BY DEF Covered
    <3> QED
      BY <2>2
  <2> QED
    BY <2>1, <2>3
<1>2. Honest /\ Honest' /\ Thorough /\ Tallied /\ Covered /\ [Next]_vars => Thorough' /\ Tallied'
      /\ Covered'
  BY ThoroughStep, TalliedStep, CoveredStep DEF Honest
<1>3. Truthful /\ Covered => ProgressIsHonest
  <2>1. ASSUME NEW j \in Jobs
               PROVE Recorded \cap In(payload[j]) = {p \in In(payload[j]) : record[p] # "none"}
    BY DEF Recorded, In
  <2> QED
    BY <2>1 DEF Truthful, Covered, ProgressIsHonest
<1>4. Honest => Truthful
  BY DEF Honest
<1> QED
  BY <1>1, <1>2, <1>3, <1>4, HonestHolds, PTL DEF Spec

-----------------------------------------------------------------------------
(* Whom a backfill welcomes                                                *)

\* A worker that may yet welcome p, in the attempt it is in.
Owes(w, p) ==
  \/ RepoOf(p) \in run[w].left
  \/ run[w].pc \in {"list", "prs", "index"} /\ RepoOf(p) = run[w].repo
  \/ p \in run[w].greet

\* All of those.
Owing(p) == {w \in Workers : run[w].pc # "idle" /\ Owes(w, p)}

\* The jobs about a pull request's repository.
Asking(p) == {j \in Jobs : RepoOf(p) \in payload[j]}

\* Every attempt so far has welcomed a pull request, or lost the answer, or still owes
\* it: each may once.
Welcoming ==
  \A p \in PRs : greetings[p] + Cardinality(Owing(p)) <= unheard[p] + Total(tries, Asking(p))

\* Counting workers.
LEMMA OwingFinite ==
  ASSUME NEW B, B \subseteq Workers
  PROVE  /\ IsFiniteSet(B) /\ Cardinality(B) \in Nat
         /\ \A A \in SUBSET B : IsFiniteSet(A) /\ Cardinality(A) \in Nat
            /\ Cardinality(A) <= Cardinality(B)
         /\ \A w \in B : Cardinality(B \ {w}) = Cardinality(B) - 1
<1>1. IsFiniteSet(B) /\ Cardinality(B) \in Nat
  BY FiniteAssumption, FS_Subset, FS_CardinalityType
<1>2. ASSUME NEW A \in SUBSET B
      PROVE IsFiniteSet(A) /\ Cardinality(A) \in Nat /\ Cardinality(A) <= Cardinality(B)
  BY <1>1, <1>2, FS_Subset, FS_CardinalityType
<1>3. ASSUME NEW w \in B PROVE Cardinality(B \ {w}) = Cardinality(B) - 1
  BY <1>1, FS_RemoveElement
<1> QED
  BY <1>1, <1>2, <1>3

\* The attempts of those jobs are a number, and so are a pull request's comments.
LEMMA AskingFinite ==
  ASSUME Basics, NEW p \in PRs
  PROVE  IsFiniteSet(Asking(p)) /\ (\A j \in Asking(p) : tries[j] \in Nat)
         /\ Total(tries, Asking(p)) \in Nat
         /\ greetings[p] \in Nat /\ unheard[p] \in Nat
<1>1. IsFiniteSet(Jobs)
  BY Bounds, FS_Interval DEF Jobs
<1>2. IsFiniteSet(Asking(p))
  BY <1>1, FS_Subset DEF Asking
<1>3. \A j \in Asking(p) : tries[j] \in Nat
  BY Bounds DEF Asking, Basics, Types, Stores
<1> QED
  BY <1>2, <1>3, PairsFinite, Bounds DEF Basics, Types, Stores

\* Nobody owes a welcome who did not, and none was sent.
LEMMA OwesOn ==
  ASSUME Basics, Basics', Welcoming, NEW p \in PRs, Owing(p)' \subseteq Owing(p),
         greetings'[p] + unheard[p] <= greetings[p] + unheard'[p],
         Total(tries, Asking(p)) <= Total(tries', Asking(p)')
  PROVE  greetings'[p] + Cardinality(Owing(p)') <= unheard'[p] + Total(tries', Asking(p)')
<1> DEFINE A == Owing(p)'
           B == Owing(p)
<1>1. A \in SUBSET B /\ B \subseteq Workers
  BY DEF Owing
<1>2. Cardinality(A) <= Cardinality(B) /\ Cardinality(A) \in Nat /\ Cardinality(B) \in Nat
  <2> HIDE DEF A, B
  <2> QED
    BY <1>1, OwingFinite
<1>3. greetings[p] + Cardinality(B) <= unheard[p] + Total(tries, Asking(p))
  BY DEF Welcoming
<1>4. /\ greetings[p] \in Nat /\ unheard[p] \in Nat /\ greetings'[p] \in Nat /\ unheard'[p] \in Nat
  BY Bounds DEF Basics, Types, Stores
<1>5. Total(tries, Asking(p)) \in Nat
  BY AskingFinite
<1>6. Total(tries', Asking(p)') \in Nat
  <2>1. IsFiniteSet(Asking(p)')
    <3>1. IsFiniteSet(Jobs)
      BY Bounds, FS_Interval DEF Jobs
    <3> QED
      BY <3>1, FS_Subset DEF Asking
  <2>2. \A j \in Asking(p)' : tries'[j] \in Nat
    BY Bounds DEF Asking, Basics, Types, Stores
  <2> QED
    BY <2>1, <2>2, PairsFinite
<1> HIDE DEF A, B
<1>7. ASSUME NEW g \in Nat, NEW h \in Nat, NEW u \in Nat, NEW v \in Nat, NEW a \in Nat, NEW b \in Nat,
             NEW s \in Nat, NEW t \in Nat, a <= b, g + b <= u + s, h + u <= g + v, s <= t
      PROVE  h + a <= v + t
  BY <1>7
<1>8. greetings'[p] + Cardinality(A) <= unheard'[p] + Total(tries', Asking(p)')
  BY <1>2, <1>3, <1>4, <1>5, <1>6, <1>7
<1> QED
  BY <1>8 DEF A

\* Without an attempt or a welcome.
LEMMA OwesStill ==
  ASSUME Basics, Basics', Welcoming, NEW p \in PRs, NEW w \in Workers, Others(w),
         run'[w].pc # "idle" /\ Owes(w, p)' => run[w].pc # "idle" /\ Owes(w, p),
         greetings'[p] + unheard[p] <= greetings[p] + unheard'[p], tries' = tries, payload' = payload
  PROVE  greetings'[p] + Cardinality(Owing(p)') <= unheard'[p] + Total(tries', Asking(p)')
<1>1. Owing(p)' \subseteq Owing(p)
  BY DEF Owing, Owes, Others
<1>2. Total(tries, Asking(p)) <= Total(tries', Asking(p)')
  <2>1. Asking(p)' = Asking(p)
    BY DEF Asking
  <2> QED
    BY <2>1, AskingFinite
<1> QED
  BY <1>1, <1>2, OwesOn

\* A worker's steps: an attempt owes one welcome when it starts, and none of them more.
LEMMA WelcomingByWorker ==
  ASSUME Basics, Basics', Welcoming, NEW w \in Workers, WorkerStep(w), NEW p \in PRs
  PROVE  greetings'[p] + Cardinality(Owing(p)') <= unheard'[p] + Total(tries', Asking(p)')
<1> DEFINE G == greetings'[p] + Cardinality(Owing(p)') <= unheard'[p] + Total(tries', Asking(p)')
<1> USE DEF Basics
<1>1. ASSUME run[w].pc # "idle" PROVE run[w] \in Running /\ Form(w) /\ run[w].repo \in Repos
  BY <1>1, Busy DEF Working, Works, Running
<1>2. /\ greetings[p] \in Nat /\ unheard[p] \in Nat /\ greetings'[p] \in Nat /\ unheard'[p] \in Nat
      /\ Total(tries, Asking(p)) \in Nat
  BY Bounds, AskingFinite DEF Types, Stores
<1>3. ASSUME NEW j \in Jobs, Take(w, j) PROVE G
  <2>1. /\ run'[w].pc = "begin" /\ run'[w].left = payload[j] /\ run'[w].greet = {} /\ Others(w)
    BY <1>3, TakeGoes
  <2>2. tries' = [tries EXCEPT ![j] = @ + 1] /\ UNCHANGED <<payload, greetings, unheard>>
    BY <1>3 DEF Take, Queue!Take, atGitHub, history
  <2>3. Asking(p)' = Asking(p)
    BY <2>2 DEF Asking
  <2>4. CASE RepoOf(p) \notin payload[j]
    <3>1. Owing(p)' \subseteq Owing(p)
      BY <2>1, <2>4 DEF Owing, Owes, Others
    <3>2. \A k \in Asking(p) : tries'[k] = tries[k]
      BY <2>2, <2>4 DEF Asking, Types, Stores
    <3>3. Total(tries, Asking(p)) <= Total(tries', Asking(p))
      BY <3>2, AskingFinite, TotalMono
    <3>4. Total(tries, Asking(p)) <= Total(tries', Asking(p)')
      BY <2>3, <3>3
    <3>5. greetings'[p] + unheard[p] <= greetings[p] + unheard'[p]
      BY <1>2, <2>2
    <3> QED
      BY <3>1, <3>4, <3>5, OwesOn
  <2>5. CASE RepoOf(p) \in payload[j]
    <3> DEFINE A == Owing(p)'
               B == Owing(p)
    <3>1. A \ {w} \in SUBSET B /\ A \subseteq Workers /\ B \subseteq Workers
      BY <2>1 DEF Owing, Owes, Others
    <3>2. Cardinality(A) <= Cardinality(B) + 1 /\ Cardinality(A) \in Nat /\ Cardinality(B) \in Nat
      <4> HIDE DEF A, B
      <4>1. Cardinality(A \ {w}) <= Cardinality(B) /\ Cardinality(A) \in Nat /\ Cardinality(B) \in Nat
        BY <3>1, OwingFinite
      <4>2. CASE w \in A
        BY <3>1, <4>1, <4>2, OwingFinite
      <4>3. CASE w \notin A
        <5>1. A \ {w} = A
          BY <4>3
        <5> QED
          BY <4>1, <5>1
      <4> QED
        BY <4>2, <4>3
    <3>3. j \in Asking(p) /\ tries'[j] = tries[j] + 1
          /\ \A k \in Asking(p) \ {j} : tries'[k] = tries[k]
      BY <2>2, <2>5 DEF Asking, Types, Stores
    <3>4. Total(tries', Asking(p)) = Total(tries, Asking(p)) + 1
      BY <3>3, AskingFinite, TotalBump
    <3>5. greetings[p] + Cardinality(B) <= unheard[p] + Total(tries, Asking(p))
      BY DEF Welcoming
    <3>6. greetings'[p] + Cardinality(A) <= unheard'[p] + Total(tries', Asking(p)')
      <4> HIDE DEF A, B
      <4> QED
        BY <1>2, <2>2, <2>3, <3>2, <3>4, <3>5
    <3> QED
      BY <3>6
  <2> QED
    BY <2>4, <2>5
<1>4. ASSUME Mark(w) PROVE G
  <2>1. run'[w] = Idle /\ Others(w) /\ tries' = tries /\ UNCHANGED <<payload, greetings, unheard>>
    BY <1>4, EndGoes DEF Mark, Queue!Settle, atGitHub, history
  <2> QED
    BY <1>2, <2>1, OwesStill DEF Idle
<1>7. ASSUME NEW token \in BOOLEAN, Begin(w, token) PROVE G
  <2>1. run[w].pc = "begin" /\ UNCHANGED <<payload, greetings, unheard, tries>>
        /\ Goes(w, IF token THEN "repos" ELSE "raised", run[w].left, run[w].repo, run[w].page,
           run[w].todo, run[w].greet)
    BY <1>7, BeginGoes DEF Begin, At, atGitHub, queue
  <2>2. Owes(w, p)' => Owes(w, p)
    BY <2>1 DEF Goes, Owes
  <2> QED
    BY <1>2, <2>1, <2>2, OwesStill DEF Goes
<1>8. ASSUME NEW r \in Repos, NextRepo(w, r) PROVE G
  <2>1. run[w].pc = "repos" /\ Goes(w, "list", run[w].left \ {r}, r, 1, run[w].todo, run[w].greet)
        /\ r \in run[w].left /\ UNCHANGED <<payload, greetings, unheard, tries>>
    BY <1>8, NextRepoGoes DEF NextRepo, At, atGitHub, queue, history
  <2>2. Owes(w, p)' => Owes(w, p)
    BY <2>1 DEF Goes, Owes
  <2> QED
    BY <1>2, <2>1, <2>2, OwesStill DEF Goes
<1>9. ASSUME ListPage(w) PROVE G
  <2>1. run[w].pc = "list" /\ UNCHANGED <<payload, greetings, unheard, tries>>
        /\ Goes(w, IF Last(w) THEN "prs" ELSE "list", run[w].left, run[w].repo,
              IF Last(w) THEN 0 ELSE run[w].page + 1, After(w), run[w].greet)
    BY <1>9, ListPageGoes DEF ListPage, At, atGitHub, queue
  <2>2. Owes(w, p)' => Owes(w, p)
    BY <2>1 DEF Goes, Owes
  <2> QED
    BY <1>2, <2>1, <2>2, OwesStill DEF Goes
<1>10. ASSUME ListRefused(w) PROVE G
  <2>1. run[w].pc = "list" /\ UNCHANGED <<payload, greetings, unheard, tries>>
        /\ Goes(w, "prs", run[w].left, run[w].repo, 0, run[w].todo, run[w].greet)
    BY <1>10, ListRefusedGoes DEF ListRefused, At, atGitHub, queue
  <2>2. Owes(w, p)' => Owes(w, p)
    BY <2>1 DEF Goes, Owes
  <2> QED
    BY <1>2, <2>1, <2>2, OwesStill DEF Goes
<1>11. ASSUME RecordPR(w) PROVE G
  <2>1. run[w].pc = "prs" /\ UNCHANGED <<payload, greetings, unheard, tries>>
        /\ Goes(w, "index", run[w].left, run[w].repo, run[w].page, Tail(run[w].todo), run[w].greet)
    BY <1>11, RecordPRGoes DEF RecordPR, At, atGitHub, queue, history
  <2>2. Owes(w, p)' => Owes(w, p)
    BY <2>1 DEF Goes, Owes
  <2> QED
    BY <1>2, <2>1, <2>2, OwesStill DEF Goes
<1>12. ASSUME CountPR(w) PROVE G
  <2>1. run[w].pc = "index" /\ UNCHANGED <<payload, greetings, unheard, tries>>
        /\ Goes(w, "prs", run[w].left, run[w].repo, run[w].page, run[w].todo, run[w].greet)
    BY <1>12, CountPRGoes DEF CountPR, At, atGitHub, queue, history
  <2>2. Owes(w, p)' => Owes(w, p)
    BY <2>1 DEF Goes, Owes
  <2> QED
    BY <1>2, <2>1, <2>2, OwesStill DEF Goes
<1>13. ASSUME NEW answered \in BOOLEAN, ListOpen(w, answered) PROVE G
  <2>1. run[w].pc = "prs" /\ UNCHANGED <<payload, greetings, unheard, tries>>
        /\ Goes(w, "welcome", run[w].left, run[w].repo, run[w].page, run[w].todo,
                IF answered THEN Open(run[w].repo) ELSE {})
    BY <1>13, ListOpenGoes DEF ListOpen, At, atGitHub, queue, history
  <2>2. Owes(w, p)' => Owes(w, p)
    BY <2>1 DEF Goes, Owes, Open, In
  <2> QED
    BY <1>2, <2>1, <2>2, OwesStill DEF Goes
<1>14. ASSUME RepoDone(w) PROVE G
  <2>1. run[w].pc = "welcome" /\ UNCHANGED <<payload, greetings, unheard, tries>>
        /\ Goes(w, "repos", run[w].left, AnyRepo, 0, <<>>, {})
    BY <1>14, RepoDoneGoes DEF RepoDone, At, atGitHub, queue, history
  <2>2. Owes(w, p)' => Owes(w, p)
    BY <2>1 DEF Goes, Owes
  <2> QED
    BY <1>2, <2>1, <2>2, OwesStill DEF Goes
<1>15. ASSUME Finish(w) PROVE G
  <2>1. run[w].pc = "repos" /\ UNCHANGED <<payload, greetings, unheard, tries>>
        /\ Goes(w, "returned", run[w].left, run[w].repo, run[w].page, run[w].todo, run[w].greet)
    BY <1>15, FinishGoes DEF Finish, At, atGitHub, queue, history
  <2>2. Owes(w, p)' => Owes(w, p)
    BY <2>1 DEF Goes, Owes
  <2> QED
    BY <1>2, <2>1, <2>2, OwesStill DEF Goes
<1>16. ASSUME Raise(w) PROVE G
  <2>1. run[w].pc # "idle" /\ UNCHANGED <<payload, greetings, unheard, tries>>
        /\ Goes(w, "raised", {}, AnyRepo, 0, <<>>, {})
    BY <1>16, RaiseGoes DEF Raise, atGitHub, queue, history
  <2>2. ~Owes(w, p)'
    BY <2>1 DEF Goes, Owes
  <2> QED
    BY <1>2, <2>1, <2>2, OwesStill DEF Goes
<1>17. ASSUME NEW q \in PRs, NEW answer \in {"created", "refused", "lost"}, Welcome(w, q, answer)
              PROVE G
  <2>1. /\ run[w].pc = "welcome" /\ q \in run[w].greet /\ UNCHANGED <<payload, tries>>
        /\ answer = "refused" => UNCHANGED greetings
        /\ answer # "refused" => greetings' = [greetings EXCEPT ![q] = @ + 1]
        /\ answer = "lost" => unheard' = [unheard EXCEPT ![q] = @ + 1]
        /\ answer # "lost" => UNCHANGED unheard
    BY <1>17 DEF Welcome, At, queue
  <2>2. answer # "lost" =>
              Goes(w, "welcome", run[w].left, run[w].repo, run[w].page, run[w].todo,
                  run[w].greet \ {q})
    BY <1>17, WelcomeGoes
  <2>3. answer = "lost" => (run' = run) \/ Goes(w, "raised", {}, AnyRepo, 0, <<>>, {})
    BY <1>17, WelcomeGoes
  <2>4. greetings \in [PRs -> Nat] /\ unheard \in [PRs -> 0..MaxUnheard]
    BY DEF Types, Stores
  <2>5. CASE answer = "lost"
    <3>1. greetings'[p] + unheard[p] <= greetings[p] + unheard'[p]
      BY <1>2, <2>1, <2>4, <2>5
    <3>2. Others(w) /\ (run'[w].pc # "idle" /\ Owes(w, p)' => run[w].pc # "idle" /\ Owes(w, p))
      BY <2>1, <2>3, <2>5 DEF Goes, Owes, Others
    <3> QED
      BY <2>1, <3>1, <3>2, OwesStill
  <2>6. CASE answer = "refused" \/ p # q
    <3>1. CASE answer = "lost"
      BY <2>5, <3>1
    <3>2. CASE answer # "lost"
      <4>1. greetings'[p] + unheard[p] <= greetings[p] + unheard'[p]
        BY <1>2, <2>1, <2>4, <2>6, <3>2
      <4>2. Others(w) /\ (Owes(w, p)' => Owes(w, p))
        BY <2>1, <2>2, <3>2 DEF Goes, Owes
      <4> QED
        BY <2>1, <4>1, <4>2, OwesStill
    <3> QED
      BY <3>1, <3>2
  <2>7. CASE answer = "created" /\ p = q
    <3> DEFINE A == Owing(p)'
               B == Owing(p)
    <3>1. w \in B
      BY <2>1, <2>7 DEF Owing, Owes
    <3>2. RepoOf(p) = run[w].repo /\ run[w].repo \notin run[w].left
      BY <1>1, <2>1, <2>7 DEF Form, In, Inside
    <3>3. ~Owes(w, p)' /\ Others(w)
      BY <2>1, <2>2, <2>7, <3>2 DEF Goes, Owes
    <3>4. A \in SUBSET (B \ {w}) /\ B \subseteq Workers /\ B \ {w} \subseteq Workers
      BY <3>3 DEF Owing, Owes, Others
    <3>5. Cardinality(A) <= Cardinality(B) - 1 /\ Cardinality(A) \in Nat /\ Cardinality(B) \in Nat
      <4> HIDE DEF A, B
      <4>1. Cardinality(A) <= Cardinality(B \ {w}) /\ Cardinality(A) \in Nat
        BY <3>4, OwingFinite
      <4>2. Cardinality(B \ {w}) = Cardinality(B) - 1 /\ Cardinality(B) \in Nat
        BY <3>1, <3>4, OwingFinite
      <4> QED
        BY <4>1, <4>2
    <3>6. greetings'[p] = greetings[p] + 1 /\ unheard'[p] = unheard[p]
      BY <2>1, <2>4, <2>7
    <3>7. Asking(p)' = Asking(p) /\ tries' = tries
      BY <2>1 DEF Asking
    <3>8. greetings[p] + Cardinality(B) <= unheard[p] + Total(tries, Asking(p))
      BY DEF Welcoming
    <3>9. greetings'[p] + Cardinality(A) <= unheard'[p] + Total(tries', Asking(p)')
      <4> HIDE DEF A, B
      <4> QED
        BY <1>2, <3>5, <3>6, <3>7, <3>8
    <3> QED
      BY <3>9
  <2> QED
    BY <2>5, <2>6, <2>7
<1> QED
  BY <1>3, <1>4, <1>7, <1>8, <1>9, <1>10, <1>11, <1>12, <1>13, <1>14, <1>15, <1>16, <1>17
     DEF WorkerStep

\* A new job was never tried, and owes nothing.
LEMMA WelcomingByEnqueue ==
  ASSUME Basics, Basics', Welcoming, NEW j \in Jobs, NEW R \in SUBSET Repos, Enqueue(j, R),
         NEW p \in PRs
  PROVE  greetings'[p] + Cardinality(Owing(p)') <= unheard'[p] + Total(tries', Asking(p)')
<1>1. /\ phase[j] = "absent" /\ payload' = [payload EXCEPT ![j] = R]
      /\ UNCHANGED <<run, tries, greetings, unheard>>
  BY DEF Enqueue, Queue!Submit, atGitHub, history
<1>2. tries[j] = 0
  BY <1>1 DEF Basics, Asked
<1>3. Owing(p)' = Owing(p)
  BY <1>1 DEF Owing, Owes
<1>4. Asking(p) \ {j} \subseteq Asking(p)' /\ Asking(p)' \subseteq Jobs
  BY <1>1 DEF Asking, Basics, Types, Stores
<1>5. IsFiniteSet(Asking(p)') /\ \A k \in Asking(p)' : tries[k] \in Nat
  <2>1. IsFiniteSet(Jobs)
    BY Bounds, FS_Interval DEF Jobs
  <2> QED
    BY <1>4, <2>1, Bounds, FS_Subset DEF Basics, Types, Stores
<1>6. Total(tries, Asking(p)) <= Total(tries, Asking(p)')
  <2>1. Pairs(tries, Asking(p)) \subseteq Pairs(tries, Asking(p)')
    <3> SUFFICES ASSUME NEW z \in Pairs(tries, Asking(p)) PROVE z \in Pairs(tries, Asking(p)')
      OBVIOUS
    <3>1. PICK k \in Asking(p) : z \in {k} \X (1..tries[k])
      BY InPairs
    <3>2. k # j
      <4>1. 1..0 = {}
        OBVIOUS
      <4> QED
        BY <1>2, <3>1, <4>1
    <3> QED
      BY <1>4, <3>1, <3>2, InPairs
  <2>2. /\ IsFiniteSet(Pairs(tries, Asking(p)'))
        /\ Total(tries, Asking(p)') = Cardinality(Pairs(tries, Asking(p)'))
    BY <1>5, PairsFinite
  <2>3. Total(tries, Asking(p)) = Cardinality(Pairs(tries, Asking(p)))
    BY AskingFinite, PairsFinite
  <2> QED
    BY <2>1, <2>2, <2>3, FS_Subset
<1>7. greetings'[p] + unheard[p] <= greetings[p] + unheard'[p]
  BY <1>1, AskingFinite
<1>8. Total(tries, Asking(p)) <= Total(tries', Asking(p)')
  BY <1>1, <1>6
<1> QED
  BY <1>3, <1>7, <1>8, OwesOn

\* No step lets an attempt owe a welcome it has sent.
LEMMA WelcomingStep == Basics /\ Basics' /\ Welcoming /\ [Next]_vars => Welcoming'
<1> SUFFICES ASSUME Basics, Basics', Welcoming, [Next]_vars, NEW p \in PRs
             PROVE  greetings'[p] + Cardinality(Owing(p)') <= unheard'[p] + Total(tries', Asking(p)')
  BY DEF Welcoming
<1> DEFINE G == greetings'[p] + Cardinality(Owing(p)') <= unheard'[p] + Total(tries', Asking(p)')
<1>1. ASSUME UNCHANGED <<run, tries, payload, greetings, unheard>> PROVE G
  <2>1. Owing(p)' = Owing(p) /\ Asking(p)' = Asking(p)
    BY <1>1 DEF Owing, Owes, Asking
  <2> QED
    BY <1>1, <2>1 DEF Welcoming
<1>2. CASE UNCHANGED vars
  BY <1>1, <1>2 DEF vars, queue, atGitHub, history
<1>3. ASSUME NEW q \in PRs, GitHubStep(q) \/ HookStep(q) PROVE G
  BY <1>1, <1>3 DEF GitHubStep, HookStep, Update, Merge, HookInscribe, HookFails, queue, atGitHub,
     history
<1>4. ASSUME NEW j \in Jobs, NEW R \in SUBSET Repos, Enqueue(j, R) PROVE G
  BY <1>4, WelcomingByEnqueue
<1>5. ASSUME NEW w \in Workers, Crash(w) PROVE G
  <2>1. run'[w] = Idle /\ Others(w) /\ UNCHANGED <<tries, payload, greetings, unheard>>
    BY <1>5, EndGoes DEF Crash, Queue!Strand, atGitHub, history, Basics
  <2>2. greetings'[p] + unheard[p] <= greetings[p] + unheard'[p]
    BY <2>1, AskingFinite
  <2> QED
    BY <2>1, <2>2, OwesStill DEF Idle
<1>6. ASSUME NEW w \in Workers, WorkerStep(w) PROVE G
  BY <1>6, WelcomingByWorker
<1> QED
  BY <1>2, <1>3, <1>4, <1>5, <1>6 DEF Next

\* A pull request has no more welcome comments than the attempts of the jobs about its
\* repository, but for those sent again after an answer was lost: post_issue_comment asks
\* nobody whether one is there.
THEOREM OneWelcomeAnAttempt == Spec => []WelcomesByAttempt
<1>1. Init => Welcoming
  <2> SUFFICES ASSUME Init, NEW p \in PRs
               PROVE  greetings[p] + Cardinality(Owing(p)) <= unheard[p] + Total(tries, Asking(p))
    BY DEF Welcoming
  <2>1. Owing(p) = {} /\ greetings[p] = 0 /\ unheard[p] = 0
    BY DEF Init, Owing, Idle
  <2>2. Cardinality({}) = 0
    BY FS_EmptySet
  <2>3. Total(tries, Asking(p)) \in Nat
    BY InitBasics, AskingFinite
  <2> QED
    BY <2>1, <2>2, <2>3
<1>2. Basics /\ Basics' /\ Welcoming /\ [Next]_vars => Welcoming'
  BY WelcomingStep
<1>3. Basics /\ Welcoming => WelcomesByAttempt
  <2> SUFFICES ASSUME Basics, Welcoming, NEW p \in PRs
               PROVE  greetings[p] <= unheard[p] + Total(tries, Asking(p))
    BY DEF WelcomesByAttempt, Asking
  <2> DEFINE B == Owing(p)
  <2>1. B \subseteq Workers
    BY DEF Owing
  <2>2. Cardinality(B) \in Nat
    <3> HIDE DEF B
    <3> QED
      BY <2>1, OwingFinite
  <2>3. greetings[p] + Cardinality(B) <= unheard[p] + Total(tries, Asking(p))
    BY DEF Welcoming
  <2> HIDE DEF B
  <2> QED
    BY <2>2, <2>3, AskingFinite
<1> QED
  BY <1>1, <1>2, <1>3, BasicsHold, PTL DEF Spec
=============================================================================
