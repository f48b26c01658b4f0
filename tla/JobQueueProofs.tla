--------------------------- MODULE JobQueueProofs ---------------------------
(***************************************************************************)
(* Theorems about JobQueue for every number of workers, jobs, attempts and *)
(* crashes.  The inductive invariant IInv adds to the checked invariants   *)
(* what a worker's local state says about the row it points at: a claim in *)
(* progress still finds its row queued and due (Claims), which is what the *)
(* row lock is for, and a row that has to wait is queued (Waiting).        *)
(***************************************************************************)
EXTENDS JobQueue, FiniteSetTheorems, TLAPS

\* A worker points at a row exactly while it claims or works on it.
Pointers == \A w \in Workers : job[w] = 0 <=> pc[w] \in {"poll", "down"}

\* Between the two statements of claim_next nobody has touched the row.
Claims ==
  \A w \in Workers :
    pc[w] = "claiming" => /\ status[job[w]] = "queued"
                          /\ wait[job[w]] <= 0
                          /\ tried[w] = attempts[job[w]] + 1

\* Rows exist from 1 to lastId; a row that has to wait is queued.
Waiting ==
  \A j \in Jobs : /\ status[j] = "absent" <=> j > lastId
                  /\ status[j] = "absent" => attempts[j] = 0
                  /\ wait[j] > 0 => status[j] = "queued"

IInv ==
  /\ TypeOK
  /\ OneRunner
  /\ HeldIsRunning
  /\ AttemptBudget
  /\ Pointers
  /\ Claims
  /\ Waiting

\* The backoff is a number of seconds.
LEMMA BackoffType == ASSUME NEW n \in Nat PROVE Backoff(n) \in Int
  BY DEF Backoff

\* The inductive invariant holds of the empty table ...
LEMMA InitIInv == Init => IInv
  BY MaxAttemptsAssumption, BoundsAssumption, TypesAssumption
  DEF Init, IInv, TypeOK, OneRunner, HeldIsRunning, AttemptBudget, Pointers,
      Claims, Waiting, Jobs, Status, PC, Busy

\* ... and every step keeps it.
LEMMA NextIInv == IInv /\ [Next]_vars => IInv'
<1> SUFFICES ASSUME IInv, [Next]_vars PROVE IInv'
  OBVIOUS
<1> USE MaxAttemptsAssumption, BoundsAssumption, TypesAssumption
<1> USE DEF IInv, TypeOK, OneRunner, HeldIsRunning, AttemptBudget, Pointers,
      Claims, Waiting, Jobs, Status, PC, Busy, rows
<1>1. ASSUME NEW t \in Types, Enqueue(t) PROVE IInv'
  <2> USE <1>1 DEF Enqueue
  <2>1. TypeOK'
    OBVIOUS
  <2>2. OneRunner' /\ Pointers'
    OBVIOUS
  <2>3. HeldIsRunning' /\ Claims'
    OBVIOUS
  <2>4. AttemptBudget' /\ Waiting'
    OBVIOUS
  <2> QED BY <2>1, <2>2, <2>3, <2>4
<1>2. CASE Tick
  BY <1>2 DEF Tick
<1>3. ASSUME NEW w \in Workers, SelectForUpdate(w) PROVE IInv'
  <2> USE <1>3 DEF SelectForUpdate, Claimable, Locked
  <2>1. TypeOK'
    OBVIOUS
  <2>2. OneRunner' /\ Pointers'
    <3>1. ASSUME NEW v \in Workers, job[v] # 0 PROVE job[v] # job'[w]
      <4>1. CASE pc[v] = "claiming"
        BY <4>1
      <4>2. CASE pc[v] \in Busy
        BY <4>2, <3>1
      <4> QED BY <3>1, <4>1, <4>2
    <3> QED BY <3>1
  <2>3. HeldIsRunning' /\ Claims'
    OBVIOUS
  <2>4. AttemptBudget' /\ Waiting'
    OBVIOUS
  <2> QED BY <2>1, <2>2, <2>3, <2>4
<1>4. ASSUME NEW w \in Workers, CommitClaim(w) PROVE IInv'
  <2> USE <1>4 DEF CommitClaim
  <2>1. TypeOK'
    OBVIOUS
  <2>2. OneRunner' /\ Pointers'
    OBVIOUS
  <2>3. HeldIsRunning' /\ Claims'
    OBVIOUS
  <2>4. AttemptBudget' /\ Waiting'
    OBVIOUS
  <2> QED BY <2>1, <2>2, <2>3, <2>4
<1>5. ASSUME NEW w \in Workers, HandlerEnds(w) PROVE IInv'
  <2> USE <1>5 DEF HandlerEnds
  <2>1. TypeOK'
    OBVIOUS
  <2>2. OneRunner' /\ Pointers'
    OBVIOUS
  <2>3. HeldIsRunning' /\ Claims'
    OBVIOUS
  <2>4. AttemptBudget' /\ Waiting'
    OBVIOUS
  <2> QED BY <2>1, <2>2, <2>3, <2>4
<1>6. ASSUME NEW w \in Workers, MarkDone(w) PROVE IInv'
  <2> USE <1>6 DEF MarkDone, NextPoll
  <2>1. TypeOK'
    OBVIOUS
  <2>2. OneRunner' /\ Pointers'
    OBVIOUS
  <2>3. HeldIsRunning' /\ Claims'
    OBVIOUS
  <2>4. AttemptBudget' /\ Waiting'
    OBVIOUS
  <2> QED BY <2>1, <2>2, <2>3, <2>4
<1>7. ASSUME NEW w \in Workers, Requeue(w) PROVE IInv'
  <2> USE <1>7 DEF Requeue, AttemptsLeft, NextPoll
  <2>1. TypeOK'
    <3>1. Backoff(tried[w]) \in Int
      BY BackoffType
    <3>2. wait' \in [Jobs -> Int]
      BY <3>1
    <3>3. status' \in [Jobs -> Status] /\ pc' \in [Workers -> PC]
      OBVIOUS
    <3>4. job' \in [Workers -> Jobs \cup {0}] /\ tried' \in [Workers -> 0..MaxAttempts]
      OBVIOUS
    <3> QED BY <3>2, <3>3, <3>4
  <2>2. OneRunner' /\ Pointers'
    OBVIOUS
  <2>3. HeldIsRunning' /\ Claims'
    OBVIOUS
  <2>4. AttemptBudget' /\ Waiting'
    OBVIOUS
  <2> QED BY <2>1, <2>2, <2>3, <2>4
<1>8. ASSUME NEW w \in Workers, GiveUp(w) PROVE IInv'
  <2> USE <1>8 DEF GiveUp, AttemptsLeft, NextPoll
  <2>1. TypeOK'
    OBVIOUS
  <2>2. OneRunner' /\ Pointers'
    OBVIOUS
  <2>3. HeldIsRunning' /\ Claims'
    OBVIOUS
  <2>4. AttemptBudget' /\ Waiting'
    OBVIOUS
  <2> QED BY <2>1, <2>2, <2>3, <2>4
<1>9. ASSUME NEW w \in Workers, Crash(w) PROVE IInv'
  <2> USE <1>9 DEF Crash
  <2>1. TypeOK'
    OBVIOUS
  <2>2. OneRunner' /\ Pointers'
    OBVIOUS
  <2>3. HeldIsRunning' /\ Claims'
    OBVIOUS
  <2>4. AttemptBudget' /\ Waiting'
    OBVIOUS
  <2> QED BY <2>1, <2>2, <2>3, <2>4
<1>10. ASSUME NEW w \in Workers, Restart(w) PROVE IInv'
  BY <1>10 DEF Restart
<1>11. CASE UNCHANGED vars
  BY <1>11 DEF vars
<1> QED
  BY <1>1, <1>2, <1>3, <1>4, <1>5, <1>6, <1>7, <1>8, <1>9, <1>10, <1>11
  DEF Next, Loop

\* Type correctness: every variable keeps the type its column or local
\* variable has, whatever the workers do.
THEOREM TypeCorrect == Spec => []TypeOK
<1>1. IInv => TypeOK
  BY DEF IInv
<1> QED BY InitIInv, NextIInv, <1>1, PTL DEF Spec

\* Mutual exclusion and the attempt budget, which the runs check for two
\* workers and three jobs: no row is ever pointed at by two workers, what a
\* worker works on is its own running row, and no job has an attempt too many.
THEOREM ExclusiveRunner == Spec => [](OneRunner /\ HeldIsRunning /\ AttemptBudget)
<1>1. IInv => OneRunner /\ HeldIsRunning /\ AttemptBudget
  BY DEF IInv
<1> QED BY InitIInv, NextIInv, <1>1, PTL DEF Spec

\* No step takes a job out of done or error: a mark writes by id alone, and
\* is right only because the row a worker marks is still its own.
THEOREM SettledStays == Spec => SettledForGood
<1>1. ASSUME IInv, [Next]_vars, NEW j \in Jobs, status[j] \in {"done", "error"}
      PROVE  status'[j] = status[j]
  <2> USE <1>1 DEF IInv, TypeOK, HeldIsRunning, Claims, Waiting, Pointers, Jobs,
        Status, PC, Busy, rows
  <2>1. ASSUME NEW t \in Types, Enqueue(t) PROVE status'[j] = status[j]
    BY <2>1 DEF Enqueue
  <2>2. ASSUME NEW w \in Workers, Loop(w) PROVE status'[j] = status[j]
    <3>1. CASE SelectForUpdate(w) \/ HandlerEnds(w)
      BY <3>1 DEF SelectForUpdate, HandlerEnds
    <3>2. CASE CommitClaim(w)
      BY <3>2 DEF CommitClaim
    <3>3. CASE MarkDone(w) \/ Requeue(w) \/ GiveUp(w)
      <4>1. job[w] # j
        BY <3>3 DEF MarkDone, Requeue, GiveUp
      <4>2. \E s \in Status : status' = [status EXCEPT ![job[w]] = s]
        BY <3>3 DEF MarkDone, Requeue, GiveUp
      <4> QED BY <4>1, <4>2
    <3> QED BY <2>2, <3>1, <3>2, <3>3 DEF Loop
  <2>3. ASSUME NEW w \in Workers, Crash(w) \/ Restart(w) PROVE status'[j] = status[j]
    BY <2>3 DEF Crash, Restart
  <2> QED BY <2>1, <2>2, <2>3 DEF Next, Tick, vars
<1>2. IInv /\ [Next]_vars
        => [\A j \in Jobs : status[j] \in {"done", "error"} => status'[j] = status[j]]_vars
  BY <1>1
<1> QED BY InitIInv, NextIInv, <1>2, PTL DEF Spec, SettledForGood

\* A failed job is left alone until its backoff has run out.
THEOREM BackoffIsWaited == Spec => BackoffHonoured
<1>1. ASSUME IInv, [Next]_vars, NEW j \in Jobs, wait[j] > 0
      PROVE  /\ status'[j] = "queued"
             /\ attempts'[j] = attempts[j]
             /\ \A w \in Workers : job'[w] # j
  <2> DEFINE Kept == /\ status'[j] = "queued"
                     /\ attempts'[j] = attempts[j]
                     /\ \A v \in Workers : job'[v] # j
  <2> USE <1>1 DEF IInv, TypeOK, HeldIsRunning, Claims, Waiting, Pointers, Jobs,
        Status, PC, Busy, rows
  <2>0. status[j] = "queued" /\ \A w \in Workers : job[w] # j
    OBVIOUS
  <2>1. ASSUME NEW t \in Types, Enqueue(t)
        PROVE  status'[j] = "queued" /\ attempts'[j] = attempts[j] /\ job' = job
    BY <2>0, <2>1 DEF Enqueue
  <2>2. ASSUME NEW w \in Workers, SelectForUpdate(w)
        PROVE  Kept
    <3>1. PICK k \in Jobs : wait[k] <= 0 /\ job' = [job EXCEPT ![w] = k]
      BY <2>2 DEF SelectForUpdate, Claimable
    <3>2. status' = status /\ attempts' = attempts
      BY <2>2 DEF SelectForUpdate
    <3> QED BY <2>0, <3>1, <3>2
  <2>3. ASSUME NEW w \in Workers, HandlerEnds(w) \/ Crash(w) \/ Restart(w)
        PROVE  Kept
    <3>1. status' = status /\ attempts' = attempts
      BY <2>3 DEF HandlerEnds, Crash, Restart
    <3>2. job' = job \/ job' = [job EXCEPT ![w] = 0]
      BY <2>3 DEF HandlerEnds, Crash, Restart
    <3> QED BY <2>0, <3>1, <3>2
  <2>4. ASSUME NEW w \in Workers, CommitClaim(w)
        PROVE  Kept
    BY <2>0, <2>4 DEF CommitClaim
  <2>5. ASSUME NEW w \in Workers, MarkDone(w) \/ Requeue(w) \/ GiveUp(w)
        PROVE  Kept
    <3>1. job[w] # j
      BY <2>0
    <3>2. \E s \in Status : status' = [status EXCEPT ![job[w]] = s]
      BY <2>5 DEF MarkDone, Requeue, GiveUp
    <3>3. attempts' = attempts /\ job' = [job EXCEPT ![w] = 0]
      BY <2>5 DEF MarkDone, Requeue, GiveUp, NextPoll
    <3> QED BY <2>0, <3>1, <3>2, <3>3
  <2> QED BY <2>0, <2>1, <2>2, <2>3, <2>4, <2>5 DEF Next, Loop, Tick, vars
<1>2. IInv /\ [Next]_vars
        => [\A j \in Jobs :
              wait[j] > 0 => /\ status'[j] = "queued"
                             /\ attempts'[j] = attempts[j]
                             /\ \A w \in Workers : job'[w] # j]_vars
  BY <1>1
<1> QED BY InitIInv, NextIInv, <1>2, PTL DEF Spec, BackoffHonoured

-----------------------------------------------------------------------------
(* The queue implements JobLifecycle                                       *)

\* Who works on j after a step of worker w alone.
LEMMA RunnersStep ==
  ASSUME IInv, IInv', NEW w \in Workers, NEW j \in Jobs,
         \A v \in Workers \ {w} : pc'[v] = pc[v] /\ job'[v] = job[v]
  PROVE  Runners(j)' = (Runners(j) \ {w}) \cup
                       (IF pc'[w] \in Busy /\ job'[w] = j THEN {w} ELSE {})
  BY DEF Runners, Holds

\* Who works on a row is the one worker that points at it.
LEMMA SoleRunner ==
  ASSUME IInv, NEW w \in Workers, pc[w] \in Busy
  PROVE  job[w] \in Jobs /\ Runners(job[w]) = {w}
  BY DEF IInv, TypeOK, OneRunner, Pointers, Runners, Holds, Busy, Jobs

\* A worker that is not busy is in nobody's set of runners.
LEMMA IdleRunsNothing ==
  ASSUME IInv, NEW w \in Workers, pc[w] \notin Busy, NEW j \in Jobs
  PROVE  w \notin Runners(j)
  BY DEF Runners, Holds

\* An empty table is the lifecycle's initial state.
LEMMA InitLifecycle == Init => Lifecycle!Init
  BY DEF Init, Lifecycle!Init, Lifecycle!Jobs, Jobs, Runners, Holds, Busy

\* A step by which worker w leaves its job with the given outcome.
LEMMA SettleStep ==
  ASSUME IInv, IInv', NEW w \in Workers, pc[w] \in Busy, NextPoll(w),
         NEW outcome \in {"done", "queued", "error"},
         outcome = "queued" => attempts[job[w]] < MaxAttempts,
         outcome = "error" => attempts[job[w]] = MaxAttempts,
         status' = [status EXCEPT ![job[w]] = outcome],
         attempts' = attempts
  PROVE  Lifecycle!Next
<1>1. job[w] \in Jobs /\ Runners(job[w]) = {w} /\ status[job[w]] = "running"
  BY SoleRunner DEF IInv, HeldIsRunning
<1>2. pc'[w] = "poll" /\ \A v \in Workers \ {w} : pc'[v] = pc[v] /\ job'[v] = job[v]
  BY DEF NextPoll, IInv, TypeOK
<1>3. \A j \in Jobs : Runners(j)' = Runners(j) \ {w}
  BY <1>2, RunnersStep DEF Busy
<1>4. \A j \in Jobs : j # job[w] => w \notin Runners(j)
  BY DEF Runners, Holds
<1>5. [j \in Jobs |-> Runners(j)]' = [[j \in Jobs |-> Runners(j)] EXCEPT ![job[w]] = {}]
  <2>1. \A k \in Jobs : Runners(k)' = IF k = job[w] THEN {} ELSE Runners(k)
    BY <1>1, <1>3, <1>4
  <2> QED BY <2>1
<1>6. Lifecycle!Settle(job[w], w, outcome)
  BY <1>1, <1>5 DEF Lifecycle!Settle
<1> QED BY <1>1, <1>6 DEF Lifecycle!Next, Lifecycle!Jobs, Jobs

\* A step that changes neither the table nor who works on what.
LEMMA HiddenStep ==
  ASSUME IInv, IInv', NEW w \in Workers,
         \A v \in Workers \ {w} : pc'[v] = pc[v] /\ job'[v] = job[v],
         \/ pc[w] \notin Busy /\ pc'[w] \notin Busy
         \/ pc[w] \in Busy /\ pc'[w] \in Busy /\ job'[w] = job[w],
         status' = status, attempts' = attempts
  PROVE  UNCHANGED <<status, attempts, [j \in Jobs |-> Runners(j)]>>
<1>1. \A j \in Jobs : Runners(j)' = Runners(j)
  BY RunnersStep DEF Runners, Holds
<1> QED BY <1>1

\* Every step is a step of the lifecycle, or hidden from it.
LEMMA NextLifecycle ==
  ASSUME IInv, IInv', [Next]_vars
  PROVE  [Lifecycle!Next]_<<status, attempts, [j \in Jobs |-> Runners(j)]>>
<1> DEFINE holders == [j \in Jobs |-> Runners(j)]
<1>1. ASSUME NEW t \in Types, Enqueue(t) PROVE Lifecycle!Next
  <2>1. lastId + 1 \in Jobs /\ status[lastId + 1] = "absent"
    BY <1>1 DEF Enqueue, IInv, TypeOK, Waiting, Jobs
  <2>2. holders' = holders
    BY <1>1 DEF Enqueue, Runners, Holds
  <2>3. Lifecycle!Submit(lastId + 1)
    BY <1>1, <2>1, <2>2 DEF Enqueue, Lifecycle!Submit
  <2> QED BY <2>1, <2>3 DEF Lifecycle!Next, Lifecycle!Jobs, Jobs
<1>2. CASE Tick
  BY <1>2 DEF Tick, Runners, Holds
<1>3. ASSUME NEW w \in Workers, SelectForUpdate(w) \/ HandlerEnds(w) \/ Restart(w)
      PROVE  UNCHANGED <<status, attempts, holders>>
  <2>1. status' = status /\ attempts' = attempts
    BY <1>3 DEF SelectForUpdate, HandlerEnds, Restart, rows
  <2>2. \A v \in Workers \ {w} : pc'[v] = pc[v] /\ job'[v] = job[v]
    BY <1>3 DEF SelectForUpdate, HandlerEnds, Restart, IInv, TypeOK
  <2>3. \/ pc[w] \notin Busy /\ pc'[w] \notin Busy
        \/ pc[w] \in Busy /\ pc'[w] \in Busy /\ job'[w] = job[w]
    BY <1>3 DEF SelectForUpdate, HandlerEnds, Restart, IInv, TypeOK, Busy
  <2> QED BY <2>1, <2>2, <2>3, HiddenStep
<1>4. ASSUME NEW w \in Workers, CommitClaim(w) PROVE Lifecycle!Next
  <2> DEFINE j == job[w]
  <2>1. j \in Jobs /\ status[j] = "queued" /\ attempts[j] < MaxAttempts
    BY <1>4 DEF CommitClaim, IInv, TypeOK, Pointers, Claims, AttemptBudget, Jobs
  <2>2. \A k \in Jobs : w \notin Runners(k)
    BY <1>4, IdleRunsNothing DEF CommitClaim, Busy
  <2>3. Runners(j) = {}
    BY <1>4, <2>1 DEF IInv, HeldIsRunning, Runners, Holds
  <2>4. \A k \in Jobs : Runners(k)' = Runners(k) \cup (IF j = k THEN {w} ELSE {})
    BY <1>4, <2>2, RunnersStep DEF CommitClaim, IInv, TypeOK, Busy
  <2>5. holders' = [holders EXCEPT ![j] = {w}]
    BY <2>1, <2>3, <2>4
  <2>6. Lifecycle!Take(j, w)
    BY <1>4, <2>1, <2>2, <2>3, <2>5
    DEF CommitClaim, Lifecycle!Take, Lifecycle!Jobs, Jobs
  <2> QED BY <2>1, <2>6 DEF Lifecycle!Next, Lifecycle!Jobs, Jobs
<1>5. ASSUME NEW w \in Workers, MarkDone(w) PROVE Lifecycle!Next
  BY <1>5, SettleStep DEF MarkDone, Busy
<1>6. ASSUME NEW w \in Workers, Requeue(w) PROVE Lifecycle!Next
  BY <1>6, SettleStep DEF Requeue, AttemptsLeft, Busy, IInv, HeldIsRunning
<1>7. ASSUME NEW w \in Workers, GiveUp(w) PROVE Lifecycle!Next
  <2>1. attempts[job[w]] = MaxAttempts
    BY <1>7, SoleRunner, MaxAttemptsAssumption
    DEF GiveUp, AttemptsLeft, Busy, IInv, HeldIsRunning, AttemptBudget
  <2> QED BY <1>7, <2>1, SettleStep DEF GiveUp, Busy
<1>8. ASSUME NEW w \in Workers, Crash(w)
      PROVE  Lifecycle!Next \/ UNCHANGED <<status, attempts, holders>>
  <2>1. /\ status' = status /\ attempts' = attempts /\ pc'[w] = "down"
        /\ \A v \in Workers \ {w} : pc'[v] = pc[v] /\ job'[v] = job[v]
    BY <1>8 DEF Crash, rows, IInv, TypeOK
  <2>2. CASE pc[w] \notin Busy
    BY <2>1, <2>2, HiddenStep DEF Busy
  <2>3. CASE pc[w] \in Busy
    <3>1. job[w] \in Jobs /\ Runners(job[w]) = {w}
      BY <2>3, SoleRunner
    <3>2. \A j \in Jobs : Runners(j)' = Runners(j) \ {w}
      BY <2>1, RunnersStep DEF Busy
    <3>3. \A j \in Jobs : j # job[w] => w \notin Runners(j)
      BY DEF Runners, Holds
    <3>4. holders' = [holders EXCEPT ![job[w]] = {}]
      <4>1. \A k \in Jobs : Runners(k)' = IF k = job[w] THEN {} ELSE Runners(k)
        BY <3>1, <3>2, <3>3
      <4> QED BY <4>1
    <3>5. Lifecycle!Strand(job[w], w)
      BY <2>1, <3>1, <3>4 DEF Lifecycle!Strand
    <3> QED BY <3>1, <3>5 DEF Lifecycle!Next, Lifecycle!Jobs, Jobs
  <2> QED BY <2>2, <2>3
<1>9. CASE UNCHANGED vars
  BY <1>9 DEF vars, Runners, Holds
<1> QED
  BY <1>1, <1>2, <1>3, <1>4, <1>5, <1>6, <1>7, <1>8, <1>9 DEF Next, Loop

\* The table, its row locks and its backoff implement the life of a job that
\* JobLifecycle promises: every step is one of its steps or invisible.
THEOREM QueueImplementsLifecycle == Spec => ImplementsLifecycle
<1>1. IInv /\ IInv' /\ [Next]_vars
        => [Lifecycle!Next]_<<status, attempts, [j \in Jobs |-> Runners(j)]>>
  BY NextLifecycle
<1> QED
  BY InitIInv, NextIInv, InitLifecycle, <1>1, PTL
  DEF Spec, ImplementsLifecycle, Lifecycle!Spec

-----------------------------------------------------------------------------
(* Orphans                                                                 *)

\* A step of worker w alone makes no orphan, if it only sets its own job running,
\* and lets go of a job only when that one is no longer running.
LEMMA NoNewOrphans ==
  ASSUME IInv, NEW w \in Workers,
         \A v \in Workers \ {w} : pc'[v] = pc[v] /\ job'[v] = job[v],
         \A j \in Jobs : status'[j] = "running" =>
           \/ status[j] = "running" /\ ~Holds(w, j)
           \/ Holds(w, j)'
  PROVE  Orphans' \subseteq Orphans
<1>1. SUFFICES ASSUME NEW j \in Jobs, status'[j] = "running", Runners(j)' = {}
               PROVE  status[j] = "running" /\ Runners(j) = {}
  BY DEF Orphans
<1>2. ~Holds(w, j)'
  BY <1>1 DEF Runners
<1>3. \A v \in Workers \ {w} : Holds(v, j)' <=> Holds(v, j)
  BY DEF Holds
<1> QED
  BY <1>1, <1>2, <1>3 DEF Runners

\* Only a crash makes an orphan, and no more than one.
LEMMA OrphanStep ==
  ASSUME IInv, [Next]_vars
  PROVE  \/ Orphans' \subseteq Orphans /\ crashes' = crashes
         \/ crashes' = crashes + 1 /\ \E k : Orphans' \subseteq Orphans \cup {k}
<1> USE DEF IInv, TypeOK
<1>1. CASE UNCHANGED vars
  BY <1>1 DEF vars, Orphans, Runners, Holds
<1>2. ASSUME NEW t \in Types, Enqueue(t) PROVE Orphans' \subseteq Orphans /\ crashes' = crashes
  BY <1>2 DEF Enqueue, Orphans, Runners, Holds
<1>3. CASE Tick
  BY <1>3 DEF Tick, Orphans, Runners, Holds
<1>4. ASSUME NEW w \in Workers, SelectForUpdate(w)
      PROVE  Orphans' \subseteq Orphans /\ crashes' = crashes
  BY <1>4, NoNewOrphans DEF SelectForUpdate, Holds, Busy, rows
<1>5. ASSUME NEW w \in Workers, CommitClaim(w)
      PROVE  Orphans' \subseteq Orphans /\ crashes' = crashes
  BY <1>5, NoNewOrphans DEF CommitClaim, Holds, Busy
<1>6. ASSUME NEW w \in Workers, HandlerEnds(w)
      PROVE  Orphans' \subseteq Orphans /\ crashes' = crashes
  BY <1>6, NoNewOrphans DEF HandlerEnds, Holds, Busy, rows
<1>7. ASSUME NEW w \in Workers, MarkDone(w) \/ Requeue(w) \/ GiveUp(w)
      PROVE  Orphans' \subseteq Orphans /\ crashes' = crashes
  <2>1. /\ \A v \in Workers \ {w} : pc'[v] = pc[v] /\ job'[v] = job[v]
        /\ crashes' = crashes
    BY <1>7 DEF MarkDone, Requeue, GiveUp, NextPoll
  <2>2. PICK s \in Status \ {"running"} : status' = [status EXCEPT ![job[w]] = s]
    BY <1>7 DEF MarkDone, Requeue, GiveUp, Status
  <2>3. \A j \in Jobs : status'[j] = "running" => status[j] = "running" /\ ~Holds(w, j)
    BY <2>2 DEF Holds
  <2> QED
    BY <2>1, <2>3, NoNewOrphans
<1>8. ASSUME NEW w \in Workers, Crash(w)
      PROVE  crashes' = crashes + 1 /\ Orphans' \subseteq Orphans \cup {job[w]}
  BY <1>8 DEF Crash, rows, Orphans, Runners, Holds
<1>9. ASSUME NEW w \in Workers, Restart(w) PROVE Orphans' \subseteq Orphans /\ crashes' = crashes
  BY <1>9, NoNewOrphans DEF Restart, Holds, Busy, rows
<1> QED
  BY <1>1, <1>2, <1>3, <1>4, <1>5, <1>6, <1>7, <1>8, <1>9 DEF Next, Loop

\* A job is only left running on no worker by a crash, one job for each: no claim,
\* mark or restart of any worker, in whatever order, strands another.
THEOREM OnlyCrashesStrand == Spec => []OrphansAreCrashes
<1>1. Init => OrphansAreCrashes
  <2> SUFFICES ASSUME Init PROVE OrphansAreCrashes
    OBVIOUS
  <2>1. Orphans = {}
    BY DEF Init, Orphans
  <2> QED
    BY <2>1, FS_EmptySet DEF Init, OrphansAreCrashes
<1>2. ASSUME IInv, OrphansAreCrashes, [Next]_vars PROVE OrphansAreCrashes'
  <2>1. crashes \in Nat
    BY <1>2, BoundsAssumption DEF IInv, TypeOK
  <2>2. IsFiniteSet(Jobs) /\ Orphans \in SUBSET Jobs
    BY BoundsAssumption, FS_Interval DEF Jobs, Orphans
  <2>3. IsFiniteSet(Orphans) /\ Cardinality(Orphans) \in Nat
    BY <2>2, FS_Subset, FS_CardinalityType
  <2>4. CASE Orphans' \subseteq Orphans /\ crashes' = crashes
    <3>1. Cardinality(Orphans') <= Cardinality(Orphans) /\ Cardinality(Orphans') \in Nat
      BY <2>3, <2>4, FS_Subset, FS_CardinalityType
    <3> QED
      BY <1>2, <2>1, <2>3, <2>4, <3>1 DEF OrphansAreCrashes
  <2>5. ASSUME crashes' = crashes + 1, NEW k, Orphans' \subseteq Orphans \cup {k}
        PROVE  OrphansAreCrashes'
    <3>1. /\ IsFiniteSet(Orphans \cup {k})
          /\ Cardinality(Orphans \cup {k}) \in {Cardinality(Orphans), Cardinality(Orphans) + 1}
      BY <2>3, FS_AddElement
    <3>2. /\ Cardinality(Orphans') <= Cardinality(Orphans \cup {k})
          /\ Cardinality(Orphans') \in Nat
      BY <2>5, <3>1, FS_Subset, FS_CardinalityType
    <3> QED
      BY <1>2, <2>1, <2>3, <2>5, <3>1, <3>2 DEF OrphansAreCrashes
  <2> QED
    BY <1>2, <2>4, <2>5, OrphanStep
<1> QED
  BY InitIInv, NextIInv, <1>1, <1>2, PTL DEF Spec
=============================================================================
