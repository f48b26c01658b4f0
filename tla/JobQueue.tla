------------------------------ MODULE JobQueue ------------------------------
(***************************************************************************)
(* The Postgres-backed job queue (lore_backend/jobs/queue.py) and the      *)
(* worker processes that drain it (lore_backend/jobs/worker.py).           *)
(*                                                                         *)
(* A row of table jobs is a job; ids are handed out in order by the        *)
(* sequence behind bigserial.  Several workers poll the table.  A claim is *)
(* one transaction of two statements: `select ... for update skip locked`  *)
(* locks a row, the update that follows sets it running, and only the      *)
(* commit makes that visible.  A crash rolls the open transaction back     *)
(* and loses everything the process held in memory.                        *)
(*                                                                         *)
(* run_after is kept as the time left until the row is due, so the model   *)
(* needs no clock: Tick lets one second pass for every row.                *)
(***************************************************************************)
EXTENDS Integers, FiniteSets

CONSTANTS
  Workers,      \* worker processes
  Types,        \* values of jobs.type
  Handled,      \* the types with an entry in HANDLERS
  MaxAttempts,  \* settings.job_max_attempts
  MaxJobs,      \* bound: rows ever inserted
  MaxCrashes    \* bound: worker processes that die while they run

ASSUME TypesAssumption == Types # {} /\ Handled \subseteq Types
ASSUME MaxAttemptsAssumption == MaxAttempts \in Nat \ {0}
ASSUME BoundsAssumption == MaxJobs \in Nat /\ MaxCrashes \in Nat

VARIABLES
  lastId,    \* the jobs sequence: ids 1..lastId have been inserted
  type,      \* jobs.type
  status,    \* jobs.status; "absent" before the insert
  attempts,  \* jobs.attempts
  wait,      \* seconds until run_after <= now(), 0 when due
  pc,        \* where a worker's loop is
  job,       \* the id the worker claimed, 0 when it has none
  tried,     \* job["attempts"] in the dict claim_next returned
  crashes    \* how many crashes have happened (counts against MaxCrashes)

vars == <<lastId, type, status, attempts, wait, pc, job, tried, crashes>>
rows == <<lastId, type, status, attempts, wait>>

Jobs == 1..MaxJobs
Status == {"absent", "queued", "running", "done", "error"}
\* The job a worker is past claiming and has not yet marked.
Busy == {"handling", "returned", "raised"}
PC == {"poll", "claiming", "down"} \cup Busy

\* run_after = now() + interval '1 second' * 2^attempts
Backoff(n) == 2 ^ n

TypeOK ==
  /\ lastId \in 0..MaxJobs
  /\ type \in [Jobs -> Types]
  /\ status \in [Jobs -> Status]
  /\ attempts \in [Jobs -> 0..MaxAttempts]
  /\ wait \in [Jobs -> Int]
  /\ pc \in [Workers -> PC]
  /\ job \in [Workers -> Jobs \cup {0}]
  /\ tried \in [Workers -> 0..MaxAttempts]
  /\ crashes \in 0..MaxCrashes

Init ==
  /\ lastId = 0
  /\ type = [j \in Jobs |-> CHOOSE t \in Types : TRUE]  \* no row yet
  /\ status = [j \in Jobs |-> "absent"]
  /\ attempts = [j \in Jobs |-> 0]
  /\ wait = [j \in Jobs |-> 0]
  /\ pc = [w \in Workers |-> "poll"]
  /\ job = [w \in Workers |-> 0]
  /\ tried = [w \in Workers |-> 0]
  /\ crashes = 0

-----------------------------------------------------------------------------
(* The table                                                               *)

\* Rows some open claim transaction holds FOR UPDATE.
Locked == {job[w] : w \in {v \in Workers : pc[v] = "claiming"}}

\* Mutant of Claimable: run_after is forgotten.
ClaimableAtOnce ==
  {j \in Jobs : status[j] = "queued" /\ type[j] \in Handled /\ j \notin Locked}

\* Mutant of Claimable: strictly after run_after, which a clock of whole
\* seconds never shows.
ClaimableTooLate == {j \in ClaimableAtOnce : wait[j] < 0}

\* The rows claim_next's select may return.
Claimable ==
  {j \in Jobs : /\ status[j] = "queued"
                /\ wait[j] <= 0
                /\ type[j] \in Handled
                /\ j \notin Locked}

\* enqueue: called by the webhook, the mention handler and the sweep.
Enqueue(t) ==
  /\ lastId < MaxJobs
  /\ lastId' = lastId + 1
  /\ type' = [type EXCEPT ![lastId + 1] = t]
  /\ status' = [status EXCEPT ![lastId + 1] = "queued"]
  /\ UNCHANGED <<attempts, wait, pc, job, tried, crashes>>

\* A second passes.
Tick ==
  /\ \E j \in Jobs : wait[j] > 0
  /\ wait' = [j \in Jobs |-> IF wait[j] > 0 THEN wait[j] - 1 ELSE wait[j]]
  /\ UNCHANGED <<lastId, type, status, attempts, pc, job, tried, crashes>>

-----------------------------------------------------------------------------
(* A worker                                                                *)

\* The loop goes on to the next claim.
NextPoll(w) ==
  /\ pc' = [pc EXCEPT ![w] = "poll"]
  /\ job' = [job EXCEPT ![w] = 0]
  /\ tried' = [tried EXCEPT ![w] = 0]

\* claim_next, first statement: lock the oldest due row nobody has locked.
SelectForUpdate(w) ==
  /\ pc[w] = "poll"
  /\ \E j \in Claimable :
       /\ \A k \in Claimable : j <= k
       /\ job' = [job EXCEPT ![w] = j]
       /\ tried' = [tried EXCEPT ![w] = attempts[j] + 1]
  /\ pc' = [pc EXCEPT ![w] = "claiming"]
  /\ UNCHANGED <<rows, crashes>>

\* claim_next, update and commit.
CommitClaim(w) ==
  /\ pc[w] = "claiming"
  /\ status' = [status EXCEPT ![job[w]] = "running"]
  /\ attempts' = [attempts EXCEPT ![job[w]] = @ + 1]
  /\ pc' = [pc EXCEPT ![w] = "handling"]
  /\ UNCHANGED <<lastId, type, wait, job, tried, crashes>>

\* The handler returns or raises; _run_job has not written the row yet.
HandlerEnds(w) ==
  /\ pc[w] = "handling"
  /\ \E outcome \in {"returned", "raised"} : pc' = [pc EXCEPT ![w] = outcome]
  /\ UNCHANGED <<rows, job, tried, crashes>>

\* mark_done: unconditional, by id.
MarkDone(w) ==
  /\ pc[w] = "returned"
  /\ status' = [status EXCEPT ![job[w]] = "done"]
  /\ NextPoll(w)
  /\ UNCHANGED <<lastId, type, attempts, wait, crashes>>

\* `attempts < max_attempts` in mark_error.
AttemptsLeft(n) == n < MaxAttempts

\* Mutant of Requeue: an exception of mark_error is swallowed.
RequeueSwallowed(w) ==
  /\ pc[w] = "raised"
  /\ AttemptsLeft(tried[w])
  /\ NextPoll(w)
  /\ UNCHANGED <<rows, crashes>>

\* mark_error with attempts left: back to the queue, due after the backoff.
Requeue(w) ==
  /\ pc[w] = "raised"
  /\ AttemptsLeft(tried[w])
  /\ status' = [status EXCEPT ![job[w]] = "queued"]
  /\ wait' = [wait EXCEPT ![job[w]] = Backoff(tried[w])]
  /\ NextPoll(w)
  /\ UNCHANGED <<lastId, type, attempts, crashes>>

\* mark_error with none left: the job fails for good.
GiveUp(w) ==
  /\ pc[w] = "raised"
  /\ ~AttemptsLeft(tried[w])
  /\ status' = [status EXCEPT ![job[w]] = "error"]
  /\ NextPoll(w)
  /\ UNCHANGED <<lastId, type, attempts, wait, crashes>>

\* The process dies anywhere in its loop: killed, or an exception out of
\* claim_next, mark_done or mark_error, which run_forever does not catch.
\* An open claim rolls back; a committed one stays in the table.
Crash(w) ==
  /\ pc[w] # "down"
  /\ crashes < MaxCrashes
  /\ crashes' = crashes + 1
  /\ pc' = [pc EXCEPT ![w] = "down"]
  /\ job' = [job EXCEPT ![w] = 0]
  /\ tried' = [tried EXCEPT ![w] = 0]
  /\ UNCHANGED rows

\* Mutant of Restart: a worker that boots takes every running row for lost.
RestartRequeues(w) ==
  /\ pc[w] = "down"
  /\ pc' = [pc EXCEPT ![w] = "poll"]
  /\ status' = [j \in Jobs |-> IF status[j] = "running" THEN "queued" ELSE status[j]]
  /\ UNCHANGED <<lastId, type, attempts, wait, job, tried, crashes>>

\* run_forever starts again; nothing in it looks at rows left running.
Restart(w) ==
  /\ pc[w] = "down"
  /\ pc' = [pc EXCEPT ![w] = "poll"]
  /\ UNCHANGED <<rows, job, tried, crashes>>

\* What a live worker process does by itself.
Loop(w) ==
  \/ SelectForUpdate(w)
  \/ CommitClaim(w)
  \/ HandlerEnds(w)
  \/ MarkDone(w)
  \/ Requeue(w)
  \/ GiveUp(w)

Next ==
  \/ \E t \in Types : Enqueue(t)
  \/ Tick
  \/ \E w \in Workers : Loop(w) \/ Crash(w) \/ Restart(w)

Spec == Init /\ [][Next]_vars

\* The worker is a while loop whose handlers end (every HTTP call in them has
\* a timeout), its supervisor restarts it, and time passes.  Nothing obliges
\* anybody to enqueue, or a handler to succeed.
Fairness ==
  /\ WF_vars(Tick)
  /\ \A w \in Workers : WF_vars(Loop(w)) /\ WF_vars(Restart(w))

FairSpec == Spec /\ Fairness

-----------------------------------------------------------------------------
(* Properties                                                              *)

Holds(w, j) == pc[w] \in Busy /\ job[w] = j
Runners(j) == {w \in Workers : Holds(w, j)}
\* Running in the table, on no live worker.
Orphans == {j \in Jobs : status[j] = "running" /\ Runners(j) = {}}

\* "multiple worker processes can poll the same table without claiming the
\* same row twice" (claim_next): neither the locks nor the committed claims
\* of two workers ever meet on one row, although the lock of one is taken
\* before its update and released by the commit.
OneRunner ==
  \A v, w \in Workers :
    v # w /\ job[v] # 0 /\ job[w] # 0 => job[v] # job[w]

\* What a worker is working on is running in the table, and the attempt
\* number it will hand to mark_error is the row's: no write of another worker
\* came in between.
HeldIsRunning ==
  \A w \in Workers :
    pc[w] \in Busy => /\ status[job[w]] = "running"
                      /\ attempts[job[w]] = tried[w]

\* A job that still waits has an attempt left, one that failed for good had
\* all of its attempts, and none ever has more (mark_error).
AttemptBudget ==
  \A j \in Jobs :
    /\ status[j] = "queued" => attempts[j] < MaxAttempts
    /\ status[j] = "error" => attempts[j] = MaxAttempts
    /\ status[j] = "running" => attempts[j] \in 1..MaxAttempts

\* Each crash strands at most the one job its worker had claimed; rows that
\* no worker runs and that are still running come from crashes alone.
OrphansAreCrashes == Cardinality(Orphans) <= crashes

\* A settled job stays settled: a mark by id, a claim or a retry that comes
\* late never turns done or error into something else.
SettledForGood ==
  [][\A j \in Jobs : status[j] \in {"done", "error"} => status'[j] = status[j]]_vars

\* A retry is only claimed after its whole backoff: while a failed job still
\* has to wait, whatever else happens, it stays queued and untouched.
BackoffHonoured ==
  [][\A j \in Jobs :
       wait[j] > 0 => /\ status'[j] = "queued"
                      /\ attempts'[j] = attempts[j]
                      /\ \A w \in Workers : job'[w] # j]_vars

\* Every job somebody can handle settles in the end, however often its
\* handler raises, unless the worker running it crashed.
EverySettles ==
  \A j \in Jobs :
    (status[j] # "absent" /\ type[j] \in Handled)
      ~> (status[j] \in {"done", "error"} \/ j \in Orphans)

\* The life of a job as its enqueuer sees it (JobLifecycle): claims, locks,
\* backoff and types are hidden.
Lifecycle == INSTANCE JobLifecycle WITH
  phase <- status, tries <- attempts, holder <- [j \in Jobs |-> Runners(j)]
ImplementsLifecycle == Lifecycle!Spec
=============================================================================
