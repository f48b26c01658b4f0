---------------------------- MODULE JobLifecycle ----------------------------
(***************************************************************************)
(* What the job queue promises the code that enqueues: a submitted job is  *)
(* taken by one worker at a time, at most MaxAttempts times; only the      *)
(* worker that took it settles it or hands it back; a job that fails has   *)
(* used every attempt.  A worker may drop the job it took without a word   *)
(* (it crashed); nobody takes such a job again.                            *)
(***************************************************************************)
EXTENDS Integers

CONSTANTS Workers, MaxAttempts, MaxJobs

VARIABLES
  phase,   \* "absent", "queued", "running", "done" or "error"
  tries,   \* how often the job has been taken
  holder   \* the workers that have it: never more than one

Jobs == 1..MaxJobs

Init ==
  /\ phase = [j \in Jobs |-> "absent"]
  /\ tries = [j \in Jobs |-> 0]
  /\ holder = [j \in Jobs |-> {}]

Submit(j) ==
  /\ phase[j] = "absent"
  /\ phase' = [phase EXCEPT ![j] = "queued"]
  /\ UNCHANGED <<tries, holder>>

\* A worker that holds nothing takes a waiting job nobody holds.
Take(j, w) ==
  /\ phase[j] = "queued"
  /\ tries[j] < MaxAttempts
  /\ holder[j] = {}
  /\ \A k \in Jobs : w \notin holder[k]
  /\ phase' = [phase EXCEPT ![j] = "running"]
  /\ tries' = [tries EXCEPT ![j] = @ + 1]
  /\ holder' = [holder EXCEPT ![j] = {w}]

\* The worker that holds the job says how it ended.
Settle(j, w, outcome) ==
  /\ phase[j] = "running"
  /\ holder[j] = {w}
  /\ outcome = "queued" => tries[j] < MaxAttempts
  /\ outcome = "error" => tries[j] = MaxAttempts
  /\ phase' = [phase EXCEPT ![j] = outcome]
  /\ holder' = [holder EXCEPT ![j] = {}]
  /\ UNCHANGED tries

\* The holder is gone; the job stays taken.
Strand(j, w) ==
  /\ holder[j] = {w}
  /\ holder' = [holder EXCEPT ![j] = {}]
  /\ UNCHANGED <<phase, tries>>

Next ==
  \E j \in Jobs :
    \/ Submit(j)
    \/ \E w \in Workers :
         \/ Take(j, w)
         \/ \E outcome \in {"done", "queued", "error"} : Settle(j, w, outcome)
         \/ Strand(j, w)

Spec == Init /\ [][Next]_<<phase, tries, holder>>
=============================================================================
