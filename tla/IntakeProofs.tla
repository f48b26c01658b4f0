---------------------------- MODULE IntakeProofs ----------------------------
(* Theorems about Intake, for any processes, events and bounds.            *)
EXTENDS Intake, TLAPS

USE AttemptsAssumption, BoundsAssumption

-----------------------------------------------------------------------------
(* The inductive invariant                                                 *)

\* What a server that handles an event knows: it is recorded, had no effect
\* yet, and no comment about it was heard of.
Handles(s) ==
  /\ pc[s] \in {"reading", "acting", "posting"}
  /\ on[s] \in ledger
  /\ effects[on[s]] = 0
  /\ pc[s] = "posting" <=> kind[on[s]] = "opened" /\ pc[s] # "reading"
  /\ posts[on[s]] = unheard[on[s]]

Handling == \A s \in Servers : pc[s] = "idle" \/ Handles(s)

\* No two servers handle one event: this is what the ledger is for.
Apart ==
  \A s, t \in Servers :
    pc[s] # "idle" /\ pc[t] # "idle" /\ on[s] = on[t] => s = t

\* What the properties say of one event; and one that is not recorded, or had
\* no effect though it is no opened pull request, has no comment that was heard
\* of.
EventFine(e) ==
  /\ effects[e] <= 1
  /\ posts[e] <= unheard[e] + 1
  /\ e \in ledger =>
       \/ kind[e] \in {"opened", "unsuspended"} \/ effects[e] = 1 \/ e \in failed
       \/ \E s \in Servers : pc[s] # "idle" /\ on[s] = e
  /\ e \notin ledger => effects[e] = 0 /\ posts[e] = unheard[e]
  /\ effects[e] = 0 /\ kind[e] # "opened" => posts[e] = unheard[e]

EventsFine == \A e \in Events : EventFine(e)

\* Jobs are about different events, each of them handled.
Queued(j) == about[j] \in ledger /\ effects[about[j]] = 1 /\ kind[about[j]] # "opened"

JobsApart ==
  /\ \A j \in 1..lastJob : Queued(j)
  /\ \A i, j \in 1..lastJob : about[i] = about[j] => i = j

\* What a worker with a job knows: it alone holds it, and whether a comment
\* was accepted.
Works(w) ==
  /\ pc[w] \in {"reading", "posting", "posted", "rejected"}
  /\ job[w] \in 1..lastJob
  /\ on[w] = about[job[w]]
  /\ kind[on[w]] = "mention"
  /\ phase[job[w]] = "running"
  /\ holder[job[w]] = {w}
  /\ pc[w] = "posted" => posts[on[w]] = unheard[on[w]] + 1
  /\ pc[w] # "posted" => posts[on[w]] = unheard[on[w]]

Working == \A w \in Workers : pc[w] = "idle" \/ Works(w)

\* The status of a question's job tells what its thread holds; while it waits
\* for another attempt, nothing but unheard comments.
JobTold(j) ==
  kind[about[j]] = "mention" =>
    /\ phase[j] = "queued" => posts[about[j]] = unheard[about[j]]
    /\ phase[j] = "done" => posts[about[j]] = unheard[about[j]] + 1
    /\ phase[j] = "error" => posts[about[j]] = unheard[about[j]]

JobsTold == \A j \in 1..lastJob : JobTold(j)

Safe ==
  /\ Handling
  /\ Apart
  /\ EventsFine
  /\ JobsApart
  /\ Working
  /\ JobsTold

IInv == TypeOK /\ Safe

LEMMA Different ==
  /\ \A s \in Servers, w \in Workers : s # w
  /\ \A s \in Servers : s \in Processes
  /\ \A w \in Workers : w \in Processes
BY ProcessAssumption DEF Processes

-----------------------------------------------------------------------------
(* A step elsewhere changes nothing here                                   *)

\* A step of process p, on event e alone.
Frame(p, e) ==
  /\ \A q \in Processes : q # p => pc'[q] = pc[q] /\ on'[q] = on[q]
  /\ kind' = kind
  /\ ledger \subseteq ledger' /\ ledger' \subseteq ledger \cup {e}
  /\ failed \subseteq failed'
  /\ \A d \in Events : d # e => /\ effects'[d] = effects[d]
                                 /\ posts'[d] = posts[d]
                                 /\ unheard'[d] = unheard[d]

\* ... of a server, which leaves the jobs there are alone,
ServerFrame(s, e) ==
  /\ Frame(s, e)
  /\ job' = job
  /\ 1..lastJob \subseteq 1..lastJob'
  /\ \A j \in 1..lastJob : about'[j] = about[j] /\ phase'[j] = phase[j]
                             /\ holder'[j] = holder[j]

\* ... or of a worker, on job k.
WorkerFrame(w, e, k) ==
  /\ Frame(w, e)
  /\ effects' = effects /\ ledger' = ledger
  /\ about' = about /\ lastJob' = lastJob
  /\ \A v \in Workers : v # w => job'[v] = job[v]
  /\ \A j \in 1..lastJob : j # k => phase'[j] = phase[j] /\ holder'[j] = holder[j]

\* The event is nobody else's.
OnlyServers(s, e) ==
  /\ \A t \in Servers : t # s /\ pc[t] # "idle" => on[t] # e
  /\ \A j \in 1..lastJob : about[j] # e

LEMMA ServerElsewhere ==
  ASSUME IInv, NEW s \in Servers, NEW e \in Events, ServerFrame(s, e), OnlyServers(s, e),
         pc[s] = "idle" \/ on[s] = e, on'[s] = e
  PROVE  /\ \A t \in Servers : t # s => pc'[t] = "idle" \/ Handles(t)'
         /\ Apart'
         /\ Working'
         /\ \A d \in Events : d # e => EventFine(d)'
         /\ \A j \in 1..lastJob : Queued(j)'
         /\ \A j \in 1..lastJob : JobTold(j)'
<1> USE DEF IInv, Safe, ServerFrame, Frame, OnlyServers
<1>1. ASSUME NEW t \in Servers, t # s, pc[t] # "idle" PROVE Handles(t)'
  <2>1. on[t] \in Events /\ on[t] # e /\ pc'[t] = pc[t] /\ on'[t] = on[t]
    BY <1>1, Different DEF TypeOK
  <2> QED BY <1>1, <2>1 DEF Handling, Handles
<1>2. ASSUME NEW t \in Servers, t # s, pc[t] = "idle" PROVE pc'[t] = "idle"
  BY <1>2, Different
<1>3. ASSUME NEW w \in Workers PROVE pc'[w] = "idle" \/ Works(w)'
  <2>1. pc'[w] = pc[w] /\ on'[w] = on[w] /\ on[w] \in Events
    BY Different DEF TypeOK
  <2>2. CASE pc[w] # "idle"
    <3>1. Works(w) /\ on[w] # e
      BY <2>2 DEF Working, Works
    <3> QED BY <2>1, <3>1 DEF Works
  <2> QED BY <2>1, <2>2
<1>4. ASSUME NEW j \in 1..lastJob PROVE JobTold(j)' /\ Queued(j)'
  <2>0. j \in 1..MaxJobs /\ about \in [1..MaxJobs -> Events]
    BY DEF TypeOK
  <2>1. about[j] \in Events /\ about[j] # e
    BY <2>0
  <2>2. JobTold(j)'
    BY <2>1 DEF JobsTold, JobTold
  <2>3. Queued(j)'
    BY <2>1 DEF JobsApart, Queued
  <2> QED BY <2>2, <2>3
<1>5. ASSUME NEW d \in Events, d # e PROVE EventFine(d)'
  BY <1>5, Different DEF EventsFine, EventFine
<1>6. Apart'
  BY Different DEF Apart
<1> QED BY <1>1, <1>2, <1>3, <1>4, <1>5, <1>6 DEF Working

LEMMA WorkerElsewhere ==
  ASSUME IInv, NEW w \in Workers, NEW k \in 1..lastJob, WorkerFrame(w, about[k], k),
         \A v \in Workers : v # w /\ pc[v] # "idle" => job[v] # k
  PROVE  /\ Handling'
         /\ Apart'
         /\ JobsApart'
         /\ \A d \in Events : d # about[k] => EventFine(d)'
         /\ \A v \in Workers : v # w => pc'[v] = "idle" \/ Works(v)'
         /\ \A j \in 1..lastJob : j # k => JobTold(j)'
<1> USE DEF IInv, Safe, WorkerFrame, Frame
<1>1. ASSUME NEW t \in Servers PROVE pc'[t] = "idle" \/ Handles(t)'
  <2>1. on[t] \in Events /\ pc'[t] = pc[t] /\ on'[t] = on[t]
    BY Different DEF TypeOK
  <2>2. CASE pc[t] # "idle"
    <3>1. Handles(t) /\ on[t] # about[k]
      BY <2>2 DEF Handling, Handles, JobsApart, Queued
    <3> QED BY <2>1, <3>1 DEF Handles
  <2> QED BY <2>1, <2>2
<1>2. ASSUME NEW v \in Workers, v # w PROVE pc'[v] = "idle" \/ Works(v)'
  <2>1. pc'[v] = pc[v] /\ on'[v] = on[v] /\ on[v] \in Events /\ job'[v] = job[v]
    BY <1>2, Different DEF TypeOK
  <2>2. CASE pc[v] # "idle"
    <3>1. Works(v) /\ job[v] # k
      BY <1>2, <2>2 DEF Working
    <3>2. on[v] # about[k]
      BY <3>1 DEF Works, JobsApart
    <3> QED BY <2>1, <3>1, <3>2 DEF Works
  <2> QED BY <2>1, <2>2
<1>3. ASSUME NEW j \in 1..lastJob, j # k PROVE JobTold(j)'
  <2>1. about[j] \in Events /\ about[j] # about[k]
    BY <1>3 DEF TypeOK, JobsApart
  <2> QED BY <1>3, <2>1 DEF JobsTold, JobTold
<1>4. ASSUME NEW d \in Events, d # about[k] PROVE EventFine(d)'
  BY <1>4, Different DEF EventsFine, EventFine
<1>5. Apart' /\ JobsApart'
  BY Different DEF Apart, JobsApart, Queued
<1> QED BY <1>1, <1>2, <1>3, <1>4, <1>5 DEF Handling

LEMMA ServerSafe ==
  ASSUME IInv, NEW s \in Servers, NEW e \in Events, ServerFrame(s, e), OnlyServers(s, e),
         pc[s] = "idle" \/ on[s] = e, on'[s] = e, lastJob' = lastJob,
         pc'[s] = "idle" \/ Handles(s)', EventFine(e)'
  PROVE  Safe'
<1>1. Handling'
  BY ServerElsewhere DEF Handling
<1>2. EventsFine'
  BY ServerElsewhere DEF EventsFine
<1>3. JobsApart'
  <2>1. \A i \in 1..lastJob : about'[i] = about[i]
    BY DEF ServerFrame
  <2> QED BY <2>1, ServerElsewhere DEF JobsApart, IInv, Safe
<1>4. JobsTold'
  BY ServerElsewhere DEF JobsTold
<1> QED BY <1>1, <1>2, <1>3, <1>4, ServerElsewhere DEF Safe

LEMMA WorkerSafe ==
  ASSUME IInv, NEW w \in Workers, NEW k \in 1..lastJob, NEW e \in Events, about[k] = e,
         WorkerFrame(w, about[k], k),
         \A v \in Workers : v # w /\ pc[v] # "idle" => job[v] # k,
         pc'[w] = "idle" \/ Works(w)', EventFine(e)', JobTold(k)'
  PROVE  Safe'
<1>1. Working'
  BY WorkerElsewhere DEF Working
<1>2. EventsFine'
  BY WorkerElsewhere DEF EventsFine
<1>3. JobsTold'
  BY WorkerElsewhere DEF JobsTold, WorkerFrame
<1> QED BY <1>1, <1>2, <1>3, WorkerElsewhere DEF Safe

\* A server's event is its own, ...
LEMMA ServersOwn ==
  ASSUME IInv, NEW s \in Servers, pc[s] # "idle"
  PROVE  /\ Handles(s) /\ on[s] \in Events /\ OnlyServers(s, on[s]) /\ EventFine(on[s])
<1> USE DEF IInv, Safe
<1>1. Handles(s) /\ on[s] \in Events /\ EventFine(on[s])
  BY Different DEF Handling, EventsFine, TypeOK
<1>2. OnlyServers(s, on[s])
  BY <1>1 DEF OnlyServers, Apart, JobsApart, Queued, Handles
<1> QED BY <1>1, <1>2

\* ... and a worker's job is.
LEMMA WorkersOwn ==
  ASSUME IInv, NEW w \in Workers, pc[w] # "idle"
  PROVE  /\ Works(w) /\ job[w] \in 1..lastJob /\ job[w] \in 1..MaxJobs
         /\ on[w] = about[job[w]] /\ on[w] \in Events /\ EventFine(on[w])
         /\ Queued(job[w])
         /\ \A v \in Workers : v # w /\ pc[v] # "idle" => job[v] # job[w]
<1> USE DEF IInv, Safe
<1>1. Works(w) /\ job[w] \in 1..lastJob /\ on[w] = about[job[w]]
  BY DEF Working, Works
<1>2. on[w] \in Events /\ EventFine(on[w]) /\ job[w] \in 1..MaxJobs /\ Queued(job[w])
  BY <1>1, Different DEF EventsFine, TypeOK, JobsApart
<1>3. ASSUME NEW v \in Workers, v # w, pc[v] # "idle" PROVE job[v] # job[w]
  BY <1>1, <1>3 DEF Working, Works
<1> QED BY <1>1, <1>2, <1>3

\* What Safe is about.
view == <<kind, ledger, pc, on, effects, posts, unheard, failed, lastJob, about, job,
          phase, holder>>

LEMMA ViewKept == Safe /\ UNCHANGED view => Safe'
BY DEF Safe, view, Handling, Handles, Apart, EventsFine, EventFine, JobsApart, Queued,
       Working, Works, JobsTold, JobTold

-----------------------------------------------------------------------------
(* Every step keeps Safe                                                   *)

LEMMA ReceiveStep ==
  ASSUME IInv, NEW s \in Servers, NEW e \in Events, Receive(s, e)
  PROVE  Safe'
<1> USE DEF Receive, Recorded, atGitHub, jobs, queue
<1>1. CASE e \in ledger
  <2>1. UNCHANGED view
    BY <1>1 DEF view
  <2> QED BY <2>1, ViewKept DEF IInv
<1>2. CASE e \notin ledger
  <2>1. /\ pc' = [pc EXCEPT ![s] = "reading"] /\ on' = [on EXCEPT ![s] = e]
        /\ ledger' = ledger \cup {e} /\ pc[s] = "idle"
        /\ UNCHANGED <<kind, effects, posts, unheard, failed, lastJob, about, job, phase, holder>>
    BY <1>2
  <2> HIDE DEF Receive, Recorded
  <2>2. ServerFrame(s, e) /\ on'[s] = e /\ pc'[s] = "reading"
    BY <2>1, Different DEF ServerFrame, Frame, IInv, TypeOK
  <2>3. OnlyServers(s, e)
    BY <1>2 DEF OnlyServers, IInv, Safe, Handling, Handles, JobsApart, Queued
  <2>4. EventFine(e)
    BY DEF IInv, Safe, EventsFine
  <2>5. Handles(s)'
    BY <1>2, <2>1, <2>2, <2>4 DEF Handles, EventFine
  <2>6. EventFine(e)'
    BY <1>2, <2>1, <2>2, <2>4 DEF EventFine
  <2> QED BY <2>1, <2>2, <2>3, <2>5, <2>6, ServerSafe
<1> QED BY <1>1, <1>2

LEMMA ReadStep ==
  ASSUME IInv, NEW s \in Servers, NEW token \in BOOLEAN, Read(s, token)
  PROVE  Safe'
<1>1. /\ pc[s] = "reading"
      /\ UNCHANGED <<kind, ledger, on, effects, posts, unheard, failed, lastJob, about, job,
                     phase, holder>>
      /\ \/ kind[on[s]] \in {"opened", "unsuspended"} /\ pc' = [pc EXCEPT ![s] = "idle"]
         \/ kind[on[s]] = "opened" /\ pc' = [pc EXCEPT ![s] = "posting"]
         \/ kind[on[s]] # "opened" /\ pc' = [pc EXCEPT ![s] = "acting"]
  BY DEF Read, NeedsToken, atGitHub, jobs, queue
<1>2. Handles(s) /\ on[s] \in Events /\ OnlyServers(s, on[s]) /\ EventFine(on[s])
  BY <1>1, ServersOwn
<1>3. ServerFrame(s, on[s]) /\ on'[s] = on[s]
  BY <1>1, Different DEF ServerFrame, Frame, IInv, TypeOK
<1>4. \/ kind[on[s]] \in {"opened", "unsuspended"} /\ pc'[s] = "idle"
      \/ kind[on[s]] = "opened" /\ pc'[s] = "posting"
      \/ kind[on[s]] # "opened" /\ pc'[s] = "acting"
  BY <1>1, Different DEF IInv, TypeOK
<1>5. pc'[s] = "idle" \/ Handles(s)'
  BY <1>1, <1>2, <1>4 DEF Handles
<1>6. EventFine(on[s])'
  BY <1>1, <1>2, <1>4 DEF EventFine
<1> QED BY <1>1, <1>2, <1>3, <1>5, <1>6, ServerSafe

LEMMA InscribeStep ==
  ASSUME IInv, NEW s \in Servers, Inscribe(s)
  PROVE  Safe'
<1>1. /\ pc[s] = "acting" /\ kind[on[s]] = "merged"
      /\ effects' = [effects EXCEPT ![on[s]] = @ + 1]
      /\ pc' = [pc EXCEPT ![s] = "idle"]
      /\ UNCHANGED <<kind, ledger, on, posts, unheard, failed, lastJob, about, job, phase, holder>>
  BY DEF Inscribe, atGitHub, jobs, queue
<1>2. Handles(s) /\ on[s] \in Events /\ OnlyServers(s, on[s]) /\ EventFine(on[s])
  BY <1>1, ServersOwn
<1>3. ServerFrame(s, on[s]) /\ on'[s] = on[s] /\ pc'[s] = "idle" /\ effects'[on[s]] = 1
  BY <1>1, <1>2, Different DEF ServerFrame, Frame, IInv, TypeOK, Handles
<1>4. EventFine(on[s])'
  BY <1>1, <1>2, <1>3 DEF EventFine, Handles
<1> QED BY <1>1, <1>2, <1>3, <1>4, ServerSafe

LEMMA HandlerRaisesStep ==
  ASSUME IInv, NEW s \in Servers, HandlerRaises(s)
  PROVE  Safe'
<1>1. /\ pc[s] # "idle" /\ failed' = failed \cup {on[s]}
      /\ pc' = [pc EXCEPT ![s] = "idle"]
      /\ UNCHANGED <<kind, ledger, on, effects, posts, unheard, lastJob, about, job, phase, holder>>
  BY DEF HandlerRaises, atGitHub, jobs, queue
<1>2. Handles(s) /\ on[s] \in Events /\ OnlyServers(s, on[s]) /\ EventFine(on[s])
  BY <1>1, ServersOwn
<1>3. ServerFrame(s, on[s]) /\ on'[s] = on[s] /\ pc'[s] = "idle"
  BY <1>1, Different DEF ServerFrame, Frame, IInv, TypeOK
<1>4. EventFine(on[s])'
  BY <1>1, <1>2, <1>3 DEF EventFine
<1> QED BY <1>1, <1>2, <1>3, <1>4, ServerSafe

\* The new job is about an event that had none.
LEMMA EnqueueJobStep ==
  ASSUME IInv, NEW s \in Servers, EnqueueJob(s)
  PROVE  Safe'
<1>1. /\ pc[s] = "acting" /\ kind[on[s]] \in {"mention", "installation", "unsuspended"}
      /\ lastJob < MaxJobs /\ lastJob' = lastJob + 1
      /\ about' = [about EXCEPT ![lastJob + 1] = on[s]]
      /\ phase' = [phase EXCEPT ![lastJob + 1] = "queued"]
      /\ effects' = [effects EXCEPT ![on[s]] = @ + 1]
      /\ pc' = [pc EXCEPT ![s] = "idle"]
      /\ UNCHANGED <<kind, ledger, on, posts, unheard, failed, job, holder>>
  BY DEF EnqueueJob, Queue!Submit, atGitHub
<1>2. Handles(s) /\ on[s] \in Events /\ OnlyServers(s, on[s]) /\ EventFine(on[s])
  BY <1>1, ServersOwn
<1>3. lastJob \in Nat /\ lastJob + 1 \in 1..MaxJobs /\ lastJob' \in Nat
  BY <1>1 DEF IInv, TypeOK
<1>4. Frame(s, on[s]) /\ on'[s] = on[s] /\ pc'[s] = "idle" /\ effects'[on[s]] = 1
  BY <1>1, <1>2, Different DEF Frame, IInv, TypeOK, Handles
<1>5. ServerFrame(s, on[s])
  <2>1. 1..lastJob \subseteq 1..lastJob'
    BY <1>1, <1>3
  <2>2. ASSUME NEW j \in 1..lastJob PROVE j \in 1..MaxJobs /\ j # lastJob + 1
    BY <1>3
  <2>3. \A j \in 1..lastJob : about'[j] = about[j] /\ phase'[j] = phase[j]
    BY <1>1, <2>2 DEF IInv, TypeOK
  <2> QED BY <1>1, <1>4, <2>1, <2>3 DEF ServerFrame
<1>6. about'[lastJob'] = on[s] /\ phase'[lastJob'] = "queued"
  BY <1>1, <1>3 DEF IInv, TypeOK
<1>7. Handling'
  BY <1>2, <1>4, <1>5, ServerElsewhere DEF Handling
<1>8. EventFine(on[s])'
  BY <1>1, <1>2, <1>4 DEF EventFine, Handles
<1>9. EventsFine'
  BY <1>2, <1>4, <1>5, <1>8, ServerElsewhere DEF EventsFine
<1>10. JobsApart'
  <2>1. Queued(lastJob)'
    BY <1>1, <1>2, <1>4, <1>6 DEF Queued, Handles
  <2>2. \A j \in 1..lastJob : Queued(j)'
    BY <1>2, <1>4, <1>5, ServerElsewhere
  <2>3. \A j \in 1..lastJob' : j \in 1..lastJob \/ j = lastJob'
    BY <1>1, <1>3
  <2>4. \A j \in 1..lastJob : about'[j] = about[j] /\ about[j] # on[s]
    BY <1>2, <1>5 DEF ServerFrame, OnlyServers
  <2>5. \A i, j \in 1..lastJob' : about'[i] = about'[j] => i = j
    BY <1>6, <2>3, <2>4 DEF IInv, Safe, JobsApart
  <2> QED BY <2>1, <2>2, <2>3, <2>5 DEF JobsApart
<1>11. JobsTold'
  <2>1. JobTold(lastJob)'
    BY <1>1, <1>2, <1>6 DEF JobTold, Handles
  <2>2. \A j \in 1..lastJob : JobTold(j)'
    BY <1>2, <1>4, <1>5, ServerElsewhere
  <2>3. \A j \in 1..lastJob' : j \in 1..lastJob \/ j = lastJob'
    BY <1>1, <1>3
  <2> QED BY <2>1, <2>2, <2>3 DEF JobsTold
<1>12. Apart' /\ Working'
  BY <1>2, <1>4, <1>5, ServerElsewhere
<1> QED BY <1>7, <1>9, <1>10, <1>11, <1>12 DEF Safe

\* An attempt adds a comment without an answer, a comment with one, or none;
\* only one with an answer is accepted, and it ends the loop.
LEMMA AttemptEnds ==
  ASSUME TypeOK, NEW p \in Processes, NEW o \in Outcome, PostAttempt(p, o), NEW e \in Events,
         e = on[p]
  PROVE  /\ Frame(p, e)
         /\ on' = on
         /\ \/ posts'[e] - unheard'[e] = posts[e] - unheard[e]
               /\ pc'[p] = pc[p]
            \/ posts'[e] - unheard'[e] = posts[e] - unheard[e]
               /\ ~Accepted(o.answer) /\ pc'[p] = AfterPost(p, o.answer)
            \/ posts'[e] - unheard'[e] = posts[e] - unheard[e] + 1
               /\ Accepted(o.answer) /\ pc'[p] = AfterPost(p, o.answer)
         /\ posts'[e] \in Nat /\ unheard'[e] \in Nat
<1> USE DEF TypeOK, Outcome
<1>1. Possible(o) /\ pc[p] = "posting"
  BY DEF PostAttempt
<1>2. UNCHANGED <<kind, ledger, on, effects, failed>>
  BY DEF PostAttempt
<1>3. posts' = IF o.stored THEN [posts EXCEPT ![e] = @ + 1] ELSE posts
  BY DEF PostAttempt
<1>4. unheard' = IF o.stored /\ o.answer = "lost" THEN [unheard EXCEPT ![e] = @ + 1] ELSE unheard
  BY DEF PostAttempt
<1>5. \/ pc' = pc /\ o.answer = "lost"
      \/ pc' = [pc EXCEPT ![p] = AfterPost(p, o.answer)]
  BY DEF PostAttempt
<1>6. \A d \in Events : d # e => posts'[d] = posts[d] /\ unheard'[d] = unheard[d]
  BY <1>3, <1>4
<1>7. /\ posts'[e] = IF o.stored THEN posts[e] + 1 ELSE posts[e]
      /\ unheard'[e] = IF o.stored /\ o.answer = "lost" THEN unheard[e] + 1 ELSE unheard[e]
  BY <1>3, <1>4
<1>8. posts[e] \in Nat /\ unheard[e] \in Nat
  OBVIOUS
<1>9. \A q \in Processes : q # p => pc'[q] = pc[q]
  BY <1>5
<1>10. \/ pc'[p] = pc[p] /\ o.answer = "lost"
       \/ pc'[p] = AfterPost(p, o.answer)
  BY <1>5
<1>11. Frame(p, e)
  BY <1>2, <1>6, <1>9 DEF Frame
<1>12. posts'[e] \in Nat /\ unheard'[e] \in Nat
  BY <1>7, <1>8
<1>13. CASE o.answer = "created"
  <2>1. posts'[e] = posts[e] + 1 /\ unheard'[e] = unheard[e]
    BY <1>1, <1>7, <1>13 DEF Possible
  <2>2. posts'[e] - unheard'[e] = posts[e] - unheard[e] + 1
    BY <1>8, <2>1
  <2> QED BY <1>2, <1>10, <1>11, <1>12, <1>13, <2>2 DEF Accepted
<1>14. CASE o.answer # "created"
  <2>1. posts'[e] - unheard'[e] = posts[e] - unheard[e]
    <3>1. CASE o.answer = "refused"
      BY <1>1, <1>7, <1>8, <3>1 DEF Possible
    <3>2. CASE o.answer = "lost"
      BY <1>7, <1>8, <3>2
    <3> QED BY <1>14, <3>1, <3>2
  <2> QED BY <1>2, <1>10, <1>11, <1>12, <1>14, <2>1 DEF Accepted
<1> QED BY <1>13, <1>14

LEMMA ServerPostStep ==
  ASSUME IInv, NEW s \in Servers, NEW o \in Outcome, PostAttempt(s, o)
  PROVE  Safe'
<1>1. /\ pc[s] = "posting"
      /\ UNCHANGED <<kind, ledger, effects, failed, lastJob, about, job, phase, holder>>
  BY DEF PostAttempt, jobs, queue
<1>2. Handles(s) /\ on[s] \in Events /\ OnlyServers(s, on[s]) /\ EventFine(on[s])
  BY <1>1, ServersOwn
<1> DEFINE e == on[s]
<1>3. /\ Frame(s, e) /\ on' = on /\ posts'[e] \in Nat /\ unheard'[e] \in Nat
      /\ \/ posts'[e] - unheard'[e] = posts[e] - unheard[e] /\ pc'[s] = pc[s]
         \/ posts'[e] - unheard'[e] \in {posts[e] - unheard[e], posts[e] - unheard[e] + 1}
            /\ pc'[s] = "idle"
  BY <1>2, AttemptEnds, Different DEF IInv, AfterPost
<1>4. ServerFrame(s, e) /\ on'[s] = e
  BY <1>1, <1>3 DEF ServerFrame
<1>5. posts[e] \in Nat /\ unheard[e] \in Nat
  BY <1>2 DEF IInv, TypeOK
<1>6. pc'[s] = "idle" \/ Handles(s)'
  BY <1>1, <1>2, <1>3, <1>5 DEF Handles
<1>7. EventFine(e)'
  BY <1>1, <1>2, <1>3, <1>5 DEF EventFine, Handles
<1> QED BY <1>1, <1>2, <1>4, <1>6, <1>7, ServerSafe

LEMMA WorkerPostStep ==
  ASSUME IInv, NEW w \in Workers, NEW o \in Outcome, PostAttempt(w, o)
  PROVE  Safe'
<1>1. /\ pc[w] = "posting"
      /\ UNCHANGED <<kind, ledger, effects, failed, lastJob, about, job, phase, holder>>
  BY DEF PostAttempt, jobs, queue
<1>2. /\ Works(w) /\ job[w] \in 1..lastJob /\ on[w] = about[job[w]] /\ on[w] \in Events
      /\ EventFine(on[w]) /\ Queued(job[w])
      /\ \A v \in Workers : v # w /\ pc[v] # "idle" => job[v] # job[w]
  BY <1>1, WorkersOwn
<1>3. PICK e \in Events : e = on[w]
  BY <1>2
<1>4. /\ Frame(w, e) /\ on' = on /\ posts'[e] \in Nat /\ unheard'[e] \in Nat
      /\ \/ posts'[e] - unheard'[e] = posts[e] - unheard[e] /\ pc'[w] \in {"posting", "rejected"}
         \/ posts'[e] - unheard'[e] = posts[e] - unheard[e] + 1 /\ pc'[w] = "posted"
  BY <1>1, <1>3, AttemptEnds, Different DEF IInv, AfterPost
<1>5. posts[e] \in Nat /\ unheard[e] \in Nat
  BY DEF IInv, TypeOK
<1>6. WorkerFrame(w, about[job[w]], job[w])
  BY <1>1, <1>2, <1>3, <1>4 DEF WorkerFrame
<1>7. Works(w)'
  BY <1>1, <1>2, <1>3, <1>4, <1>5 DEF Works
<1>8. EventFine(e)'
  BY <1>1, <1>2, <1>3, <1>4, <1>5 DEF EventFine, Works, Queued
<1>9. \A k : k = job[w] => JobTold(k)'
  BY <1>1, <1>2 DEF JobTold, Works
<1> QED BY <1>2, <1>3, <1>6, <1>7, <1>8, <1>9, WorkerSafe

LEMMA TakeJobStep ==
  ASSUME IInv, NEW w \in Workers, NEW j \in 1..MaxJobs, TakeJob(w, j)
  PROVE  Safe'
<1>1. /\ pc[w] = "idle" /\ j \in 1..lastJob /\ kind[about[j]] = "mention"
      /\ phase[j] = "queued" /\ holder[j] = {}
      /\ job' = [job EXCEPT ![w] = j] /\ on' = [on EXCEPT ![w] = about[j]]
      /\ pc' = [pc EXCEPT ![w] = "reading"]
      /\ phase' = [phase EXCEPT ![j] = "running"] /\ holder' = [holder EXCEPT ![j] = {w}]
      /\ UNCHANGED <<kind, ledger, effects, posts, unheard, failed, lastJob, about>>
  BY DEF TakeJob, Queue!Take, atGitHub, jobs
<1>2. PICK e \in Events : e = about[j]
  BY DEF IInv, TypeOK
<1>3. \A v \in Workers : v # w /\ pc[v] # "idle" => job[v] # j
  BY <1>1 DEF IInv, Safe, Working, Works
<1>4. Frame(w, e)
  BY <1>1, <1>2, Different DEF Frame, IInv, TypeOK
<1>5. WorkerFrame(w, about[j], j)
  BY <1>1, <1>2, <1>4 DEF WorkerFrame, IInv, TypeOK
<1>6. /\ pc'[w] = "reading" /\ job'[w] = j /\ on'[w] = e /\ phase'[j] = "running"
      /\ holder'[j] = {w}
  BY <1>1, <1>2, Different DEF IInv, TypeOK
<1>7. posts[e] = unheard[e] /\ EventFine(e)
  BY <1>1, <1>2 DEF IInv, Safe, JobsTold, JobTold, EventsFine
<1>8. Works(w)'
  BY <1>1, <1>2, <1>6, <1>7 DEF Works
<1>9. EventFine(e)'
  <2>1. \A s \in Servers : pc'[s] = pc[s] /\ on'[s] = on[s]
    BY <1>4, Different DEF Frame
  <2> QED BY <1>1, <1>7, <2>1 DEF EventFine
<1>10. JobTold(j)'
  BY <1>6 DEF JobTold
<1> QED BY <1>1, <1>2, <1>3, <1>5, <1>8, <1>9, <1>10, WorkerSafe

LEMMA AnswerStep ==
  ASSUME IInv, NEW w \in Workers, NEW ok \in BOOLEAN, Answer(w, ok)
  PROVE  Safe'
<1>1. /\ pc[w] = "reading"
      /\ pc' = [pc EXCEPT ![w] = "posting"] \/ pc' = [pc EXCEPT ![w] = "rejected"]
      /\ UNCHANGED <<kind, ledger, on, effects, posts, unheard, failed, lastJob, about, job,
                     phase, holder>>
  BY DEF Answer, atGitHub, jobs, queue
<1>2. /\ Works(w) /\ job[w] \in 1..lastJob /\ on[w] = about[job[w]] /\ on[w] \in Events
      /\ EventFine(on[w]) /\ Queued(job[w])
      /\ \A v \in Workers : v # w /\ pc[v] # "idle" => job[v] # job[w]
  BY <1>1, WorkersOwn
<1>3. PICK e \in Events : e = on[w]
  BY <1>2
<1>4. Frame(w, e) /\ pc'[w] \in {"posting", "rejected"}
  BY <1>1, Different DEF Frame, IInv, TypeOK
<1>5. WorkerFrame(w, about[job[w]], job[w])
  BY <1>1, <1>2, <1>3, <1>4 DEF WorkerFrame
<1>6. Works(w)'
  BY <1>1, <1>2, <1>4 DEF Works
<1>7. EventFine(e)'
  BY <1>1, <1>2, <1>3 DEF EventFine, Queued
<1>8. \A k : k = job[w] => JobTold(k)'
  BY <1>1, <1>2 DEF JobTold, Works
<1> QED BY <1>2, <1>3, <1>5, <1>6, <1>7, <1>8, WorkerSafe

LEMMA MarkJobStep ==
  ASSUME IInv, NEW w \in Workers, MarkJob(w)
  PROVE  Safe'
<1>1. /\ pc[w] \in {"posted", "rejected"}
      /\ pc' = [pc EXCEPT ![w] = "idle"]
      /\ phase' = [phase EXCEPT ![job[w]] = Verdict(w)]
      /\ holder' = [holder EXCEPT ![job[w]] = {}]
      /\ UNCHANGED <<kind, ledger, on, effects, posts, unheard, failed, lastJob, about, job>>
  BY DEF MarkJob, Queue!Settle, atGitHub, jobs
<1>2. /\ Works(w) /\ job[w] \in 1..lastJob /\ on[w] = about[job[w]] /\ on[w] \in Events
      /\ EventFine(on[w]) /\ Queued(job[w]) /\ job[w] \in 1..MaxJobs
      /\ \A v \in Workers : v # w /\ pc[v] # "idle" => job[v] # job[w]
  BY <1>1, WorkersOwn
<1>3. PICK e \in Events : e = on[w]
  BY <1>2
<1>4. Frame(w, e) /\ pc'[w] = "idle"
  BY <1>1, Different DEF Frame, IInv, TypeOK
<1>5. WorkerFrame(w, about[job[w]], job[w])
  BY <1>1, <1>2, <1>3, <1>4 DEF WorkerFrame, IInv, TypeOK
<1>6. EventFine(e)'
  BY <1>1, <1>2, <1>3 DEF EventFine, Queued
<1>7. \A k : k = job[w] => JobTold(k)'
  <2>1. phase'[job[w]] = Verdict(w)
    BY <1>1, <1>2 DEF IInv, TypeOK
  <2>2. \/ Verdict(w) = "done" /\ pc[w] = "posted"
        \/ Verdict(w) \in {"queued", "error"} /\ pc[w] = "rejected"
    BY <1>1 DEF Verdict
  <2>3. \/ Verdict(w) = "done" /\ posts[e] = unheard[e] + 1
        \/ Verdict(w) \in {"queued", "error"} /\ posts[e] = unheard[e]
    BY <1>2, <1>3, <2>2 DEF Works
  <2> QED BY <1>1, <1>2, <1>3, <2>1, <2>3 DEF JobTold
<1> QED BY <1>2, <1>3, <1>4, <1>5, <1>6, <1>7, WorkerSafe

LEMMA CrashStep ==
  ASSUME IInv, NEW p \in Processes, Crash(p)
  PROVE  Safe'
<1>1. /\ pc[p] # "idle" /\ pc' = [pc EXCEPT ![p] = "idle"] /\ failed' = failed \cup {on[p]}
      /\ UNCHANGED <<kind, ledger, on, effects, posts, unheard, lastJob, about, job>>
  BY DEF Crash, atGitHub, jobs
<1>2. CASE p \in Servers
  <2>1. Handles(p) /\ on[p] \in Events /\ OnlyServers(p, on[p]) /\ EventFine(on[p])
    BY <1>1, <1>2, ServersOwn
  <2>2. phase' = phase /\ holder' = holder
    BY <1>2, Different DEF Crash, queue
  <2>3. ServerFrame(p, on[p]) /\ on'[p] = on[p] /\ pc'[p] = "idle"
    BY <1>1, <2>2, Different DEF ServerFrame, Frame, IInv, TypeOK
  <2>4. EventFine(on[p])'
    BY <1>1, <2>1, <2>3 DEF EventFine
  <2> QED BY <1>1, <1>2, <2>1, <2>3, <2>4, ServerSafe
<1>3. CASE p \in Workers
  <2>1. /\ Works(p) /\ job[p] \in 1..lastJob /\ on[p] = about[job[p]] /\ on[p] \in Events
        /\ EventFine(on[p]) /\ Queued(job[p]) /\ job[p] \in 1..MaxJobs
        /\ \A v \in Workers : v # p /\ pc[v] # "idle" => job[v] # job[p]
    BY <1>1, <1>3, WorkersOwn
  <2>2. phase' = phase /\ holder' = [holder EXCEPT ![job[p]] = {}]
    BY <1>3 DEF Crash, Queue!Strand
  <2>3. PICK e \in Events : e = on[p]
    BY <2>1
  <2>4. Frame(p, e) /\ pc'[p] = "idle"
    BY <1>1, Different DEF Frame, IInv, TypeOK
  <2>5. WorkerFrame(p, about[job[p]], job[p])
    BY <1>1, <2>1, <2>2, <2>3, <2>4 DEF WorkerFrame, IInv, TypeOK
  <2>6. EventFine(e)'
    BY <1>1, <2>1, <2>3 DEF EventFine, Queued
  <2>7. \A k : k = job[p] => JobTold(k)'
    BY <1>1, <2>1, <2>2 DEF JobTold, Works
  <2> QED BY <1>3, <2>1, <2>3, <2>4, <2>5, <2>6, <2>7, WorkerSafe
<1> QED BY <1>2, <1>3 DEF Processes

LEMMA TypeStep == TypeOK /\ [Next]_vars => TypeOK'
<1> SUFFICES ASSUME TypeOK, [Next]_vars PROVE TypeOK'
  OBVIOUS
<1>1. ASSUME NEW s \in Servers, NEW e \in Events, Receive(s, e) PROVE TypeOK'
  <2>1. pc' \in [Processes -> PC]
    <3>1. pc' = pc \/ pc' = [pc EXCEPT ![s] = "reading"]
      BY <1>1 DEF Receive, Recorded
    <3>2. pc \in [Processes -> PC]
      BY DEF TypeOK
    <3> QED BY <3>1, <3>2 DEF PC
  <2>2. on' \in [Processes -> Events]
    <3>1. on' = on \/ on' = [on EXCEPT ![s] = e]
      BY <1>1 DEF Receive, Recorded
    <3>2. on \in [Processes -> Events]
      BY DEF TypeOK
    <3> QED BY <3>1, <3>2
  <2>3. copies' \in [Events -> 0..MaxCopies]
    <3>1. copies' = [copies EXCEPT ![e] = @ + 1] /\ copies[e] < MaxCopies
      BY <1>1 DEF Receive, Recorded
    <3>2. copies \in [Events -> 0..MaxCopies]
      BY DEF TypeOK
    <3> QED BY <3>1, <3>2
  <2> QED
    BY <1>1, <2>1, <2>2, <2>3 DEF Receive, Recorded, TypeOK, atGitHub, jobs, queue
<1>2. ASSUME NEW s \in Servers, NEW token \in BOOLEAN, Read(s, token) PROVE TypeOK'
  <2>1. pc' \in [Processes -> PC]
    <3>1. \E x \in PC : pc' = [pc EXCEPT ![s] = x]
      BY <1>2 DEF Read, PC
    <3>2. pc \in [Processes -> PC]
      BY DEF TypeOK
    <3> QED BY <3>1, <3>2 DEF PC
  <2>2. attempt' \in [Processes -> 0..HttpAttempts]
    <3>1. attempt' = attempt \/ attempt' = [attempt EXCEPT ![s] = 1]
      BY <1>2 DEF Read
    <3>2. attempt \in [Processes -> 0..HttpAttempts]
      BY DEF TypeOK
    <3> QED BY <3>1, <3>2
  <2> QED
    BY <1>2, <2>1, <2>2 DEF Read, TypeOK, atGitHub, jobs, queue
<1>3. ASSUME NEW s \in Servers, Inscribe(s) PROVE TypeOK'
  <2>1. effects' \in [Events -> Nat]
    <3>1. effects' = [effects EXCEPT ![on[s]] = @ + 1]
      BY <1>3 DEF Inscribe
    <3>2. effects \in [Events -> Nat] /\ on[s] \in Events
      BY Different DEF TypeOK
    <3> QED BY <3>1, <3>2
  <2>2. pc' \in [Processes -> PC]
    <3>1. pc' = [pc EXCEPT ![s] = "idle"]
      BY <1>3 DEF Inscribe
    <3>2. pc \in [Processes -> PC]
      BY DEF TypeOK
    <3> QED BY <3>1, <3>2 DEF PC
  <2> QED
    BY <1>3, <2>1, <2>2 DEF Inscribe, TypeOK, atGitHub, jobs, queue
<1>4. ASSUME NEW s \in Servers, EnqueueJob(s) PROVE TypeOK'
  <2>1. lastJob' \in 0..MaxJobs
    <3>1. lastJob' = lastJob + 1 /\ lastJob < MaxJobs
      BY <1>4 DEF EnqueueJob, Queue!Submit
    <3>2. lastJob \in 0..MaxJobs
      BY DEF TypeOK
    <3> QED BY <3>1, <3>2
  <2>2. about' \in [1..MaxJobs -> Events]
    <3>1. about' = [about EXCEPT ![lastJob + 1] = on[s]]
      BY <1>4 DEF EnqueueJob, Queue!Submit
    <3>2. about \in [1..MaxJobs -> Events] /\ on[s] \in Events
      BY Different DEF TypeOK
    <3> QED BY <3>1, <3>2
  <2>3. phase' \in [1..MaxJobs -> Phase]
    <3>1. phase' = [phase EXCEPT ![lastJob + 1] = "queued"]
      BY <1>4 DEF EnqueueJob, Queue!Submit
    <3>2. phase \in [1..MaxJobs -> Phase]
      BY DEF TypeOK
    <3> QED BY <3>1, <3>2 DEF Phase
  <2>4. effects' \in [Events -> Nat]
    <3>1. effects' = [effects EXCEPT ![on[s]] = @ + 1]
      BY <1>4 DEF EnqueueJob, Queue!Submit
    <3>2. effects \in [Events -> Nat] /\ on[s] \in Events
      BY Different DEF TypeOK
    <3> QED BY <3>1, <3>2
  <2>5. pc' \in [Processes -> PC]
    <3>1. pc' = [pc EXCEPT ![s] = "idle"]
      BY <1>4 DEF EnqueueJob, Queue!Submit
    <3>2. pc \in [Processes -> PC]
      BY DEF TypeOK
    <3> QED BY <3>1, <3>2 DEF PC
  <2> QED
    BY <1>4, <2>1, <2>2, <2>3, <2>4, <2>5 DEF EnqueueJob, Queue!Submit, TypeOK, atGitHub, jobs, queue
<1>5. ASSUME NEW s \in Servers, HandlerRaises(s) PROVE TypeOK'
  <2>1. pc' \in [Processes -> PC]
    <3>1. pc' = [pc EXCEPT ![s] = "idle"]
      BY <1>5 DEF HandlerRaises
    <3>2. pc \in [Processes -> PC]
      BY DEF TypeOK
    <3> QED BY <3>1, <3>2 DEF PC
  <2>2. failed' \subseteq Events
    <3>1. failed' = failed \cup {on[s]}
      BY <1>5 DEF HandlerRaises
    <3>2. failed \subseteq Events /\ on[s] \in Events
      BY Different DEF TypeOK
    <3> QED BY <3>1, <3>2
  <2> QED
    BY <1>5, <2>1, <2>2 DEF HandlerRaises, TypeOK, atGitHub, jobs, queue
<1>6. ASSUME NEW p \in Processes, NEW o \in Outcome, PostAttempt(p, o) PROVE TypeOK'
  <2>1. pc' \in [Processes -> PC]
    <3>1. \E x \in PC : pc' = pc \/ pc' = [pc EXCEPT ![p] = x]
      BY <1>6 DEF PostAttempt, PC, AfterPost
    <3>2. pc \in [Processes -> PC]
      BY DEF TypeOK
    <3> QED BY <3>1, <3>2 DEF PC
  <2>2. attempt' \in [Processes -> 0..HttpAttempts]
    <3>1. \/ attempt' = [attempt EXCEPT ![p] = @ + 1] /\ attempt[p] < HttpAttempts
          \/ attempt' = [attempt EXCEPT ![p] = 0]
      BY <1>6 DEF PostAttempt, RetriesLeft
    <3>2. attempt \in [Processes -> 0..HttpAttempts]
      BY DEF TypeOK
    <3> QED BY <3>1, <3>2
  <2>3. posts' \in [Events -> Nat]
    <3>1. posts' = posts \/ posts' = [posts EXCEPT ![on[p]] = @ + 1]
      BY <1>6 DEF PostAttempt
    <3>2. posts \in [Events -> Nat] /\ on[p] \in Events
      BY Different DEF TypeOK
    <3> QED BY <3>1, <3>2
  <2>4. unheard' \in [Events -> Nat]
    <3>1. unheard' = unheard \/ unheard' = [unheard EXCEPT ![on[p]] = @ + 1]
      BY <1>6 DEF PostAttempt
    <3>2. unheard \in [Events -> Nat] /\ on[p] \in Events
      BY Different DEF TypeOK
    <3> QED BY <3>1, <3>2
  <2> QED
    BY <1>6, <2>1, <2>2, <2>3, <2>4 DEF PostAttempt, TypeOK, atGitHub, jobs, queue
<1>7. ASSUME NEW w \in Workers, NEW j \in 1..MaxJobs, TakeJob(w, j) PROVE TypeOK'
  <2>1. job' \in [Workers -> 0..MaxJobs]
    <3>1. job' = [job EXCEPT ![w] = j]
      BY <1>7 DEF TakeJob, Queue!Take
    <3>2. job \in [Workers -> 0..MaxJobs]
      BY DEF TypeOK
    <3> QED BY <3>1, <3>2
  <2>2. on' \in [Processes -> Events]
    <3>1. on' = [on EXCEPT ![w] = about[j]]
      BY <1>7 DEF TakeJob, Queue!Take
    <3>2. on \in [Processes -> Events] /\ about[j] \in Events
      BY <1>7 DEF TypeOK, TakeJob
    <3> QED BY <3>1, <3>2
  <2>3. pc' \in [Processes -> PC]
    <3>1. pc' = [pc EXCEPT ![w] = "reading"]
      BY <1>7 DEF TakeJob, Queue!Take
    <3>2. pc \in [Processes -> PC]
      BY DEF TypeOK
    <3> QED BY <3>1, <3>2 DEF PC
  <2>4. phase' \in [1..MaxJobs -> Phase]
    <3>1. phase' = [phase EXCEPT ![j] = "running"]
      BY <1>7 DEF TakeJob, Queue!Take
    <3>2. phase \in [1..MaxJobs -> Phase]
      BY DEF TypeOK
    <3> QED BY <3>1, <3>2 DEF Phase
  <2>5. tries' \in [1..MaxJobs -> 0..MaxAttempts]
    <3>1. tries' = [tries EXCEPT ![j] = @ + 1] /\ tries[j] < MaxAttempts
      BY <1>7 DEF TakeJob, Queue!Take
    <3>2. tries \in [1..MaxJobs -> 0..MaxAttempts]
      BY DEF TypeOK
    <3> QED BY <3>1, <3>2
  <2>6. holder' \in [1..MaxJobs -> SUBSET Workers]
    <3>1. holder' = [holder EXCEPT ![j] = {w}]
      BY <1>7 DEF TakeJob, Queue!Take
    <3>2. holder \in [1..MaxJobs -> SUBSET Workers]
      BY DEF TypeOK
    <3> QED BY <3>1, <3>2
  <2> QED
    BY <1>7, <2>1, <2>2, <2>3, <2>4, <2>5, <2>6 DEF TakeJob, Queue!Take, TypeOK, atGitHub, jobs, queue
<1>8. ASSUME NEW w \in Workers, NEW ok \in BOOLEAN, Answer(w, ok) PROVE TypeOK'
  <2>1. pc' \in [Processes -> PC]
    <3>1. \E x \in PC : pc' = [pc EXCEPT ![w] = x]
      BY <1>8 DEF Answer, PC
    <3>2. pc \in [Processes -> PC]
      BY DEF TypeOK
    <3> QED BY <3>1, <3>2 DEF PC
  <2>2. attempt' \in [Processes -> 0..HttpAttempts]
    <3>1. attempt' = attempt \/ attempt' = [attempt EXCEPT ![w] = 1]
      BY <1>8 DEF Answer
    <3>2. attempt \in [Processes -> 0..HttpAttempts]
      BY DEF TypeOK
    <3> QED BY <3>1, <3>2
  <2> QED
    BY <1>8, <2>1, <2>2 DEF Answer, TypeOK, atGitHub, jobs, queue
<1>9. ASSUME NEW w \in Workers, MarkJob(w) PROVE TypeOK'
  <2>1. pc' \in [Processes -> PC]
    <3>1. pc' = [pc EXCEPT ![w] = "idle"]
      BY <1>9 DEF MarkJob, Queue!Settle
    <3>2. pc \in [Processes -> PC]
      BY DEF TypeOK
    <3> QED BY <3>1, <3>2 DEF PC
  <2>2. phase' \in [1..MaxJobs -> Phase]
    <3>1. \E x \in Phase : phase' = [phase EXCEPT ![job[w]] = x]
      BY <1>9 DEF MarkJob, Queue!Settle, Phase, Verdict
    <3>2. phase \in [1..MaxJobs -> Phase]
      BY DEF TypeOK
    <3> QED BY <3>1, <3>2 DEF Phase
  <2>3. holder' \in [1..MaxJobs -> SUBSET Workers]
    <3>1. holder' = [holder EXCEPT ![job[w]] = {}]
      BY <1>9 DEF MarkJob, Queue!Settle
    <3>2. holder \in [1..MaxJobs -> SUBSET Workers]
      BY DEF TypeOK
    <3> QED BY <3>1, <3>2
  <2> QED
    BY <1>9, <2>1, <2>2, <2>3 DEF MarkJob, Queue!Settle, TypeOK, atGitHub, jobs, queue
<1>10. ASSUME NEW p \in Processes, Crash(p) PROVE TypeOK'
  <2>1. pc' \in [Processes -> PC]
    <3>1. pc' = [pc EXCEPT ![p] = "idle"]
      BY <1>10 DEF Crash, Queue!Strand
    <3>2. pc \in [Processes -> PC]
      BY DEF TypeOK
    <3> QED BY <3>1, <3>2 DEF PC
  <2>2. attempt' \in [Processes -> 0..HttpAttempts]
    <3>1. attempt' = [attempt EXCEPT ![p] = 0]
      BY <1>10 DEF Crash, Queue!Strand
    <3>2. attempt \in [Processes -> 0..HttpAttempts]
      BY DEF TypeOK
    <3> QED BY <3>1, <3>2
  <2>3. failed' \subseteq Events
    <3>1. failed' = failed \cup {on[p]}
      BY <1>10 DEF Crash, Queue!Strand
    <3>2. failed \subseteq Events /\ on[p] \in Events
      BY Different DEF TypeOK
    <3> QED BY <3>1, <3>2
  <2>4. holder' \in [1..MaxJobs -> SUBSET Workers]
    <3>1. holder' = holder \/ holder' = [holder EXCEPT ![job[p]] = {}]
      BY <1>10 DEF Crash, Queue!Strand, queue
    <3>2. holder \in [1..MaxJobs -> SUBSET Workers]
      BY DEF TypeOK
    <3> QED BY <3>1, <3>2
  <2>5. crashes' \in 0..MaxCrashes
    <3>1. crashes' = crashes + 1 /\ crashes < MaxCrashes
      BY <1>10 DEF Crash, Queue!Strand
    <3>2. crashes \in 0..MaxCrashes
      BY DEF TypeOK
    <3> QED BY <3>1, <3>2
  <2> QED
    BY <1>10, <2>1, <2>2, <2>3, <2>4, <2>5 DEF Crash, Queue!Strand, TypeOK, atGitHub, jobs, queue
<1>11. CASE UNCHANGED vars
  BY <1>11 DEF vars, atGitHub, jobs, queue, TypeOK
<1> QED
  BY <1>1, <1>2, <1>3, <1>4, <1>5, <1>6, <1>7, <1>8, <1>9, <1>10, <1>11, Different
  DEF Next, ServerStep, WorkerStep

-----------------------------------------------------------------------------
(* The theorems                                                            *)

LEMMA InitIInv == Init => IInv
<1> SUFFICES ASSUME Init PROVE IInv
  OBVIOUS
<1> USE DEF Init, Queue!Init, Queue!Jobs
<1>1. TypeOK
  <2>1. (CHOOSE e \in Events : TRUE) \in Events
    BY ProcessAssumption
  <2>2. on \in [Processes -> Events] /\ about \in [1..MaxJobs -> Events]
    BY <2>1
  <2>3. /\ kind \in [Events -> Kinds] /\ copies \in [Events -> 0..MaxCopies]
        /\ ledger \subseteq Events /\ failed \subseteq Events
        /\ effects \in [Events -> Nat] /\ posts \in [Events -> Nat] /\ unheard \in [Events -> Nat]
    OBVIOUS
  <2>4. /\ pc \in [Processes -> PC] /\ attempt \in [Processes -> 0..HttpAttempts]
        /\ job \in [Workers -> 0..MaxJobs] /\ lastJob \in 0..MaxJobs /\ crashes \in 0..MaxCrashes
    BY DEF PC
  <2>5. /\ phase \in [1..MaxJobs -> Phase] /\ tries \in [1..MaxJobs -> 0..MaxAttempts]
        /\ holder \in [1..MaxJobs -> SUBSET Workers]
    BY DEF Phase
  <2> QED BY <2>2, <2>3, <2>4, <2>5 DEF TypeOK
<1>2. Handling /\ Apart /\ Working
  BY Different DEF Handling, Apart, Working
<1>3. EventsFine
  BY DEF EventsFine, EventFine
<1>4. JobsApart /\ JobsTold
  BY DEF JobsApart, JobsTold
<1> QED BY <1>1, <1>2, <1>3, <1>4 DEF IInv, Safe

LEMMA NextIInv == IInv /\ [Next]_vars => IInv'
<1> SUFFICES ASSUME IInv, [Next]_vars PROVE Safe'
  BY TypeStep DEF IInv
<1>1. ASSUME NEW s \in Servers, ServerStep(s) PROVE Safe'
  BY <1>1, ReadStep, InscribeStep, EnqueueJobStep, HandlerRaisesStep, ServerPostStep
  DEF ServerStep
<1>2. ASSUME NEW w \in Workers, WorkerStep(w) PROVE Safe'
  BY <1>2, TakeJobStep, AnswerStep, WorkerPostStep, MarkJobStep DEF WorkerStep
<1>3. CASE UNCHANGED vars
  BY <1>3, ViewKept DEF IInv, vars, view, atGitHub, jobs, queue
<1> QED BY <1>1, <1>2, <1>3, ReceiveStep, CrashStep DEF Next

LEMMA Invariance == Spec => []IInv
  BY InitIInv, NextIInv, PTL DEF Spec

\* Every variable keeps its type, whatever is delivered, fails or dies.
THEOREM TypeCorrect == Spec => []TypeOK
<1>1. IInv => TypeOK
  BY DEF IInv
<1> QED BY <1>1, Invariance, PTL

\* The ledger's promise: however often an event is delivered and to whichever
\* API processes at once, it is inscribed or enqueued at most once.
THEOREM LedgerDedups == Spec => []HandledOnce
<1>1. IInv => HandledOnce
  BY DEF IInv, Safe, EventsFine, EventFine, HandledOnce
<1> QED BY <1>1, Invariance, PTL

\* The ledger's price: an event recorded and not handled is being handled, or
\* its handler raised or died.
THEOREM DropsAreFailures == Spec => []DroppedOnlyByFailure
<1>1. IInv => DroppedOnlyByFailure
  BY DEF IInv, Safe, TypeOK, EventsFine, EventFine, DroppedOnlyByFailure
<1> QED BY <1>1, Invariance, PTL

\* A second comment in a thread presupposes a first whose answer was lost.
THEOREM RepostsNeedLoss == Spec => []RepostsAreUnheard
<1>1. IInv => RepostsAreUnheard
  BY DEF IInv, Safe, EventsFine, EventFine, RepostsAreUnheard
<1> QED BY <1>1, Invariance, PTL

\* A question's job says what its thread holds.
THEOREM StatusIsTrue == Spec => []StatusTellsThread
<1>1. IInv => StatusTellsThread
  BY DEF IInv, Safe, JobsTold, JobTold, StatusTellsThread
<1> QED BY <1>1, Invariance, PTL
=============================================================================
