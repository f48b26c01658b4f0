------------------------------- MODULE Intake -------------------------------
(***************************************************************************)
(* GitHub's deliveries from the webhook to their effect: the ledger of     *)
(* delivery ids (api/webhook.py, storage/queries.py), the handlers         *)
(* (ingestion/webhook_handler.py, ingestion/mentions.py), and for a        *)
(* question the job that answers it and the comment it posts through the   *)
(* retry loop (ingestion/github_client.py, resilience/retry.py).           *)
(*                                                                         *)
(* The webhook is a coroutine that never awaits after the request's body,  *)
(* so an API process handles one delivery at a time; there may be several  *)
(* processes.  The queue is JobLifecycle, which JobQueue implements.       *)
(* Signatures are valid, the mode is live and the App is configured.       *)
(***************************************************************************)
EXTENDS Integers

CONSTANTS
  Servers,       \* API processes
  Workers,       \* worker processes
  Events,        \* what GitHub notifies of, each under one delivery id
  MaxAttempts,   \* settings.job_max_attempts
  HttpAttempts,  \* settings.retry_max_attempts
  MaxJobs,       \* bound: jobs ever enqueued
  MaxCopies,     \* bound: deliveries of one event
  MaxCrashes     \* bound: processes that die while they work

ASSUME ProcessAssumption == Servers \cap Workers = {} /\ Events # {}
ASSUME AttemptsAssumption == MaxAttempts \in Nat \ {0} /\ HttpAttempts \in Nat \ {0}
ASSUME BoundsAssumption == MaxJobs \in Nat /\ MaxCopies \in Nat /\ MaxCrashes \in Nat

VARIABLES
  kind,     \* what an event is; never changes
  copies,   \* deliveries of an event so far
  ledger,   \* webhook_deliveries: the events recorded
  pc,       \* what a process does
  on,       \* the event it does it for
  attempt,  \* number of the HTTP attempt of its retry loop
  effects,  \* how often an event was inscribed or enqueued
  posts,    \* comments GitHub stored for an event
  unheard,  \* history: those of them whose answer was lost
  failed,   \* history: events whose handler raised before its effect, or process died
  lastJob,  \* the jobs enqueued have ids 1..lastJob
  about,    \* the event of a job
  job,      \* the job a worker took
  phase, tries, holder,  \* of the jobs: see JobLifecycle
  crashes   \* how many processes died (counts against MaxCrashes)

queue == <<phase, tries, holder>>
jobs == <<lastJob, about>>
atGitHub == <<posts, unheard>>
vars == <<kind, copies, ledger, pc, on, attempt, effects, atGitHub, failed, jobs, job,
          queue, crashes>>

Queue == INSTANCE JobLifecycle

Processes == Servers \cup Workers
\* A merged or an opened pull request, a question in a comment, an installation
\* that names its repositories or (when unsuspended) does not.
Kinds == {"merged", "opened", "mention", "installation", "unsuspended"}

PC == {"idle", "reading", "acting", "posting", "posted", "rejected"}
Phase == {"absent", "queued", "running", "done", "error"}

TypeOK ==
  /\ kind \in [Events -> Kinds]
  /\ copies \in [Events -> 0..MaxCopies]
  /\ ledger \subseteq Events
  /\ pc \in [Processes -> PC]
  /\ on \in [Processes -> Events]
  /\ attempt \in [Processes -> 0..HttpAttempts]
  /\ effects \in [Events -> Nat]
  /\ posts \in [Events -> Nat]
  /\ unheard \in [Events -> Nat]
  /\ failed \subseteq Events
  /\ lastJob \in 0..MaxJobs
  /\ about \in [1..MaxJobs -> Events]
  /\ job \in [Workers -> 0..MaxJobs]
  /\ phase \in [1..MaxJobs -> Phase]
  /\ tries \in [1..MaxJobs -> 0..MaxAttempts]
  /\ holder \in [1..MaxJobs -> SUBSET Workers]
  /\ crashes \in 0..MaxCrashes

Init ==
  /\ kind \in [Events -> Kinds]
  /\ copies = [e \in Events |-> 0]
  /\ ledger = {}
  /\ pc = [p \in Processes |-> "idle"]
  /\ on = [p \in Processes |-> CHOOSE e \in Events : TRUE]  \* nothing yet
  /\ attempt = [p \in Processes |-> 0]
  /\ effects = [e \in Events |-> 0]
  /\ posts = [e \in Events |-> 0]
  /\ unheard = [e \in Events |-> 0]
  /\ failed = {}
  /\ lastJob = 0
  /\ about = [j \in 1..MaxJobs |-> CHOOSE e \in Events : TRUE]  \* no job yet
  /\ job = [w \in Workers |-> 0]
  /\ Queue!Init
  /\ crashes = 0

-----------------------------------------------------------------------------
(* The webhook, in API process s                                           *)

\* Mutant of Recorded: looked up, and not recorded.
RecordedNot(e) == ledger

\* The ledger after record_delivery_if_new.
Recorded(e) == ledger \cup {e}

\* A delivery arrives, the first or a repeated one.  One that is in the ledger
\* is answered as a duplicate; otherwise it is handled.
Receive(s, e) ==
  /\ pc[s] = "idle"
  /\ copies[e] < MaxCopies
  /\ copies' = [copies EXCEPT ![e] = @ + 1]
  /\ ledger' = Recorded(e)
  /\ IF e \in ledger
     THEN UNCHANGED <<pc, on>>
     ELSE /\ pc' = [pc EXCEPT ![s] = "reading"]
          /\ on' = [on EXCEPT ![s] = e]
  /\ UNCHANGED <<kind, attempt, effects, atGitHub, failed, jobs, job, queue, crashes>>

\* Mutant of NeedsToken: a question too is dropped without a token.
NeedsTokenToAct(e) == kind[e] \in {"opened", "unsuspended", "mention"}

\* Without a token no comment is posted and no repositories are listed; the
\* other handlers go on: a pull request is inscribed without threads and files,
\* a question queued without its reaction.
NeedsToken(e) == kind[e] \in {"opened", "unsuspended"}

\* The handler's reads from GitHub, and the reaction to a question, end.
\* GitHub may refuse the installation token (or the list of repositories).
Read(s, token) ==
  /\ pc[s] = "reading"
  /\ IF ~token /\ NeedsToken(on[s])
     THEN pc' = [pc EXCEPT ![s] = "idle"] /\ UNCHANGED attempt
     ELSE IF kind[on[s]] = "opened"
     THEN /\ pc' = [pc EXCEPT ![s] = "posting"]
          /\ attempt' = [attempt EXCEPT ![s] = 1]
     ELSE pc' = [pc EXCEPT ![s] = "acting"] /\ UNCHANGED attempt
  /\ UNCHANGED <<kind, copies, ledger, on, effects, atGitHub, failed, jobs, job, queue,
                 crashes>>

\* inscribe_pr of a merged pull request: see Canon.
Inscribe(s) ==
  /\ pc[s] = "acting"
  /\ kind[on[s]] = "merged"
  /\ effects' = [effects EXCEPT ![on[s]] = @ + 1]
  /\ pc' = [pc EXCEPT ![s] = "idle"]
  /\ UNCHANGED <<kind, copies, ledger, on, attempt, atGitHub, failed, jobs, job, queue,
                 crashes>>

\* A question, or an installation to backfill, becomes a job.
EnqueueJob(s) ==
  /\ pc[s] = "acting"
  /\ kind[on[s]] \in {"mention", "installation", "unsuspended"}
  /\ lastJob < MaxJobs
  /\ lastJob' = lastJob + 1
  /\ about' = [about EXCEPT ![lastJob + 1] = on[s]]
  /\ Queue!Submit(lastJob + 1)
  /\ effects' = [effects EXCEPT ![on[s]] = @ + 1]
  /\ pc' = [pc EXCEPT ![s] = "idle"]
  /\ UNCHANGED <<kind, copies, ledger, on, attempt, atGitHub, failed, job, crashes>>

\* Anything the handler calls may raise before its effect: GitHub is answered
\* 500, and the ledger keeps the delivery.
HandlerRaises(s) ==
  /\ pc[s] \in {"reading", "acting"}
  /\ failed' = failed \cup {on[s]}
  /\ pc' = [pc EXCEPT ![s] = "idle"]
  /\ UNCHANGED <<kind, copies, ledger, on, attempt, effects, atGitHub, jobs, job, queue,
                 crashes>>

-----------------------------------------------------------------------------
(* Posting a comment, for a server and a worker                            *)

\* What happens to a POST: GitHub stores the comment and says so; refuses it;
\* or the answer is lost (a timeout, a reset, a gateway's 5xx), with or without
\* the comment having been stored.
Outcome == [stored : BOOLEAN, answer : {"created", "refused", "lost"}]
Possible(o) == (o.answer = "created" => o.stored) /\ (o.answer = "refused" => ~o.stored)

\* Mutant of Accepted: a comment created is not 200.
AcceptedNever(answer) == answer = "ok"

\* post_issue_comment: `status_code in (200, 201)`.
Accepted(answer) == answer = "created"

\* What post_issue_comment is, to its caller: a server answers GitHub whatever
\* came of the comment; a worker raises unless it was accepted.
AfterPost(p, answer) ==
  IF p \in Servers THEN "idle" ELSE IF Accepted(answer) THEN "posted" ELSE "rejected"

RetriesLeft(p) == attempt[p] < HttpAttempts

\* One attempt of the POST.  A lost answer is retried while attempts are left.
PostAttempt(p, o) ==
  /\ pc[p] = "posting"
  /\ Possible(o)
  /\ posts' = IF o.stored THEN [posts EXCEPT ![on[p]] = @ + 1] ELSE posts
  /\ unheard' = IF o.stored /\ o.answer = "lost"
                THEN [unheard EXCEPT ![on[p]] = @ + 1] ELSE unheard
  /\ IF o.answer = "lost" /\ RetriesLeft(p)
     THEN attempt' = [attempt EXCEPT ![p] = @ + 1] /\ UNCHANGED pc
     ELSE /\ attempt' = [attempt EXCEPT ![p] = 0]
          /\ pc' = [pc EXCEPT ![p] = AfterPost(p, o.answer)]
  /\ UNCHANGED <<kind, copies, ledger, on, effects, failed, jobs, job, queue, crashes>>

-----------------------------------------------------------------------------
(* The job of a question, in worker w                                      *)

\* The worker claims the job of a question.  The jobs of installations stay
\* queued here: what their handler does is not this module's.
TakeJob(w, j) ==
  /\ pc[w] = "idle"
  /\ j \in 1..lastJob
  /\ kind[about[j]] = "mention"
  /\ Queue!Take(j, w)
  /\ job' = [job EXCEPT ![w] = j]
  /\ on' = [on EXCEPT ![w] = about[j]]
  /\ pc' = [pc EXCEPT ![w] = "reading"]
  /\ UNCHANGED <<kind, copies, ledger, attempt, effects, atGitHub, failed, jobs, crashes>>

\* Mutant of Answer: an exception there leaves the worker's loop unmarked.
AnswerUnmarked(w, ok) ==
  /\ pc[w] = "reading"
  /\ IF ok
     THEN /\ pc' = [pc EXCEPT ![w] = "posting"]
          /\ attempt' = [attempt EXCEPT ![w] = 1]
     ELSE pc' = [pc EXCEPT ![w] = "idle"] /\ UNCHANGED attempt
  /\ UNCHANGED <<kind, copies, ledger, on, effects, atGitHub, failed, jobs, job, queue,
                 crashes>>

\* answer_why and installation_token: an answer and a token, or an exception.
Answer(w, ok) ==
  /\ pc[w] = "reading"
  /\ IF ok
     THEN /\ pc' = [pc EXCEPT ![w] = "posting"]
          /\ attempt' = [attempt EXCEPT ![w] = 1]
     ELSE pc' = [pc EXCEPT ![w] = "rejected"] /\ UNCHANGED attempt
  /\ UNCHANGED <<kind, copies, ledger, on, effects, atGitHub, failed, jobs, job, queue,
                 crashes>>

\* Mutant of Verdict: the handler ignores that the comment was not accepted.
VerdictIgnoresPost(w) == "done"

\* mark_done, or mark_error: another attempt while there is one.
Verdict(w) ==
  IF pc[w] = "posted" THEN "done"
  ELSE IF tries[job[w]] < MaxAttempts THEN "queued" ELSE "error"

MarkJob(w) ==
  /\ pc[w] \in {"posted", "rejected"}
  /\ Queue!Settle(job[w], w, Verdict(w))
  /\ pc' = [pc EXCEPT ![w] = "idle"]
  /\ UNCHANGED <<kind, copies, ledger, on, attempt, effects, atGitHub, failed, jobs, job,
                 crashes>>

\* A process dies.  A worker leaves its job running.
Crash(p) ==
  /\ pc[p] # "idle"
  /\ crashes < MaxCrashes
  /\ crashes' = crashes + 1
  /\ pc' = [pc EXCEPT ![p] = "idle"]
  /\ attempt' = [attempt EXCEPT ![p] = 0]
  /\ failed' = failed \cup {on[p]}
  /\ IF p \in Workers THEN Queue!Strand(job[p], p) ELSE UNCHANGED queue
  /\ UNCHANGED <<kind, copies, ledger, on, effects, atGitHub, jobs, job>>

-----------------------------------------------------------------------------

ServerStep(s) ==
  \/ \E token \in BOOLEAN : Read(s, token)
  \/ Inscribe(s)
  \/ EnqueueJob(s)
  \/ HandlerRaises(s)
  \/ \E o \in Outcome : PostAttempt(s, o)

WorkerStep(w) ==
  \/ \E j \in 1..MaxJobs : TakeJob(w, j)
  \/ \E ok \in BOOLEAN : Answer(w, ok)
  \/ \E o \in Outcome : PostAttempt(w, o)
  \/ MarkJob(w)

Next ==
  \/ \E s \in Servers : ServerStep(s) \/ \E e \in Events : Receive(s, e)
  \/ \E w \in Workers : WorkerStep(w)
  \/ \E p \in Processes : Crash(p)

Spec == Init /\ [][Next]_vars

\* Processes go on, and are restarted when they die; nothing is assumed about
\* what GitHub answers or delivers.
FairSpec ==
  /\ Spec
  /\ \A s \in Servers : WF_vars(ServerStep(s))
  /\ \A w \in Workers : WF_vars(WorkerStep(w))

-----------------------------------------------------------------------------
(* Properties                                                              *)

\* "without this check a retry ... would double-inscribe the same PR": however
\* often GitHub delivers an event, and to whichever processes at once, it is
\* inscribed or enqueued once.
HandledOnce == \A e \in Events : effects[e] <= 1

\* An event recorded in the ledger is never handled again, so it must be
\* handled now: it is, unless its handler raised or its process died.  (For an
\* opened pull request a comment is attempted, and an unsuspended installation
\* is indexed, only if GitHub grants it.)
DroppedOnlyByFailure ==
  \A e \in ledger :
    \/ kind[e] \in {"opened", "unsuspended"} \/ effects[e] = 1 \/ e \in failed
    \/ \E s \in Servers : pc[s] # "idle" /\ on[s] = e

\* A thread gets a second comment only if GitHub stored the first and its
\* answer was lost: no repeated delivery, retried job, dead worker or race
\* between processes posts again what GitHub acknowledged.
RepostsAreUnheard == \A e \in Events : posts[e] <= unheard[e] + 1

\* The status of a question's job is the truth about its thread: a job that is
\* done has posted one comment whose answer was heard, and one that failed for
\* good none.
StatusTellsThread ==
  \A j \in 1..lastJob :
    kind[about[j]] = "mention" =>
      /\ phase[j] = "done" => posts[about[j]] = unheard[about[j]] + 1
      /\ phase[j] = "error" => posts[about[j]] = unheard[about[j]]

\* A question that was queued is answered, or its job uses its attempts up, or
\* its worker dies.
QuestionSettles ==
  \A e \in Events :
    kind[e] = "mention" /\ effects[e] = 1
      ~> \/ posts[e] > 0 \/ e \in failed
         \/ \E j \in 1..lastJob : about[j] = e /\ phase[j] = "error"
=============================================================================
