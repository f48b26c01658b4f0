------------------------------ MODULE Backfill ------------------------------
(***************************************************************************)
(* The backfill of an installation (jobs/handlers.py) against GitHub and   *)
(* next to the webhook that inscribes a merge                              *)
(* (ingestion/webhook_handler.py): what each of them has read from GitHub, *)
(* what they write to the tables (retrieval/canon.py), what the job's      *)
(* progress says meanwhile, and what a failure and a retry leave.  The     *)
(* queue is JobLifecycle, which JobQueue implements; the stored text is    *)
(* Canon's, the overturning of decisions Decisions'.                       *)
(*                                                                         *)
(* Of a pull request's versions only whether it is merged is told apart.   *)
(* PRs are those updated since the beginning of the backfill's window.     *)
(* The mode is live; without it a job ends as it does without a token.     *)
(***************************************************************************)
EXTENDS Integers, FiniteSets, Sequences

CONSTANTS
  Workers,
  Repos,
  PRs,
  RepoOf(_),    \* the repository of a pull request
  PerPage,      \* pull requests on a page of GitHub's list
  MaxPRs,       \* max_prs of list_recent_prs
  MaxAttempts,  \* settings.job_max_attempts
  MaxJobs,      \* bound: backfills ever enqueued
  MaxUnheard,   \* bound: comments GitHub stores without its answer arriving
  MaxCrashes    \* bound: workers that die

ASSUME ReposAssumption == \A p \in PRs : RepoOf(p) \in Repos
ASSUME FiniteAssumption == IsFiniteSet(Workers) /\ IsFiniteSet(Repos) /\ IsFiniteSet(PRs)
ASSUME BoundsAssumption ==
  /\ {PerPage, MaxPRs, MaxAttempts} \subseteq Nat \ {0}
  /\ {MaxJobs, MaxUnheard, MaxCrashes} \subseteq Nat

VARIABLES
  github,    \* the pull requests as GitHub has them
  updated,   \* where each is in GitHub's list of its repository: the last updated first
  greetings, \* the welcome comments GitHub stored on each
  hook,      \* what became of the delivery of its merge
  record,    \* decision_events: the version stored, or "none"
  payload,   \* the repositories of a job
  progress,  \* jobs.progress
  run,       \* what a worker does
  phase, tries, holder,  \* of the jobs: see JobLifecycle
  unlisted,  \* history: what a job's lists, in its last attempt, left out: those GitHub
             \* refused to list, and those further down than max_prs
  moved,     \* history: those updated while it listed, past the first page
  unheard,   \* history: the comments on each whose answer was lost
  overtaken, \* history: merged while a worker had a list from before
  crashes    \* how many workers died (counts against MaxCrashes)

queue == <<phase, tries, holder>>
atGitHub == <<github, updated, greetings>>
history == <<unlisted, moved, unheard, overtaken>>
vars == <<atGitHub, hook, record, payload, progress, run, queue, history, crashes>>

Queue == INSTANCE JobLifecycle

\* The sum of f over S: so many numbered members there are.
Total(f, S) == Cardinality(UNION {{x} \X (1..f[x]) : x \in S})

Jobs == 1..MaxJobs

\* A pull request that is not merged has no merge date.
Version == {"open", "merged"}
Listed == [pr : PRs, seen : Version]

In(R) == {p \in PRs : RepoOf(p) \in R}

\* GitHub lists the pull requests of a repository in a row.
Orders ==
  {f \in [PRs -> 1..Cardinality(PRs)] : \A p, q \in PRs :
     RepoOf(p) = RepoOf(q) =>
       f[p] <= Cardinality(In({RepoOf(p)})) /\ (f[p] = f[q] => p = q)}

\* A worker's run: the repositories it has left and the one it is in, the page of
\* its list to read next, the pull requests listed and not yet inscribed, and the
\* open ones not yet welcomed.
Idle == [pc |-> "idle"]
Running ==
  [pc : {"begin", "repos", "list", "prs", "index", "welcome", "returned", "raised"},
   job : Jobs, left : SUBSET Repos, repo : Repos, page : Nat, todo : Seq(Listed),
   greet : SUBSET PRs]
Run == {Idle} \cup Running

Progress == [state : {"none", "running", "done", "error"}, repos : 0..Cardinality(Repos),
             captured : Nat, posted : Nat]
NoProgress == [state |-> "none", repos |-> 0, captured |-> 0, posted |-> 0]

TypeOK ==
  /\ github \in [PRs -> Version]
  /\ updated \in Orders
  /\ greetings \in [PRs -> Nat]
  /\ hook \in [PRs -> {"none", "due", "done", "dropped"}]
  /\ record \in [PRs -> Version \cup {"none"}]
  /\ payload \in [Jobs -> SUBSET Repos]
  /\ progress \in [Jobs -> Progress]
  /\ run \in [Workers -> Run]
  /\ phase \in [Jobs -> {"absent", "queued", "running", "done", "error"}]
  /\ tries \in [Jobs -> 0..MaxAttempts]
  /\ holder \in [Jobs -> SUBSET Workers]
  /\ unlisted \in [Jobs -> SUBSET PRs] /\ moved \in [Jobs -> SUBSET PRs]
  /\ unheard \in [PRs -> 0..MaxUnheard]
  /\ overtaken \subseteq PRs /\ crashes \in 0..MaxCrashes

Init ==
  /\ github = [p \in PRs |-> "open"]
  /\ updated \in Orders
  /\ greetings = [p \in PRs |-> 0]
  /\ hook = [p \in PRs |-> "none"]
  /\ record = [p \in PRs |-> "none"]
  /\ payload = [j \in Jobs |-> {}]
  /\ progress = [j \in Jobs |-> NoProgress]
  /\ run = [w \in Workers |-> Idle]
  /\ Queue!Init
  /\ unlisted = [j \in Jobs |-> {}] /\ moved = [j \in Jobs |-> {}]
  /\ unheard = [p \in PRs |-> 0]
  /\ overtaken = {} /\ crashes = 0

-----------------------------------------------------------------------------
(* GitHub, and the webhook of a merge                                      *)

At(w, pc) == run[w].pc = pc
Job(w) == run[w].job

\* p is the last updated.  A list that is being read, past its first page, may
\* never show it, and show another twice.
Touch(p) ==
  /\ updated' = [q \in PRs |->
       IF q = p THEN 1
       ELSE IF RepoOf(q) = RepoOf(p) /\ updated[q] < updated[p] THEN updated[q] + 1
       ELSE updated[q]]
  /\ moved' = [j \in Jobs |->
       IF \E w \in holder[j] : At(w, "list") /\ run[w].page > 1 /\ run[w].repo = RepoOf(p)
       THEN moved[j] \cup {p} ELSE moved[j]]

\* Somebody pushes, edits or comments.
Update(p) ==
  /\ Touch(p)
  /\ UNCHANGED <<github, greetings, hook, record, payload, progress, run, queue, unlisted,
                 unheard, overtaken, crashes>>

InHand(w, p) == run[w] # Idle /\ \E i \in DOMAIN run[w].todo : run[w].todo[i].pr = p

Merge(p) ==
  /\ github[p] = "open"
  /\ github' = [github EXCEPT ![p] = "merged"]
  /\ hook' = [hook EXCEPT ![p] = "due"]
  /\ overtaken' = IF \E w \in Workers : InHand(w, p) THEN overtaken \cup {p} ELSE overtaken
  /\ Touch(p)
  /\ UNCHANGED <<greetings, record, payload, progress, run, queue, unlisted, unheard, crashes>>

\* record_event: the version read replaces the one stored, whichever is newer.
Stored(p, seen) == [record EXCEPT ![p] = seen]

\* handle_pull_request_event on the merge, whose payload is the pull request then.
HookInscribe(p) ==
  /\ hook[p] = "due"
  /\ record' = Stored(p, github[p])
  /\ hook' = [hook EXCEPT ![p] = "done"]
  /\ UNCHANGED <<atGitHub, payload, progress, run, queue, history, crashes>>

\* It raises, and the delivery is in the ledger: see Intake.
HookFails(p) ==
  /\ hook[p] = "due"
  /\ hook' = [hook EXCEPT ![p] = "dropped"]
  /\ UNCHANGED <<atGitHub, record, payload, progress, run, queue, history, crashes>>

-----------------------------------------------------------------------------
(* The job                                                                 *)

\* handle_installation_event and trigger_backfill: the installation's
\* repositories, or as many as GitHub listed.
Enqueue(j, R) ==
  /\ \A k \in Jobs : k < j => phase[k] # "absent"
  /\ R # {}
  /\ Queue!Submit(j)
  /\ payload' = [payload EXCEPT ![j] = R]
  /\ UNCHANGED <<atGitHub, hook, record, progress, run, history, crashes>>

\* In no repository.
Nowhere(r) == [r EXCEPT !.repo = CHOOSE x \in Repos : TRUE, !.page = 0, !.todo = <<>>, !.greet = {}]

Take(w, j) ==
  /\ Queue!Take(j, w)
  /\ run' = [run EXCEPT ![w] =
       [pc |-> "begin", job |-> j, left |-> payload[j], repo |-> CHOOSE r \in Repos : TRUE,
        page |-> 0, todo |-> <<>>, greet |-> {}]]
  /\ UNCHANGED <<atGitHub, hook, record, payload, progress, history, crashes>>

\* Mutant of Fresh: a retry counts on from where the last attempt stopped.
FreshState(w) == [progress[Job(w)] EXCEPT !.state = "running"]

Fresh(w) == [NoProgress EXCEPT !.state = "running"]

\* The handler starts: progress from nothing, then the token or an exception.
Begin(w, token) ==
  /\ At(w, "begin")
  /\ unlisted' = [unlisted EXCEPT ![Job(w)] = {}]
  /\ moved' = [moved EXCEPT ![Job(w)] = {}]
  /\ progress' = [progress EXCEPT ![Job(w)] =
       IF token THEN Fresh(w) ELSE [Fresh(w) EXCEPT !.state = "error"]]
  /\ run' = [run EXCEPT ![w].pc = IF token THEN "repos" ELSE "raised"]
  /\ UNCHANGED <<atGitHub, hook, record, payload, queue, unheard, overtaken, crashes>>

\* Mutant of Snapshot: GitHub's lists of pull requests have no field `merged`.
SnapshotOfFlag(p) == [pr |-> p, seen |-> "open"]

Snapshot(p) == [pr |-> p, seen |-> github[p]]

NextRepo(w, r) ==
  /\ At(w, "repos")
  /\ r \in run[w].left
  /\ run' = [run EXCEPT ![w].pc = "list", ![w].left = @ \ {r}, ![w].repo = r, ![w].page = 1]
  /\ UNCHANGED <<atGitHub, hook, record, payload, progress, queue, history, crashes>>

\* How far down the list the pages before this one reached.
From(w) == (run[w].page - 1) * PerPage

Page(w) ==
  LET all == In({run[w].repo})
      upto == IF From(w) + PerPage < Cardinality(all) THEN From(w) + PerPage
              ELSE Cardinality(all)
  IN  [i \in 1..(upto - From(w)) |-> Snapshot(CHOOSE p \in all : updated[p] = From(w) + i)]

\* A page that is not full is the last, and so is the one that reaches max_prs.
LastPage(batch, listed) == Len(batch) < PerPage \/ Len(listed) >= MaxPRs

\* The next page of list_recent_prs, as the pull requests are by now.
ListPage(w) ==
  LET listed == run[w].todo \o Page(w)
      last == LastPage(Page(w), listed)
  IN  /\ At(w, "list")
      /\ unlisted' = IF ~last THEN unlisted ELSE [unlisted EXCEPT ![Job(w)] = @ \cup
           {p \in In({run[w].repo}) : updated[p] > MaxPRs}]
      /\ run' = [run EXCEPT
           ![w].todo = SubSeq(listed, 1, IF Len(listed) < MaxPRs THEN Len(listed) ELSE MaxPRs),
           ![w].page = IF last THEN 0 ELSE @ + 1,
           ![w].pc = IF last THEN "prs" ELSE "list"]
      /\ UNCHANGED <<atGitHub, hook, record, payload, progress, queue, moved, unheard, overtaken,
                     crashes>>

\* GitHub refuses it, and the list ends there without a word.
ListRefused(w) ==
  /\ At(w, "list")
  /\ unlisted' = [unlisted EXCEPT ![Job(w)] = @ \cup
       {p \in In({run[w].repo}) : ~InHand(w, p)}]
  /\ run' = [run EXCEPT ![w].pc = "prs", ![w].page = 0]
  /\ UNCHANGED <<atGitHub, hook, record, payload, progress, queue, moved, unheard, overtaken,
                 crashes>>

\* inscribe_pr of the next one, with the threads and files GitHub has of it now: it
\* is recorded, as it was listed ...
RecordPR(w) ==
  /\ At(w, "prs")
  /\ run[w].todo # <<>>
  /\ record' = Stored(Head(run[w].todo).pr, Head(run[w].todo).seen)
  /\ run' = [run EXCEPT ![w].pc = "index", ![w].todo = Tail(@)]
  /\ UNCHANGED <<atGitHub, hook, payload, progress, queue, history, crashes>>

\* ... and when its links, files and text are stored too, counted.
CountPR(w) ==
  /\ At(w, "index")
  /\ progress' = [progress EXCEPT ![Job(w)].captured = @ + 1]
  /\ run' = [run EXCEPT ![w].pc = "prs"]
  /\ UNCHANGED <<atGitHub, hook, record, payload, queue, history, crashes>>

\* Mutant of Open: the open pull requests of the whole installation.
OpenAnywhere(r) == {p \in PRs : github[p] = "open"}

Open(r) == {p \in In({r}) : github[p] = "open"}

\* list_open_prs of the repository: none, if GitHub refuses.
ListOpen(w, answered) ==
  /\ At(w, "prs")
  /\ run[w].todo = <<>>
  /\ run' = [run EXCEPT ![w].pc = "welcome",
                        ![w].greet = IF answered THEN Open(run[w].repo) ELSE {}]
  /\ UNCHANGED <<atGitHub, hook, record, payload, progress, queue, history, crashes>>

\* Mutant of Failed: a repository that fails is skipped.
FailedRepo(w) == [run[w] EXCEPT !.pc = "repos", !.todo = <<>>, !.greet = {}]

Failed(w) == Nowhere([run[w] EXCEPT !.pc = "raised", !.left = {}])

\* post_issue_comment: a comment is counted when GitHub says it is stored.  When
\* its answer is lost, the retry loop sends it again, or is at its end (see Intake).
Welcome(w, p, answer) ==
  /\ At(w, "welcome")
  /\ p \in run[w].greet
  /\ IF answer = "refused"
     THEN UNCHANGED <<updated, greetings, moved>>
     ELSE greetings' = [greetings EXCEPT ![p] = @ + 1] /\ Touch(p)
  /\ progress' = [progress EXCEPT ![Job(w)].posted = IF answer = "created" THEN @ + 1 ELSE @]
  /\ IF answer = "lost"
     THEN /\ Total(unheard, PRs) < MaxUnheard
          /\ unheard' = [unheard EXCEPT ![p] = @ + 1]
          /\ run' \in {run, [run EXCEPT ![w] = Failed(w)]}
     ELSE run' = [run EXCEPT ![w].greet = @ \ {p}] /\ UNCHANGED unheard
  /\ UNCHANGED <<github, hook, record, payload, queue, unlisted, overtaken, crashes>>

RepoDone(w) ==
  /\ At(w, "welcome")
  /\ run[w].greet = {}
  /\ progress' = [progress EXCEPT ![Job(w)].repos = @ + 1]
  /\ run' = [run EXCEPT ![w] = Nowhere([@ EXCEPT !.pc = "repos"])]
  /\ UNCHANGED <<atGitHub, hook, record, payload, queue, history, crashes>>

Finish(w) ==
  /\ At(w, "repos")
  /\ run[w].left = {}
  /\ progress' = [progress EXCEPT ![Job(w)].state = "done"]
  /\ run' = [run EXCEPT ![w].pc = "returned"]
  /\ UNCHANGED <<atGitHub, hook, record, payload, queue, history, crashes>>

\* A call to GitHub or to a store raises: the breaker is open, the connection
\* is lost.  Progress stays as it is.
Raise(w) ==
  /\ run[w].pc \in {"begin", "repos", "list", "prs", "index", "welcome"}
  /\ run' = [run EXCEPT ![w] = Failed(w)]
  /\ UNCHANGED <<atGitHub, hook, record, payload, progress, queue, history, crashes>>

\* mark_done, or mark_error: the whole of it again, while there is an attempt.
Mark(w) ==
  /\ run[w].pc \in {"returned", "raised"}
  /\ Queue!Settle(Job(w), w,
       IF At(w, "returned") THEN "done"
       ELSE IF tries[Job(w)] < MaxAttempts THEN "queued" ELSE "error")
  /\ run' = [run EXCEPT ![w] = Idle]
  /\ UNCHANGED <<atGitHub, hook, record, payload, progress, history, crashes>>

Crash(w) ==
  /\ run[w] # Idle
  /\ crashes < MaxCrashes
  /\ crashes' = crashes + 1
  /\ Queue!Strand(Job(w), w)
  /\ run' = [run EXCEPT ![w] = Idle]
  /\ UNCHANGED <<atGitHub, hook, record, payload, progress, history>>

-----------------------------------------------------------------------------

GitHubStep(p) == Update(p) \/ Merge(p)

HookStep(p) ==
  \/ HookInscribe(p)
  \/ HookFails(p)

WorkerStep(w) ==
  \/ \E j \in Jobs : Take(w, j)
  \/ \E token \in BOOLEAN : Begin(w, token)
  \/ \E r \in Repos : NextRepo(w, r)
  \/ ListPage(w) \/ ListRefused(w)
  \/ RecordPR(w) \/ CountPR(w)
  \/ \E answered \in BOOLEAN : ListOpen(w, answered)
  \/ \E p \in PRs, answer \in {"created", "refused", "lost"} : Welcome(w, p, answer)
  \/ RepoDone(w) \/ Finish(w) \/ Raise(w) \/ Mark(w)

Next ==
  \/ \E p \in PRs : GitHubStep(p) \/ HookStep(p)
  \/ \E j \in Jobs, R \in SUBSET Repos : Enqueue(j, R)
  \/ \E w \in Workers : WorkerStep(w) \/ Crash(w)

Spec == Init /\ [][Next]_vars

-----------------------------------------------------------------------------
(* Properties                                                              *)

\* A job that is done has every pull request of its repositories in the record, but
\* for those GitHub did not list, or may not have, whatever attempts before it left
\* behind.
DoneMeansRecorded ==
  \A j \in Jobs : phase[j] = "done" =>
    \A p \in In(payload[j]) \ (unlisted[j] \cup moved[j]) : record[p] # "none"

\* /v1/backfill/status does not overstate: what a job's progress counts is in the
\* record, but for pull requests listed twice as others were updated meanwhile, and
\* on GitHub; a backfill that says it is done was not, and will not be, sent back.
ProgressIsHonest ==
  \A j \in Jobs :
    /\ progress[j].captured <=
         Cardinality({p \in In(payload[j]) : record[p] # "none"}) + Cardinality(moved[j])
    /\ progress[j].posted <= Total(greetings, In(payload[j]))
    /\ progress[j].state = "done" =>
         phase[j] \in {"running", "done"} /\ progress[j].repos = Cardinality(payload[j])

\* Every attempt of a job may welcome a pull request again, but only once: what is
\* more than that was sent again after an answer that did not arrive.
WelcomesByAttempt ==
  \A p \in PRs : greetings[p] <= unheard[p] +
    Total(tries, {j \in Jobs : RepoOf(p) \in payload[j]})

\* A merge the webhook recorded is in the record for good, unless a backfill had the
\* pull request in hand, listed as open, when it was merged.
MergeKept == \A p \in PRs : hook[p] = "done" /\ p \notin overtaken => record[p] = "merged"

\* memory/graph.py:412 takes "a PR stored without a merge date" for "an abandoned
\* replacement" (and memory/freshness.py:98 for one of the "unmerged PRs").  Checked
\* where nothing is under way and the merge has been handled; does not hold: a
\* backfill erases the date with what it listed before the merge.
UndatedIsUnmerged ==
  \A p \in PRs :
    record[p] = "open" /\ hook[p] = "done" /\ (\A w \in Workers : run[w] = Idle)
      => github[p] = "open"
=============================================================================
