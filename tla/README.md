# Lore backend: specification

TLA+ models of the Lore backend (`src/lore_backend`), TLC configurations that
check them on small instances, and TLAPS proofs for every value of the
constants. `PROJECT.json` lists the runs, the mutants each property detects, the
source lines each definition stands for, the hazards and the theorems.

    tlc -config JobQueue.cfg MCJobQueue      # a run
    tlapm JobQueueProofs.tla                 # the proofs of a module

## The system

Lore keeps a team's decisions (merged pull requests, commits with a `Why:`) and
answers questions from them. An API process and any number of worker processes
share a Postgres database and a vector store; they have no other connection.

| component | state it keeps | operations | talks to |
|---|---|---|---|
| job queue (`jobs/queue.py`) | table `jobs`: status, attempts, run_after, progress | enqueue, claim_next, update_progress, mark_done, mark_error | everybody who enqueues, the worker |
| worker (`jobs/worker.py`) | its loop, the claimed job, the next sweep | claim, run a handler, mark; sweep for consolidations | queue, handlers |
| handlers (`jobs/handlers.py`, `ingestion/mentions.py`) | progress of the job | backfill, answer a mention, consolidate | GitHub client, canon, agent |
| webhook intake (`api/webhook.py`, `ingestion/webhook_handler.py`, `ingestion/dedup.py`) | table `webhook_deliveries` | verify, deduplicate, inscribe merged PRs, comment on opened ones, enqueue backfills and mentions | GitHub client, canon, queue |
| GitHub client (`ingestion/github_client.py`, `resilience/`) | circuit breaker state, token cache | requests with retry behind one breaker per process | GitHub |
| episodic memory (`memory/episodic.py`) | table `decision_events` with `consolidated_at`; `why_queries` | record_event, pending_consolidation, mark_consolidated | canon, consolidation |
| decision graph (`memory/graph.py`) | tables `decision_links`, `decision_files` | index_decision, rebuild_links, component, status, decisions_touching | canon, decision check, agent |
| semantic memory (`memory/semantic.py`) | a point per (scope, source) in Qdrant or pgvector | remember, search, rename | canon, consolidation, boot |
| consolidation (`memory/consolidate.py`) | none between runs | distil a batch of pending events | episodic and semantic memory, LLM |
| canon (`retrieval/canon.py`) | none | inscribe_pr, inscribe_commit, answer_why | all memories, agent |
| freshness (`memory/freshness.py`, `retrieval/decision_check.py`) | none: reads the graph's tables | judge decisions by later changes of their files; the review queue, the check of a PR | graph, webhook intake, agent |
| agent and guardrail (`agent/`) | state of one answer: messages, hops, evidence | tool loop, citation check | memories, LLM |
| boot (`main.py`, `storage/db.py`) | tables `schema_migrations`, `source_renames` | run_migrations, apply_source_renames | Postgres, vector store |
| access (`auth/`, `storage/queries.py`, `api/deps.py`, `api/v1/`) | tenants, keys, installations, `idempotency_keys`; the limiter's buckets | authenticate, rate limit, get or create a tenant, idempotent replies | Postgres |

What is hard here: several processes act on the same rows with short
transactions, and one logical operation spans several of them and a vector
store; a process can die between any two; GitHub redelivers and edits; a text
read at the start of a long operation (a backfill, a consolidation) is stale
when it is written. `PROJECT.json`, `hazards`, lists each of these at its line
with the property that catches it, or the reason why none does.

Correctness, per component: a job is run by one worker at a time, within its
attempts and after its backoff, and settles; a decision that is marked
consolidated is found by the distillation of its text, an indexing replaces its
edges, and nothing is searchable without a record; a backlog drains; an open
breaker makes no call before its cooldown, and state and count agree whatever
calls are late; a delivery is handled once, is dropped only by a failure, and
the status of a question's job tells what its thread holds; each migration takes
effect once; a text that can be found stays findable through a rename, which
leaves nothing under the old name when it is done (unless its process died or
broke off over it) and puts nothing over a text remembered under the new name
(unless, in Qdrant, it had looked before that was written); a decision's status
is what the rule assigns, from wherever it is asked and whatever is written
meanwhile, and the surfaces that flag it as outdated agree; a backfill that is
done has recorded what it was shown and does not undo what others wrote; an
answer's citations exist, and the agent stops; a caller gets no more than its
rate, and a retried write is not repeated.

## Modules

### JobQueue, JobLifecycle, MCJobQueue, JobQueueProofs

`JobQueue` is table `jobs` and the worker loop. `claim_next` is two actions, as
in the code: `SelectForUpdate` takes the row lock, `CommitClaim` makes the new
status visible; `Locked` is what SKIP LOCKED skips. The handler is
`HandlerEnds`, returning or raising; `MarkDone`, `Requeue` and `GiveUp` are
`mark_done` and the two branches of `mark_error`, by id and without a guard on
the status, as in the code. Proved of it, next to the properties of the run: `OneRunner`
(no two workers on one job) and `AttemptBudget`. `tried` is the `attempts` of the dictionary
`claim_next` returned, which `mark_error` uses instead of the row's. `Crash`
loses what a worker has in memory and rolls its open transaction back;
`Restart` starts `run_forever` again, which does nothing about running rows.
`run_after` is the seconds left until the row is due, and `Tick` lets one pass.

`JobLifecycle` is what the code that enqueues may rely on: one holder at a time,
at most MaxAttempts takings, only the holder settles, and a job its holder
dropped is never taken again. Locks, backoff and claiming order are hidden; the
refinement maps a job's holder to the set of workers that are past the claim's
commit.

### Canon, MCCanon, CanonProofs

One account scope. A text is a revision number of its source, which `Fetch`
brings (a webhook payload, or the listing of a backfill): any revision, since it
is held until the call gets to its record, and others may have written newer
ones by then. A call of `inscribe_pr` or `inscribe_commit` is `RecordEvent`,
`IndexDelete` + `IndexCommit` (one transaction of several statements under read
committed: rows committed after its delete began survive it, and a colliding key
fails it, `IndexConflict`), `Remember`. `rebuild_links` is `ReadRow` and the
indexing alone. `FailWrite` ends a call between any two steps. A worker's sweep,
its claim of a consolidation job with the reading of the batch, and each event
of the batch are steps (`Sweep`, `StartRun`, `Distil`, `Skip`), and so is the
marking. `FailRun` is an exception or the death of the worker, after which the
job may or may not come back. The queue is reduced to the number of waiting
jobs: `JobQueue` says what it does with them.

The code has no defence against two kinds of overlap on one source (see
Disagreements). Two history variables, which no guard reads, keep the rest apart
from them. `raced[s]`: a run of consolidation that has s in its batch and an
inscription between its record and its text have overlapped. It is set by
whichever comes second, `RecordEvent` or `StartRun`, and cleared by the next
`RecordEvent` that meets no run or `StartRun` that meets no other call: the row
is pending then, and a run will read it anew. Neither two runs at once, nor two
inscriptions at once, nor a listing that is written long after it was fetched
count as a race. `crossed[s]`: two indexing transactions have overlapped.
ConsolidatedIsDistilled and EdgesOfOneText are stated for sources that are not
raced, or not crossed, through all failures; `FoundIsRecorded` and
`BacklogDrains` for all.

### CircuitBreaker, MCCircuitBreaker, GitHubProofs

One process, whose threads share the GitHub client's breaker. Each method of
the breaker holds its lock from beginning to end, so it is one step: `Enter` is
`call` up to the request (with the `state` property's change to half open),
`OnSuccess` and `OnFailure` report. Between them the lock is free: `Attempt` is
one round of `retry.py` around `requests`, and calls that began in an earlier
state of the breaker report late. `openFor` is the time since `_opened_at` in
seconds, up to the cooldown; failures count up to one more than the threshold,
since the code compares them with the threshold only. `Weather` lets GitHub
answer, fail with an exception, or answer 5xx. A 5xx that lasts is returned and
not raised by the retry loop, so it counts as a success (`Result`): such an
outage never opens the breaker, which is why OutageIsCutOff is about exceptions.

### Intake, MCIntake, IntakeProofs

A delivery from the webhook to its effect. The webhook is a coroutine that does
not await anything after the request's body, so one API process handles one
delivery at a time and `Receive` to its end is a sequence of steps of one
server; several servers interleave. Recording the delivery id is one step:
`ON CONFLICT DO NOTHING` waits for a concurrent insertion of the same id. What
follows depends on the kind of event: a merged pull request is inscribed
(`Inscribe`, see `Canon`), a question or an installation becomes a job
(`EnqueueJob`), an opened pull request gets a comment. `PostAttempt` is one HTTP
attempt of a comment, by a server or a worker; GitHub may store the comment and
its answer be lost, and then the retry loop posts again. The queue is
`JobLifecycle`, instantiated: `JobQueue` is proved to implement it, so nothing
of the queue is repeated here. `TakeJob`, `Answer`, `PostAttempt`, `MarkJob` are
the worker with a question. Backfill jobs stay queued (see `Backfill`).

GitHub may deliver an event any number of times up to a bound, at any time.
Signatures are valid, the mode is live, the App is configured; a delivery
without an id, which is never recorded, is left out. `unheard` (comments stored
whose answer was lost) and `failed` (events whose handler raised or process
died) are history variables that the properties use.

### Boot, MCBoot, BootProofs

What every process does before it serves. `Start` reads which migrations are
recorded, and the process goes on with that list. `Migrate` is one file's
transaction; when its name is there already, the insert raises, the file's
statements are rolled back and the exception ends the process
(`MigrateRaises`). Migration 0004 leaves a row in `source_renames` per renamed
decision. `SelectRenames` is `apply_source_renames` up to the locks,
`CommitStamps` the commit of the stamps, `OpenStore` or `OpenRaises` the
`get_store()` after it. Then row by row: in Qdrant `Look`, `Copy` and
`DeleteOld`, three requests; in pgvector `Look` and `MoveRow`, where a row under
the new id that appeared in between collides with the unique key (`Collides`).
A request that raises leads to `Unstamp`; `UnstampRaises` and `OpenRaises` are
outside the loop's try, so the process goes on to serve with the rest of its
batch stamped. `Remember` is a serving process that inscribes a decision under
its new name; `Stop` is a death at any point.

The first `Renaming - 1` files or fewer may be applied before the first start.
Not every renamed decision has a point: mock mode writes none. `ran` (how often
a file took effect) and `abandoned` (renames stamped by a process that died or
broke off) are history variables that the properties use.

### Decisions, MCDecisions, DecisionsProofs

Which decisions hold. The tables are written by `Record` and `Index`, the first
two transactions of an inscription; races between two inscriptions of one source
are `Canon`'s. A read changes nothing and has no memory of its own, so it is an
operator: `Answer(walked, linked, dated, s, starts)` is what `statuses` says of
`s` when its three statements see these snapshots. `Walk` is the recursive query
(a path that avoids its own nodes reaches the same decisions, at the same least
depth, as one that may come back), `Cyclic` and `StatusIn` are `_cyclic_edges`
and `_status`. `StatusIn` takes the newest of the live overturners where the
code goes through them in order. A seed decision is stored like a commit,
without a date. Plain references play no role in a status.

`Declared` is the reference: it follows the rule over the whole graph, without a
component, a walk or a recursion, as the one assignment of states that agrees
with the rule everywhere; its cycles are found by following edges, those of
`Cyclic` by closed sets. A statement about an answer presumes that MaxDepth did
not hide what could have a say (`Above`), or did not cut the component short
(`Uncut`).

### Freshness, MCFreshness, DecisionsProofs

What the code says about a decision that nobody overturned. It extends
`Decisions`, its state and its two writes, with plain references, which overturn
nothing but count as "says something about it" here, and with the files each
decision touched or removed. `RecordEvent` and `IndexDecision` are the two
writes; `IndexDecision` replaces links, mentions and files together, as the
transaction of `index_decision` does. The reads are
operators again: `Later` is the second query of `freshness()`, `Total` the
first, `Outdated` is `_judge`, with the two thresholds of the settings as
constants (the share in percent). `Queue` is `stale_decisions`, `Note` what
`decision` says of one, `Touching` is `decisions_touching`, `Check` the decision
check of a pull request with its ranking and limit. All statements of one read
see one state here; `ReadsAreTimely` in `Decisions` is about reads that do not.

PromiseIsKept presumes that MaxDepth cuts neither walk short (`Uncut`). Without
that it is false: when a pull request supersedes a decision and is reverted, and
that revert is reverted in turn, a walk of two steps from the decision stops
before the last of them, so the decision counts as in force again, although one
from the pull request says that it holds.

### Backfill, MCBackfill, GitHubProofs

A job of `handle_backfill_installation` against GitHub. `github`, `updated` and
`greetings` are GitHub's: which pull requests are merged, where each is in the
list of its repository, the last updated first, the welcome comments on each.
`run[w]` is the handler's local state: the repositories left, the page it reads
next, the pull requests it has listed (`todo`, each with the version it was
listed with) and those it has still to welcome. `ListPage` is one request of
`list_recent_prs`; between two of them a pull request may be updated, move to
the first page, and shift the rest, so that it is missed and another listed
twice. `RecordPR` and `CountPR` are the two ends of `inscribe_pr` (`Canon` has
what is between them), `ListOpen`, `Welcome` and `RepoDone` the rest of the
loop, `Begin` and `Finish` its ends. `Raise` is any call that raises; `Mark` is
the worker's `mark_done` or `mark_error` after it, and a retry starts from
nothing. The queue is `JobLifecycle`, instantiated, as in `Intake`.
`HookInscribe` is the webhook of a merge, which writes the same row; `HookFails`
its failure, after which the delivery is lost (`Intake`).

History variables: `unlisted` (what a job's lists left out, because GitHub
refused a page or `max_prs` was reached), `moved` (pull requests updated while
the job read their repository's list past its first page), `unheard` (comments
whose answer was lost), `overtaken` (pull requests merged while a worker had a
list from before). The code knows none of them; the properties say that nothing
else goes wrong.

### Agent, MCAgent, AgentProofs

One question. The actions are the nodes of the graph in `agent/graph.py`:
`Reply` and `ReplyFails` are `agent_node` with `route`, one action per tool
(each ends in `Collect`, the collector's `add_hit`), `ToolsEnd` the end of
`tools_node`, `Guardrail` the last node; `RunFails` is the exception handler of
`run`. The `Pipeline...` actions are the other path of `answer_why`, and
`RecordQuery` ends both. The model may write and call anything; a tool returns
any set of labels of its kind.

Labels are sequences of tokens, because the matching of citations is about where
a number begins and ends: words are one token, digits and `#` one each. `Refers`,
`Unqualified`, `Carriers` and `Meant` are `_match`, `Judge` is `check`. The model
takes any of the sources a citation can be taken for where the code takes the
first in order of retrieval.

### Access, MCAccess, AccessProofs

What happens around a write a client may ask for twice. `Arrive` reads the clock
before the lock, `Allow` is the rest of the limiter under it, so requests may
enter with older times than the bucket's last refill; tokens are counted in
fractions that keep them integers. `Look`, `Inscribe`, `Store` are POST
/v1/inscribe under an `Idempotency-Key`, `Fails` an exception or a lost write
after the commit is recorded. `SelectTenant` and `CreateTenant` are the two
statements of `get_or_create_tenant_for_account`. `Crash` restarts the process:
its buckets are new, what is in Postgres stays. `from`, `upto`, `admitted` are
an observer that starts to count at any request; `writes`, `lost` and `minted`
are history as well.

## Runs

| run | instance | shows |
|---|---|---|
| `job_queue` | 2 workers, 3 jobs, each of a type the worker handles or of another, 2 attempts, 1 crash | OrphansAreCrashes, BackoffHonoured; EverySettles; refinement of JobLifecycle (which includes one holder at a time and the attempts) |
| `canon` | 2 sources, of which one can never be summarized, 2 inscribers with 3 calls, 1 consolidating worker, batch and threshold 2, 2 revisions, 2 failures | ConsolidatedIsDistilled, EdgesOfOneText, FoundIsRecorded; BacklogDrains |
| `circuit_breaker` | 3 threads, threshold 2, cooldown 2 seconds, 2 attempts | StateMatchesCount, CooldownIsWaited; Recovers, OutageIsCutOff |
| `intake` | 2 events of any kind, each delivered twice, 2 servers, 1 worker, 2 job attempts, 2 HTTP attempts, 1 crash | HandledOnce, DroppedOnlyByFailure, RepostsAreUnheard, StatusTellsThread; QuestionSettles |
| `boot` | 2 processes with 2 starts, 3 migrations, 2 renames, batches of 2, either store | MigratedOnce, OneMover, StampedIsMoved, NeverUnfindable, FreshStays |
| `decisions` | 3 pull requests, of which 2 are merged, and a commit, each ingested or not, up to 3 links, walks of 2 steps | AnswersAgree, ReadsAreTimely, ActsDownwards |
| `freshness` | 3 pull requests merged on 2 days, 2 files, up to 3 rows of files and 1 link or mention | FilesTypeOK, SurfacesAgree, PromiseIsKept, JoinsForAReason |
| `backfill` | 1 worker, 1 job of 2 attempts, 2 repositories (one without pull requests), 2 pull requests, pages of 1, 1 lost answer, 1 crash | TypeOK, DoneMeansRecorded, ProgressIsHonest, WelcomesByAttempt, MergeKept |
| `backfill_merge` | the same, no crash | **violation** of "a PR stored without a merge date ... an abandoned replacement": a merge date is erased by a backfill that listed the pull request before |
| `agent` | 4 labels (one number in two repositories, two numbers that share a digit, a repository whose name ends in a digit, a commit), 10 citations, 2 hops of 2 calls, 2 results each, 2 citations in a text | CitationsAreGrounded, ReturnedCanBeCited; AnsweredInTheEnd |
| `agent_citations` | the same | **violation** of "accepted only when exactly one retrieved source carries #482": a digit at the end of a repository's name hides the second |
| `access` | 2 threads, 1 caller, 1 key, 3 requests a minute of 2 ticks, 3 ticks, 1 key minted, 1 restart | WindowBudget, OnlyRacersRepeat |

The type invariants of the other modules are proved (see Proofs) rather than run.

Bounds. Two workers are enough for every pairwise race of the queue, and the
proofs hold for any number. Two attempts give a retry and a final failure;
backoffs of 2 and 4 seconds are long enough for another claim in between. Two
sources give a batch in which one event is skipped and one is distilled; three
calls give two that overlap and one before or after; a second worker does not
fit (five minutes), and that two runs agree is proved; two failures anywhere
reach each partial write. Batch and threshold of two make the threshold's
boundary reachable. Of three threads two can be late while the third probes; a
threshold and a cooldown of two have a value on either side of each comparison.
In `intake`, two events of independent kinds give every pair; two copies and two
servers give the race for one delivery id; no more than two jobs can arise, so
`MaxJobs` 3 is never reached; one worker suffices since the queue gives a job to
one at a time, and the proofs hold for any number. In `boot`, two processes with
two starts each give a boot against a boot, against a serving process and after
a death; the files before, at and after migration 0004 are one each; two renames
give one that is done and one that is left. In `decisions`, four decisions and
three links give a revert of a revert, two overturners of one decision of which
one is reverted, a circle with something hanging on it, and a chain that is
longer than a walk of two steps, which stands for the code's ten; two pull
requests are merged on the same day, so that their labels decide which is newer,
and the commit has the greatest label and, without a date, counts as the oldest.
In `freshness`, three decisions are the one judged, and two later ones, which
churn needs; two files give a share of one half, the threshold, and one that is
removed; with one link at a time (longer chains are `decisions`', and do not fit
here) a later change is linked or not. In `backfill`, a page of one and two pull
requests make the list shift between pages; the second repository is where a job
can fail with the first done, and two attempts give a retry after each failure
and a final error; a second worker could not take the only job, except after a
crash, when nobody takes it. In `agent`, the labels are those between which the
matching has to tell; two hops of two calls give a second round after a first
and the cap after that, with calls pending. In `access`, a bucket of three, with
one and a half more each tick, leaves fractions, and three ticks are longer than
a minute; two threads are the race, and the proofs hold for any number.

Symmetry (all of it in runs without a liveness property): the pull requests of
`backfill`, the processes and the renames of `boot`, the files of `freshness`, the
threads of `access`; nothing in them tells one from another.

`job_queue`, `canon`, `intake`, `boot`, `backfill`, `agent` and `access` terminate
(their counters are bounded, or the answer is given), so deadlock is not checked
there; the breaker and the graph never stop, and there it is.

Fairness. `JobQueue`: a worker's loop and its restart are weakly fair, and time
passes. The loop has no wait other than the poll's sleep, and handlers end since
each HTTP call has a timeout (`http_timeout_seconds`); restarting is what the
supervisor of the process is for, and the docstring presumes it. No handler is
assumed to succeed. `Canon`: a worker sweeps, claims and works through its
batch; `Distil \/ Skip` together are fair, so nothing is assumed about the
summarizer, which may refuse one source for ever. Inscriptions are not fair: a
call may stop anywhere. `CircuitBreaker`: time passes, a call ends (requests
have a timeout), and calls keep being made, as long as webhooks and jobs come;
without the last a breaker stays open for want of a caller. `Intake`: a server
goes on with what it handles and a worker with what it took or can take;
nothing is assumed about what GitHub delivers or answers. `Agent`: every step is
the program's own, and a call of the model, of GitHub or of a store returns or
times out, so the run as a whole is weakly fair; nothing is assumed about what
the model asks for. `Boot`, `Decisions`, `Freshness`, `Backfill` and `Access`
state safety only and need no fairness.

## Proofs

`JobQueueProofs` (any workers, jobs, attempts, crashes): type correctness; no
two workers on one job; attempt budget; settled jobs stay settled; the backoff
is waited; and the refinement `Spec => Lifecycle!Spec`. The inductive invariant
adds to the properties what links worker and row: a worker's `job` points at a
row exactly when its phase says so (`Pointers`), the row of an open claim is
still queued with one attempt less than the claim carries (`Claims`, which is
what the lock is for), and only queued rows wait (`Waiting`). The refinement
then needs one case per action: `CommitClaim` is `Take`, the three marks are
`Settle`, `Crash` of a busy worker is `Strand`, the rest is hidden.
OrphansAreCrashes counts: a step of a worker makes no orphan, unless it is a
crash, which makes one at most (`NoNewOrphans`, `OrphanStep`).

`CanonProofs` (any sources, inscribers, workers, batch and bounds): type
correctness, FoundIsRecorded, ConsolidatedIsDistilled and EdgesOfOneText.
`HasRow` (rows are never deleted, and writers of text wrote or read the row
first) gives FoundIsRecorded without any assumption on races. `Settled` is what
holds of a source that is not raced: an inscription between its record and its
text finds the row pending and no run on it, and every run with it in its batch
holds the row's revision, and has put its distillation where search finds it
once it is done with it. So two runs write the same, a mark finds the distilled
text, and an inscription that writes its text late writes it over a row that is
still due. `Uncrossed` is what holds of a source without overlapping indexings:
at most one is between its delete and its commit, and it has deleted every edge
there is. A step elsewhere changes nothing here (`SettledElsewhere`,
`UncrossedElsewhere`), so each action has one case about its own source.

`GitHubProofs`, on `CircuitBreaker` (any threads, threshold, cooldown and
attempts): type correctness, StateMatchesCount and CooldownIsWaited. The invariant
adds what the two time stamps have to do with each other: a breaker that has
opened did so, for the last time, at the last failure reported (`OpenSinceFail`; a
late failure restarts the cooldown), and one that is half open has cooled
(`HalfOpenCooled`).

`GitHubProofs`, on `Backfill` (any workers, repositories and pull requests,
finitely many of each, any page, `max_prs`, attempts and bounds): all the
properties of the run `backfill`, type correctness among them. `Basics` is the
ground: a worker that is not idle is its job's only holder, holds nothing that is
not of the repository it is in (`Works`), and a list it reads has as many as the
pages before this one (`Paging`), which is what lets `ListPage` add a page where
the list stood (`AfterListed`). To it each property adds what a worker in the
middle of its job promises:

- MergeKept: what a worker holds as open is open or was overtaken (`Keeps`).
- TypeOK and the last part of ProgressIsHonest: progress counts the repositories
  the worker has left behind (`Reports`), and, when nobody runs the job, says done
  only if the job is (`Truthful`). Only that bounds the count, so even the type of
  `progress` needs it: a retry has to start from nothing.
- DoneMeansRecorded: a list holds all that it has come past, but for what moved
  (`Lists`; an update shifts others down, never up past the reader), and what a
  repository has is recorded or in hand (`Captures`). A worker that has returned
  has everything recorded.
- the counts of ProgressIsHonest: what is counted and in hand is never more than
  what is recorded or in hand, and what moved (`Tallied`). When a list ends, each of
  its places is that of a pull request the worker holds, or of one that moved
  (`ListEnds`): this is why one allowance for each that moved is enough, however
  many others it shifts. `Covered` carries it past the end of the attempt.
- WelcomesByAttempt: an attempt that may still welcome a pull request owes it one
  (`Owing`), so the comments and the welcomes owed never exceed the attempts and
  the lost answers (`Welcoming`).

A step of another worker, of GitHub or of the webhook leaves a worker's job alone,
but for the order of its list (`Elsewhere`); the `Goes` lemmas say once where each
action takes its worker, so the proof of each part has one case per action.

`IntakeProofs` (any servers, workers, events and bounds): type correctness,
HandledOnce, DroppedOnlyByFailure, RepostsAreUnheard and StatusTellsThread. A
server that handles an event knows that it is recorded and had no effect yet
(`Handles`), and no two servers handle one event (`Apart`, what the ledger is
for); so its effect is the first, and jobs are about different events
(`JobsApart`). A worker with a job is its only holder (`Works`), so the comments
of a question's thread are its own and those of earlier attempts, all unheard:
otherwise the job would be done (`JobTold`). As in `Canon`, a step elsewhere
changes nothing here (`ServerElsewhere`, `WorkerElsewhere`), and each action is
then checked for its own event and job.

`BootProofs` (any processes, migrations, renames and batch): type correctness,
MigratedOnce, OneMover, StampedIsMoved, NeverUnfindable and FreshStays. A file
that a process thinks missing may be recorded, but one it does not is recorded
(`Missing`), and a recorded file ran once; a row that a process has in hand is
stamped, or is being stamped under its lock (`Hands`), and no two processes have
the same (`Apart`). As before, a step of another process changes nothing here
(`Elsewhere`); the store's properties then need one case per request.

`DecisionsProofs` (any decisions, any graph, any depth, any files and thresholds;
of the decisions and the files only that they are finitely many) proves all the
properties of `Decisions` and `Freshness`. The type invariants are inductive as
they stand: the stored graph is well formed. All else is a fact about a graph
that is, so it is proved of graphs, once, and the theorems only add the
invariant.

- The recursion. That `_status` recurses along edges without a cycle is
  RecursionEnds (what is reached along fewer edges is reached along more,
  `ReachesGrows`, so an edge on no cycle of the component is on none of the edges
  that count). That it returns at all is `StatusReturns`: the function its
  definition picks out exists, since iterating the body changes nothing any more
  once a call has no decision left to come to. StatusByNeighbours then says what
  it computes without the recursion: the set `visiting` never decides an answer,
  in a cut component neither (the comment at graph.py:434 has it guard the depth
  cap). `NothingBehind` is the induction: of any set of decisions one has no
  edge that counts from another of them.
- What a status depends on. Two components that agree in what leads to a
  decision give it one status (`StatusAlike`): an edge that leads there lies on a
  cycle in both or in neither. So a component that holds what could have a say
  tells what the whole graph does (`ComponentTells`), and the whole graph obeys
  the rule, which nothing else does (`StateFollows`, `OneStateFollows`). That is
  AnswersAgree.
- Reads and writes. A write of a source replaces its date or its edges. If dates,
  every walk and edge stays, and an answer is the one after the write; if edges,
  an answer from the old walk is the old one, unless the walk reached the source,
  and then it holds everything with a say over the new edges, too (`ReadsInTime`).
  A write of a source that has no say in a decision, before or after, leaves all
  that has one as it was (`ChangesBelow`).
- The surfaces. What is outdated has a date and a file, so it has been judged
  (`OutdatedIsJudged`), and nothing ranks before itself, so a limit of all shows
  all (`AllAreShown`): SurfacesAgree. A declared overturner that counts and is not
  reverted leaves no way to be active (PromiseIsKept). If no row of those that
  outdate a decision was rewritten they outdated it before (`OutdatedBefore`):
  JoinsForAReason.

The provers cannot instantiate an induction theorem whose parameter is an
operator. The inductions here are over sets instead: a set of finite sets has a
least member (`SmallestSet`), and a set that has 0 and each next number has all
(`NatsByInduction`); the walk and `Downstream`, which are recursive functions,
unfold by iterating a function (`Iterates`).

`AgentProofs` (any labels, any digits, any number of hops, calls and results):
type correctness, CitationsAreGrounded and ReturnedCanBeCited. Half of it is about
labels: of two labels of which one starts the other and does not stop within a
number, each number of the shorter is one of the longer (`WholeKeepsNumbers`); a
label that ends in an unqualified number, with no digit before it, carries it
(`SuffixIsNumber`, `UnqualifiedNumbers`); so what a citation is taken for shares
its numbers (`MeantShares`), and a label is always taken for itself at least
(`LabelMeansItself`). The invariant adds to the types what is known at
each node (`Reported`: `retrieved` is `hits` once a round has ended, so it lags by
the round in progress alone, and there is a verdict exactly when the question is
answered) and that a verdict of the guardrail is its judgement of the text that
is sent (`Judged`).

`AccessProofs` (any threads, callers, keys, capacity and period): type correctness,
WindowBudget and OnlyRacersRepeat. The bucket's invariant is that what an
observer has counted and the tokens that are left never exceed a full bucket and
the gain from the first to the last time read (`Bucket`): a request with an
older time takes tokens back and sets the clock of the bucket back by the same
amount, so that the next one gains only what was taken (`PaysOn`,
`LaterAllowsMore`). For the keys, before a response is stored every write
under a key is one whose response was lost or one whose thread is about to store
it, and afterwards the writes and the threads still to write are at most one per
thread and the lost ones (`WritesOf`; `Tenants` says the same of the accounts);
the steps differ by one element of a finite set (`OneMore`).

Every safety property that a passing run checks is proved. Only model-checked are the
liveness properties EverySettles, BacklogDrains, Recovers, OutageIsCutOff,
QuestionSettles and AnsweredInTheEnd, which need fairness and are out of the
prover's reach.

## Disagreements

Where the code does something else than a docstring, a comment or a document
says. Two are shown by runs of their own, `agent_citations` and
`backfill_merge`. The rest are visible in the models, whose properties are
stated around them:

- A job whose worker died stays `running` for ever: `claim_next` (queue.py:43)
  selects queued rows only, where the docstring says a running job "just gets
  picked up again" (queue.py:8). `Crash` and `Restart` in `JobQueue`; EverySettles
  leaves out jobs that a crash stranded.
- An event that is re-ingested between a consolidation's read and its mark is
  marked with the distillation of its old text (consolidate.py:106), where
  "a PR whose body changed needs distilling again" (episodic.py:31).
  `raced` in `Canon`. In the same overlap the other way round, a
  run that reads a row before its inscription has written its text is undone by
  it: the raw text replaces the distilled one of a row that is marked.
- Two indexings of a decision at once leave the edges of both texts (graph.py:55),
  or the second fails on an edge of the first, where an edited pull request
  "replaces its edges rather than accumulating stale ones" (graph.py:48).
  `crossed` in `Canon`.
- After the cooldown any number of callers go through a half open breaker
  (circuit_breaker.py:53), where "exactly one" should (line 6). `Enter` in
  `CircuitBreaker`.
- A reply whose POST timed out after GitHub stored it is posted again
  (retry.py, and the queue), where it should be "never posted twice"
  (mentions.py:110). RepostsAreUnheard in `Intake` is what does hold.
- When the vector store cannot be opened, the renames of the batch stay stamped
  (semantic.py:366), where one that fails "is un-stamped and retried on the next
  start" (line 345). `abandoned` in `Boot`.
- A reverted decision that a newer one supersedes overturns again (graph.py:437),
  where it should not count once "itself reverted" (line 9). `Overturns` in
  `Decisions`.
- An answer in a run that was out of hops goes through the guardrail like any
  other (graph.py:135), where "exceeding the cap is a hard failure, not a degraded
  answer" (docs/adr/0001, decision 2). `Reply` in `Agent`.
- `decisions_for_path` names what overturned a decision without collecting it
  (tools.py:272), where the decisions the two tools name "are added to the
  collector" (ARCHITECTURE.md:156): a citation of the overturner is then rejected.
  ReturnedCanBeCited is about what was collected.
- A citation that is shorter than a label may stop before the end of its id when
  it ends in a digit and what follows is no digit: "[commit 1]" is taken for
  `commit 1a2b3c4` (guardrail.py:125, "must still carry its whole id"). `Refers`
  in `Agent`; CitationsAreGrounded is about numbers after a `#`.
- `inscribe_pr` is to "store a merged PR's discussion" (canon.py:95); the backfill
  calls it for open and closed ones as well. `Version` in `Backfill`.
- `create_key` should create a tenant "if needed" (keys.py:90) and creates one
  for each key. `minted` in `Access`.

## Not modelled, and why

Text: link extraction, prompts, rendering, reranking and similarity scores. Text
contents are revisions or versions, and links are a constant of each revision.
Metrics, tracing, logging, the evaluation scripts, the Kafka example and the web
console have no state the rest depends on; the read endpoints forward to what is
modelled.

- Threads and files of a pull request, and that `fetch_pr_files` answers with an
  empty list when GitHub refuses, which deletes the recorded ones
  (github_client.py:257): `Freshness` takes files as inscribed, `Backfill` leaves
  them out.
- The cache of installation tokens: an entry is replaced by a later one and
  read with a margin of two minutes; a lost update costs a request.
- `post_comment` of the agent: `run` is never called with `allow_writes`.
- Revocation, `touch_api_key`, keys of the environment, and how a key becomes a
  scope: single statements.
- Mock mode, `ingest_seed` (an operator's command over a fixed corpus), and
  prompt files.
- Edits of a pull request's text in `Backfill`, which tells only merged from
  open; texts and their order are `Canon`'s.
- A delivery without an id, and invalid signatures.
- Two sources whose names map to one document in pgvector (semantic.py:60): names
  are abstract.

## Plan

What would come next: the files of a decision in `Canon`, with refused requests,
so that DoneMeansRecorded covers them; and a proof that a run of the agent takes a
bounded number of steps, as a variant of its hops and calls, which is safety where
the liveness property is not within reach.
