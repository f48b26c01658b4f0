-------------------------------- MODULE Canon --------------------------------
(***************************************************************************)
(* How a decision gets into memory and is distilled there, for one account *)
(* scope.  Three stores hold it, each written by its own transaction:      *)
(*   decision_events  the raw dated record (memory/episodic.py)            *)
(*   decision_links   the edges read from its text (memory/graph.py)       *)
(*   the vector store the text that search finds (memory/semantic.py)      *)
(* inscribe_pr (retrieval/canon.py) writes them one after the other, from  *)
(* webhooks, backfill jobs and the Scribe API at once;                     *)
(* consolidate_scope (memory/consolidate.py) reads the events nobody has   *)
(* distilled, writes the distilled text over the raw one, and marks them.  *)
(*                                                                         *)
(* A text is a revision number of its source upstream.  A call that raises *)
(* stops where it is: what it has committed stays.                         *)
(***************************************************************************)
EXTENDS Integers, FiniteSets

CONSTANTS
  Sources,       \* decisions of the scope: pull requests and commits
  Inscribers,    \* requests, jobs and commands that may inscribe or re-index
  Consolidators, \* workers that may run a consolidate_memory job
  Links,         \* decisions a text may point at
  LinksOf,       \* the edges extract_links reads from each revision
  Unsummarized,  \* sources for which the summarizer never returns a text
  Batch,         \* settings.consolidate_batch_size
  Threshold,     \* settings.consolidate_after_n_events
  MaxRev,        \* bound: revisions of a source upstream
  MaxWrites,     \* bound: inscriptions and re-indexings started
  MaxFails,      \* bound: calls that raise and summaries that fail
  MaxQueued      \* bound: consolidate_memory jobs waiting at once

ASSUME SourcesAssumption == IsFiniteSet(Sources)
ASSUME LinksAssumption == LinksOf \in [1..MaxRev -> SUBSET Links]
ASSUME UnsummarizedAssumption == Unsummarized \subseteq Sources
ASSUME BatchAssumption == Batch \in Nat \ {0} /\ Threshold \in Nat \ {0}
ASSUME BoundsAssumption ==
  MaxRev \in Nat \ {0} /\ MaxWrites \in Nat /\ MaxFails \in Nat /\ MaxQueued \in Nat

VARIABLES
  event,     \* decision_events: the revision stored, 0 for no row
  rowId,     \* decision_events.id: the order rows were first inserted
  pending,   \* the row exists and consolidated_at is null
  edges,     \* decision_links: rows [to, rev], rev the text they were read from
  memory,    \* the vector store: revision and kind of the text under the source
  ins,       \* per inscriber: the call it is in
  con,       \* per consolidator: the run it is in
  queued,    \* consolidate_memory jobs waiting
  writes,    \* counts against MaxWrites
  fails,     \* counts against MaxFails
  raced,     \* history: a run and an inscription have overlapped on the source
  crossed    \* history: two indexings of the source have overlapped

stores == <<event, rowId, pending, edges, memory>>
history == <<raced, crossed>>
vars == <<stores, ins, con, queued, writes, fails, history>>

Rev == 1..MaxRev
Edge == [to : Links, rev : Rev]
NoText == [rev |-> 0, distilled |-> FALSE]
Item == [src : Sources, rev : Rev]
Pending == {s \in Sources : pending[s]}

\* An inscriber between two calls.  call: inscribe_pr or rebuild_links.
Idle == [pc |-> "idle"]
Writing == [pc : {"record", "remember"}, call : {"inscribe"}, src : Sources, rev : Rev]
ToIndex == [pc : {"index"}, call : {"inscribe", "rebuild"}, src : Sources, rev : Rev]
Indexing == [pc : {"indexing"}, call : {"inscribe", "rebuild"}, src : Sources, rev : Rev,
             dead : SUBSET Edge]
Call == {Idle} \cup Writing \cup ToIndex \cup Indexing
Running == [pc : {"running"}, todo : SUBSET Item, done : SUBSET Item]
Run == {Idle} \cup Running

TypeOK ==
  /\ event \in [Sources -> 0..MaxRev]
  /\ rowId \in [Sources -> Nat]
  /\ pending \in [Sources -> BOOLEAN]
  /\ edges \in [Sources -> SUBSET Edge]
  /\ memory \in [Sources -> [rev : 0..MaxRev, distilled : BOOLEAN]]
  /\ ins \in [Inscribers -> Call]
  /\ con \in [Consolidators -> Run]
  /\ queued \in Nat
  /\ writes \in 0..MaxWrites
  /\ fails \in 0..MaxFails
  /\ raced \in [Sources -> BOOLEAN]
  /\ crossed \in [Sources -> BOOLEAN]

Init ==
  /\ event = [s \in Sources |-> 0]
  /\ rowId = [s \in Sources |-> 0]
  /\ pending = [s \in Sources |-> FALSE]
  /\ edges = [s \in Sources |-> {}]
  /\ memory = [s \in Sources |-> NoText]
  /\ ins = [i \in Inscribers |-> Idle]
  /\ con = [c \in Consolidators |-> Idle]
  /\ queued = 0
  /\ writes = 0
  /\ fails = 0
  /\ raced = [s \in Sources |-> FALSE]
  /\ crossed = [s \in Sources |-> FALSE]

-----------------------------------------------------------------------------
(* Who is working on a source                                              *)

\* An inscription that has written the record and not yet the text search
\* finds, a run that has the source in its batch, and an indexing between its
\* delete and its commit.
Inscribing(i, s) ==
  ins[i].pc \in {"index", "indexing", "remember"} /\ ins[i].call = "inscribe" /\ ins[i].src = s
Batched(c) == IF con[c].pc = "idle" THEN {} ELSE con[c].todo \cup con[c].done
Consolidating(c, s) == \E x \in Batched(c) : x.src = s
IndexingOn(i, s) == ins[i].pc = "indexing" /\ ins[i].src = s

Inscribed(s) == \E i \in Inscribers : Inscribing(i, s)
Consolidated(s) == \E c \in Consolidators : Consolidating(c, s)
Indexed(s) == \E i \in Inscribers : IndexingOn(i, s)

-----------------------------------------------------------------------------
(* inscribe_pr and rebuild_links                                           *)

\* A call begins.
Begin(i, s, call, pc, rev) ==
  /\ ins[i] = Idle
  /\ writes < MaxWrites
  /\ writes' = writes + 1
  /\ ins' = [ins EXCEPT ![i] = [pc |-> pc, call |-> call, src |-> s, rev |-> rev]]
  /\ UNCHANGED <<stores, con, queued, fails, history>>

\* Mutant of Fetch: the vector store is written before the record.
FetchRememberFirst(i, s) == \E rev \in Rev : Begin(i, s, "inscribe", "remember", rev)

\* A webhook payload or a backfill's listing has brought a revision of the
\* text, which need not be the newest any more when its call begins.
Fetch(i, s) == \E rev \in Rev : Begin(i, s, "inscribe", "record", rev)

\* rebuild_links has read the stored row and gets to it in its loop.
ReadRow(i, s) == event[s] > 0 /\ Begin(i, s, "rebuild", "index", event[s])

GoTo(i, pc) == ins' = [ins EXCEPT ![i].pc = pc]
End(i) == ins' = [ins EXCEPT ![i] = Idle]

\* Mutant of RecordEvent: the upsert keeps consolidated_at.
RecordKeepsMark(i) ==
  LET s == ins[i].src IN
  /\ ins[i].pc = "record"
  /\ event' = [event EXCEPT ![s] = ins[i].rev]
  /\ rowId' = [rowId EXCEPT ![s] =
       IF event[s] = 0 THEN 1 + Cardinality({r \in Sources : event[r] > 0}) ELSE @]
  /\ pending' = [pending EXCEPT ![s] = @ \/ event[s] = 0]
  /\ GoTo(i, "index")
  /\ raced' = [raced EXCEPT ![s] = Consolidated(s)]
  /\ UNCHANGED <<edges, memory, con, queued, writes, fails, crossed>>

\* record_event: upsert by (scope, source), due for distilling again.  On a
\* source no run is on, what became of earlier calls no longer matters.
RecordEvent(i) ==
  LET s == ins[i].src IN
  /\ ins[i].pc = "record"
  /\ event' = [event EXCEPT ![s] = ins[i].rev]
  /\ rowId' = [rowId EXCEPT ![s] =
       IF event[s] = 0 THEN 1 + Cardinality({r \in Sources : event[r] > 0}) ELSE @]
  /\ pending' = [pending EXCEPT ![s] = TRUE]
  /\ GoTo(i, "index")
  /\ raced' = [raced EXCEPT ![s] = Consolidated(s)]
  /\ UNCHANGED <<edges, memory, con, queued, writes, fails, crossed>>

\* Mutant of IndexDelete: the delete is left out.
IndexNoDelete(i) ==
  /\ ins[i].pc = "index"
  /\ ins' = [ins EXCEPT ![i] = [pc |-> "indexing", call |-> @.call, src |-> @.src,
                                rev |-> @.rev, dead |-> {}]]
  /\ crossed' = [crossed EXCEPT ![ins[i].src] = @ \/ Indexed(ins[i].src)]
  /\ UNCHANGED <<stores, con, queued, writes, fails, raced>>

\* index_decision opens its transaction and deletes the rows it can see:
\* those committed when the delete begins (read committed).
IndexDelete(i) ==
  /\ ins[i].pc = "index"
  /\ ins' = [ins EXCEPT ![i] = [pc |-> "indexing", call |-> @.call, src |-> @.src,
                                rev |-> @.rev, dead |-> edges[@.src]]]
  /\ crossed' = [crossed EXCEPT ![ins[i].src] = @ \/ Indexed(ins[i].src)]
  /\ UNCHANGED <<stores, con, queued, writes, fails, raced>>

\* Rows another transaction committed after this one's delete, and the
\* targets of the rows this one inserts.
Left(i) == edges[ins[i].src] \ ins[i].dead
NewTargets(i) == LinksOf[ins[i].rev]
Conflict(i) == \E e \in Left(i) : e.to \in NewTargets(i)

\* index_decision inserts the new edges and commits.
IndexCommit(i) ==
  LET s == ins[i].src IN
  /\ ins[i].pc = "indexing"
  /\ ~Conflict(i)
  /\ edges' = [edges EXCEPT ![s] =
       Left(i) \cup {[to |-> l, rev |-> ins[i].rev] : l \in NewTargets(i)}]
  /\ ins' = [ins EXCEPT ![i] =
       IF @.call = "rebuild" THEN Idle
       ELSE [pc |-> "remember", call |-> @.call, src |-> s, rev |-> @.rev]]
  /\ UNCHANGED <<event, rowId, pending, memory, con, queued, writes, fails, history>>

\* The insert meets a committed row with its key: the unique violation rolls
\* the transaction back and ends the call.
IndexConflict(i) ==
  /\ ins[i].pc = "indexing"
  /\ Conflict(i)
  /\ End(i)
  /\ UNCHANGED <<stores, con, queued, writes, fails, history>>

\* semantic.remember: the raw text under the source's id.
Remember(i) ==
  /\ ins[i].pc = "remember"
  /\ memory' = [memory EXCEPT ![ins[i].src] = [rev |-> ins[i].rev, distilled |-> FALSE]]
  /\ End(i)
  /\ UNCHANGED <<event, rowId, pending, edges, con, queued, writes, fails, history>>

\* The call raises (a store is down, the process dies) before its next step.
FailWrite(i) ==
  /\ ins[i].pc # "idle"
  /\ fails < MaxFails
  /\ fails' = fails + 1
  /\ End(i)
  /\ UNCHANGED <<stores, con, queued, writes, history>>

-----------------------------------------------------------------------------
(* consolidate_scope on the worker                                         *)

\* The rows `order by id limit Batch` returns.
IsOldest(B) ==
  /\ B \subseteq Pending
  /\ Cardinality(B) <= Batch
  /\ Cardinality(B) < Batch => B = Pending
  /\ \A b \in B, p \in Pending \ B : rowId[b] < rowId[p]

\* Mutant of Due: `having count(*) > %s`.
DueBeyond == Cardinality(Pending) > Threshold

\* scopes_with_pending: enough is pending to be worth a run.
Due == Cardinality(Pending) >= Threshold

\* The worker loop's periodic sweep: a job for the scope if enough is
\* pending, whether or not one is queued or running.
Sweep(c) ==
  /\ con[c] = Idle
  /\ Due
  /\ queued < MaxQueued
  /\ queued' = queued + 1
  /\ UNCHANGED <<stores, ins, con, writes, fails, history>>

\* A worker claims a job and reads its batch: the texts are fixed from here.
\* A run that has a source to itself starts afresh with it; two runs that read
\* the same row do not race.
StartRun(c) ==
  /\ con[c] = Idle
  /\ queued > 0
  /\ queued' = queued - 1
  /\ \E B \in SUBSET Pending :
       /\ IsOldest(B)
       /\ con' = [con EXCEPT ![c] =
            IF B = {} THEN Idle
            ELSE [pc |-> "running",
                  todo |-> {[src |-> s, rev |-> event[s]] : s \in B}, done |-> {}]]
       /\ raced' = [s \in Sources |->
            IF s \in B THEN Inscribed(s) \/ (raced[s] /\ Consolidated(s)) ELSE raced[s]]
  /\ UNCHANGED <<stores, ins, writes, fails, crossed>>

\* The event the loop comes to next.
IsNext(c, x) == x \in con[c].todo /\ \A y \in con[c].todo : rowId[x.src] <= rowId[y.src]

\* The summarizer answers: the distilled text replaces the raw one.
Distil(c) ==
  /\ con[c].pc = "running"
  /\ \E x \in con[c].todo :
       /\ IsNext(c, x)
       /\ x.src \notin Unsummarized
       /\ memory' = [memory EXCEPT ![x.src] = [rev |-> x.rev, distilled |-> TRUE]]
       /\ con' = [con EXCEPT ![c].todo = @ \ {x}, ![c].done = @ \cup {x}]
  /\ UNCHANGED <<event, rowId, pending, edges, ins, queued, writes, fails, history>>

\* The summarizer raises or returns nothing: the event is skipped.
Skip(c) ==
  /\ con[c].pc = "running"
  /\ \E x \in con[c].todo :
       /\ IsNext(c, x)
       /\ IF x.src \in Unsummarized THEN UNCHANGED fails
          ELSE fails < MaxFails /\ fails' = fails + 1
       /\ con' = [con EXCEPT ![c].todo = @ \ {x}]
  /\ UNCHANGED <<stores, ins, queued, writes, history>>

\* The sources mark_consolidated is given: those distilled in this run.
Marked(c) == {x.src : x \in con[c].done}

\* mark_consolidated: by source, whatever text the row has by now.
MarkConsolidated(c) ==
  /\ con[c].pc = "running"
  /\ con[c].todo = {}
  /\ pending' = [s \in Sources |-> pending[s] /\ s \notin Marked(c)]
  /\ con' = [con EXCEPT ![c] = Idle]
  /\ UNCHANGED <<event, rowId, edges, memory, ins, queued, writes, fails, history>>

\* remember or a progress report raises, or the worker dies: nothing is
\* marked.  The queue retries the job, or has lost it with the process.
FailRun(c) ==
  /\ con[c].pc = "running"
  /\ fails < MaxFails
  /\ fails' = fails + 1
  /\ con' = [con EXCEPT ![c] = Idle]
  /\ queued' \in {queued, queued + 1}
  /\ UNCHANGED <<stores, ins, writes, history>>

-----------------------------------------------------------------------------

InscribeStep(i) ==
  \/ RecordEvent(i)
  \/ IndexDelete(i)
  \/ IndexCommit(i)
  \/ IndexConflict(i)
  \/ Remember(i)

ConsolidateStep(c) ==
  \/ Sweep(c)
  \/ StartRun(c)
  \/ Distil(c)
  \/ Skip(c)
  \/ MarkConsolidated(c)

Next ==
  \/ \E i \in Inscribers : \/ \E s \in Sources : Fetch(i, s) \/ ReadRow(i, s)
                           \/ InscribeStep(i)
                           \/ FailWrite(i)
  \/ \E c \in Consolidators : ConsolidateStep(c) \/ FailRun(c)

Spec == Init /\ [][Next]_vars

\* A worker keeps sweeping, claiming and running its jobs to their end, and a
\* summarizer that can answer does so unless it fails (MaxFails times at most).
Fairness ==
  \A c \in Consolidators :
    /\ WF_vars(Sweep(c))
    /\ WF_vars(StartRun(c))
    /\ WF_vars(Distil(c) \/ Skip(c))
    /\ WF_vars(MarkConsolidated(c))

FairSpec == Spec /\ Fairness

-----------------------------------------------------------------------------
(* Properties                                                              *)

\* What "consolidated" means: the text search finds is the distillation of the
\* text the row holds, through failures at every step of either call, late
\* listings, inscriptions that overtake each other and any number of runs at
\* once.  Left out is a source on which a run and an inscription have
\* overlapped, until the next inscription that meets
\* no run, or run that meets no other call.
ConsolidatedIsDistilled ==
  \A s \in Sources :
    ~raced[s] /\ event[s] > 0 /\ ~pending[s]
      => memory[s] = [rev |-> event[s], distilled |-> TRUE]

\* The edges of s were read from one revision.
OneText(s) == \A d, e \in edges[s] : d.rev = e.rev

\* A re-indexed decision has the edges of one text (index_decision, "replaces
\* its edges rather than accumulating stale ones"), unless two indexings of it
\* have overlapped.
EdgesOfOneText ==
  \A s \in Sources : ~crossed[s] => OneText(s)

\* Whatever search finds has its dated raw record, races and failures or not:
\* inscribe_pr writes the record first, and consolidation only what it read.
FoundIsRecorded ==
  \A s \in Sources : memory[s].rev > 0 => event[s] > 0

\* A backlog that is worth a run does not stay one: the sweep sees to it,
\* although runs fail or are lost with their worker and some events can
\* never be summarized (as long as these are fewer than a batch).
BacklogDrains == (Cardinality(Pending) >= Threshold) ~> (Cardinality(Pending) < Threshold)
=============================================================================
