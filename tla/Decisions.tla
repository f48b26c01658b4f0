------------------------------ MODULE Decisions ------------------------------
(***************************************************************************)
(* Which decisions are still in force (memory/graph.py): tables            *)
(* decision_events and decision_links of one scope, written by inscribing, *)
(* and `statuses`, which reads them.                                       *)
(*                                                                         *)
(* The status of a decision is computed when it is asked for, from the     *)
(* component around it.  A read is three statements, each of which sees    *)
(* what is committed when it runs: the walk, the edges between the         *)
(* decisions it reached, and their events.  A read changes nothing, so it  *)
(* is an operator of the snapshots its statements see.                     *)
(***************************************************************************)
EXTENDS Integers, FiniteSets

CONSTANTS
  PRs, Commits,  \* the sources of decisions, numbered in the order of their labels
  MergedAt,      \* when each pull request is merged, or 0 if it never is
  MaxDepth,      \* MAX_DEPTH
  MaxLinks,      \* bound: links a text declares
  MaxEdges       \* bound: links stored

Sources == PRs \cup Commits

Absent == -1   \* the date of a decision that is not ingested
NoDate == 0    \* occurred_at is null: a PR that was not merged, or a commit

ASSUME SourcesAssumption == Sources \subseteq Nat /\ PRs \cap Commits = {}
ASSUME FiniteAssumption == IsFiniteSet(Sources)
ASSUME MergesAssumption == MergedAt \in [PRs -> Nat]
ASSUME BoundsAssumption == MaxDepth \in Nat /\ MaxLinks \in Nat /\ MaxEdges \in Nat

VARIABLES
  event,   \* decision_events: occurred_at of each source, or Absent
  links    \* decision_links

vars == <<event, links>>

\* OVERTURNING.  Plain references are never read for a status and are left out.
Kinds == {"supersedes", "reverts"}

\* What extract_links can return: one link per target, none to itself.
Link == {l \in [from : Sources, to : Sources, kind : Kinds] : l.from # l.to}

\* The backfill stores pull requests that were closed without a merge, too; a
\* commit is stored without a date.
CanBe(s) == {NoDate} \cup (IF s \in PRs THEN {MergedAt[s]} ELSE {})

TypeOK ==
  /\ event \in [Sources -> Int]
  /\ \A s \in Sources : event[s] \in CanBe(s) \cup {Absent}
  /\ links \subseteq Link
  /\ \A l \in links : event[l.from] # Absent
  /\ \A l, m \in links : l.from = m.from /\ l.to = m.to => l = m

Init ==
  /\ event = [s \in Sources |-> Absent]
  /\ links = {}

-----------------------------------------------------------------------------
(* Writes: the first two steps of inscribe_pr and inscribe_commit, each a  *)
(* transaction.  Races on one source are in Canon; here there are none.    *)

\* record_event: an upsert, so a merge that is heard of later brings its date.
Record(s, d) ==
  /\ d # event[s]
  /\ event' = [event EXCEPT ![s] = d]
  /\ UNCHANGED links

\* Mutant of From: the whole scope's edges are deleted.
FromAll(s) == links

\* The edges index_decision deletes.
From(s) == {l \in links : l.from = s}

\* What a text of s may declare.
Declarable(s) ==
  {L \in SUBSET {l \in Link : l.from = s} :
     /\ Cardinality(L) <= MaxLinks
     /\ \A l, m \in L : l.to = m.to => l = m}

\* index_decision replaces the edges of s, after its event was recorded.
Index(s, L) ==
  /\ event[s] # Absent
  /\ Cardinality((links \ From(s)) \cup L) <= MaxEdges
  /\ links' = (links \ From(s)) \cup L
  /\ UNCHANGED event

Inscribe(s) ==
  \/ \E d \in CanBe(s) : Record(s, d)
  \/ \E L \in Declarable(s) : Index(s, L)

Next == \E s \in Sources : Inscribe(s)

Spec == Init /\ [][Next]_vars

-----------------------------------------------------------------------------
(* component                                                               *)

\* A snapshot of the two tables.
Graph == [event |-> event, links |-> links]

\* The decisions next to some of `near`, along overturning edges.
Joined(g, near) ==
  {x \in Sources : \E l \in g.links :
     \/ l.from \in near /\ l.to = x
     \/ l.to \in near /\ l.from = x}

\* The recursive query: everything within MaxDepth steps.
Walk(g, starts) ==
  LET within[d \in 0..MaxDepth] ==
        IF d = 0 THEN starts
        ELSE LET near == within[d - 1] IN near \cup Joined(g, near)
  IN  within[MaxDepth]

\* The second query: overturning edges with both ends reached.
EdgesAmong(g, reached) ==
  {l \in g.links : {l.from, l.to} \subseteq reached}

\* _events: the decisions reached that are ingested.
NodesAmong(g, reached) == {s \in reached : g.event[s] # Absent}

\* Mutant of Component: edges with either end reached, and the events of all
\* their ends.
ComponentEither(walked, linked, dated, starts) ==
  LET reached == Walk(walked, starts)
      edges == {l \in linked.links : l.from \in reached \/ l.to \in reached}
  IN  [edges |-> edges,
       nodes |-> NodesAmong(dated, reached \cup {l.from : l \in edges}),
       date  |-> dated.event]

\* Each statement has its own snapshot.
Component(walked, linked, dated, starts) ==
  LET reached == Walk(walked, starts)
  IN  [edges |-> EdgesAmong(linked, reached),
       nodes |-> NodesAmong(dated, reached),
       date  |-> dated.event]

-----------------------------------------------------------------------------
(* _cyclic_edges and _status                                               *)

\* Whether v is reached from u along edges of E: it is u, or in every set of
\* heads that the edges lead to from u and from the set itself.
Reaches(E, u, v) ==
  \/ u = v
  \/ \A S \in SUBSET {e.to : e \in E} :
       (\A e \in E : e.from \in S \cup {u} => e.to \in S) => v \in S

\* Edges u -> v where v can reach u again.
Cyclic(E) == {e \in E : Reaches(E, e.to, e.from)}

\* Ingested, and not a PR without a merge date.
Credible(c, s) == s \in c.nodes /\ ~(s \in PRs /\ c.date[s] = NoDate)

\* The edges that can overturn a decision.
Counted(c) == {e \in c.edges \ Cyclic(c.edges) : Credible(c, e.from)}

\* The first edge in the order of `overturners`.
Newest(c, E) ==
  CHOOSE e \in E : \A f \in E :
    \/ c.date[f.from] < c.date[e.from]
    \/ c.date[f.from] = c.date[e.from] /\ f.from <= e.from

Status == {"active", "superseded", "reverted", "unknown"}

Overturned(e) ==
  [state |-> IF e.kind = "reverts" THEN "reverted" ELSE "superseded", by |-> {e.from}]

NotOverturned(state) == [state |-> state, by |-> {}]

\* Mutant of Overturns: a chain of replacements brings the first one back.
OverturnsActive(state) == state = "active"

\* Whether a decision in this state overturns: only a revert undoes.
Overturns(state) == state # "reverted"

\* A call of _status: the decisions being visited, and the one it is about.
Calls == (SUBSET Sources) \X Sources

\* What a call returns, when the calls it makes return what `status` says.
Returned(c, counted, status, call) ==
  LET s == call[2]
      seen == call[1] \cup {s}
      live == {e \in counted :
                 /\ e.to = s
                 /\ e.from \notin seen
                 /\ Overturns(status[<<seen, e.from>>].state)}
  IN  IF s \notin c.nodes THEN NotOverturned("unknown")
      ELSE IF live = {} THEN NotOverturned("active")
      ELSE Overturned(Newest(c, live))

\* _status of every decision.
StatusIn(c) ==
  LET counted == Counted(c)
      status[call \in Calls] == Returned(c, counted, status, call)
  IN  [s \in Sources |-> status[<<{}, s>>]]

\* statuses, when its statements see these snapshots.
Answer(walked, linked, dated, s, starts) ==
  StatusIn(Component(walked, linked, dated, starts))[s]

\* The answer about each decision asked for alone, when nothing is written
\* meanwhile.
Told(g) == [s \in Sources |-> Answer(g, g, g, s, {s})]

-----------------------------------------------------------------------------
(* What the answers must be                                                *)

\* Everything downstream of u, found by following the edges of E from it.
Downstream(E, u) ==
  LET after[n \in 0..Cardinality(E)] ==
        IF n = 0 THEN {u}
        ELSE LET S == after[n - 1] IN S \cup {e.to : e \in {f \in E : f.from \in S}}
  IN  after[Cardinality(E)]

\* The rule, over all of g and without a walk: each decision has the state that
\* its newest overturner gives it, of those that are ingested, merged, not on a
\* cycle and not reverted.
Obeys(g, st) ==
  LET Merged(s) == g.event[s] # Absent /\ (s \in Commits \/ g.event[s] # NoDate)
      Counting == {e \in g.links : Merged(e.from) /\ e.from \notin Downstream(g.links, e.to)}
      Live(s) == {e \in Counting : e.to = s /\ st[e.from] # "reverted"}
      First(E) == CHOOSE e \in E : \A f \in E \ {e} :
                    \/ g.event[f.from] < g.event[e.from]
                    \/ g.event[f.from] = g.event[e.from] /\ f.from < e.from
  IN  \A s \in Sources :
        st[s] = IF g.event[s] = Absent THEN "unknown"
                ELSE IF Live(s) = {} THEN "active"
                ELSE IF First(Live(s)).kind = "reverts" THEN "reverted"
                ELSE "superseded"

\* The assignment of states that obeys it.
Declared(g) == CHOOSE st \in [Sources -> Status] : Obeys(g, st)

\* What could have a say in the status of s.
Above(g, s) == {x \in Sources : s \in Downstream(g.links, x)}

\* MaxDepth does not cut the component around s short.
Uncut(g, s) == LET reached == Walk(g, {s}) IN Joined(g, reached) \subseteq reached

\* A decision's status does not depend on which others are asked about with
\* it, nor on where the walk starts, as long as the walk reaches what could
\* have a say: it is the one the rule assigns (_status: a cycle must not
\* "make the answer depend on which one you asked about").
AnswersAgree ==
  LET declared == Declared(Graph)
  IN  \A starts \in SUBSET Sources : \A s \in starts :
        Above(Graph, s) \subseteq Walk(Graph, starts) =>
          Answer(Graph, Graph, Graph, s, starts).state = declared[s]

\* A write that falls between the statements of a read does no harm: the
\* answer is what was true before it or what is true after it, never a mix.
ReadsAreTimely ==
  [][\A g \in {Graph}, h \in {Graph'} : \A s \in Sources :
       Uncut(g, s) /\ Uncut(h, s) =>
         {Answer(g, h, h, s, {s}), Answer(g, g, h, s, {s})}
           \subseteq {Told(g)[s], Told(h)[s]}]_vars

\* The decisions whose status a write changes, unless MaxDepth cuts it short.
Changed(g, h) ==
  {s \in Sources : Told(g)[s] # Told(h)[s] /\ Uncut(g, s) /\ Uncut(h, s)}

\* Whatever is inscribed for a source can only change the status of that
\* source and of what it overturns, directly or in the end: never of what
\* it was overturned by, or of a decision beside it.
ActsDownwards ==
  [][\A g \in {Graph}, h \in {Graph'} : \A s \in Changed(g, h), x \in Sources :
       Inscribe(x) => x \in Above(g, s) \cup Above(h, s)]_vars
=============================================================================
