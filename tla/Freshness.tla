------------------------------ MODULE Freshness ------------------------------
(***************************************************************************)
(* Has the code moved on from a decision nobody overturned                 *)
(* (memory/freshness.py), and what the reading surfaces make of it: the    *)
(* review queue, the decision check of a PR, and the answer about one      *)
(* decision (memory/graph.py).  Extends Decisions, which decides who is in *)
(* force, by the files a decision touched and the plain references, which  *)
(* count here although they overturn nothing.                              *)
(*                                                                         *)
(* As in Decisions a read is an operator of the tables; here all of its    *)
(* statements see one state of them.                                       *)
(***************************************************************************)
EXTENDS Decisions

CONSTANTS
  Paths,       \* the files of the repository
  Dir(_),      \* the directory of a path; Root for a file at the top
  Root,
  MinShare,    \* stale_min_file_share, in percent
  MinLater,    \* stale_min_later_changes
  MaxRows      \* bound: rows of decision_files

VARIABLES
  mentions,  \* decision_links that are plain references
  files      \* decision_files: the paths each decision touched and removed

filesVars == <<event, links, mentions, files>>

ASSUME FilesAssumption == IsFiniteSet(Paths)
ASSUME FreshnessAssumption == MinShare \in 1..100 /\ MinLater \in Nat /\ MaxRows \in Nat

Mention == {m \in [from : Sources, to : Sources] : m.from # m.to}

\* Whether GitHub calls a touched file removed.
FileSets == {F \in [touched : SUBSET Paths, removed : SUBSET Paths] : F.removed \subseteq F.touched}

NoFiles == [touched |-> {}, removed |-> {}]

FilesTypeOK ==
  /\ TypeOK
  /\ mentions \subseteq Mention
  /\ files \in [Sources -> FileSets]
  /\ \A m \in mentions, l \in links : ~(m.from = l.from /\ m.to = l.to)

FilesInit ==
  /\ Init
  /\ mentions = {}
  /\ files = [s \in Sources |-> NoFiles]

-----------------------------------------------------------------------------
(* Writes                                                                  *)

\* record_event.
RecordEvent(s, d) == Record(s, d) /\ UNCHANGED <<mentions, files>>

Pairs(L) == {[from |-> l.from, to |-> l.to] : l \in L}

\* Mutant of IndexDecision: plain references are only added to.
IndexAdding(s, L, M, F) ==
  /\ Index(s, L)
  /\ \A l \in L : [from |-> s, to |-> l.to] \notin M
  /\ mentions' = mentions \cup M
  /\ Cardinality(Pairs(links') \cup mentions') <= MaxEdges
  /\ files' = [files EXCEPT ![s] = F]

\* index_decision replaces the links of s, of which a target has one, and its
\* files (by the ones it has, when they were not fetched), in one transaction.
IndexDecision(s, L, M, F) ==
  /\ Index(s, L)
  /\ \A l \in L : [from |-> s, to |-> l.to] \notin M
  /\ mentions' = {m \in mentions : m.from # s} \cup M
  /\ Cardinality(Pairs(links') \cup mentions') <= MaxEdges
  /\ files' = [files EXCEPT ![s] = F]

Rows(f) == UNION {{s} \X f[s].touched : s \in Sources}

InscribeDecision(s) ==
  \/ \E d \in CanBe(s) : RecordEvent(s, d)
  \/ \E L \in Declarable(s), M \in SUBSET {m \in Mention : m.from = s}, F \in FileSets :
       /\ F # files[s] => Cardinality(Rows([files EXCEPT ![s] = F])) <= MaxRows
       /\ IndexDecision(s, L, M, F)

FilesNext == \E s \in Sources : InscribeDecision(s)

FilesSpec == FilesInit /\ [][FilesNext]_filesVars

-----------------------------------------------------------------------------
(* freshness.py                                                            *)

Tables == [event |-> event, links |-> links, mentions |-> mentions, files |-> files]

Dated(g, s) == g.event[s] > NoDate

\* Mutant of LinkedTo: only what the later PR says of the decision counts.
LinkedBackOnly(g, d, s) ==
  \E l \in g.links \cup g.mentions : l.from = s /\ l.to = d

\* A link in either direction, of any kind.
LinkedTo(g, d, s) ==
  \E l \in g.links \cup g.mentions : l.from \in {d, s} /\ l.to \in {d, s}

Shared(g, d, s) == g.files[d].touched \cap g.files[s].touched

\* Strictly later, which an unmerged PR never is.
After(g, d, s) == g.event[s] > g.event[d]

\* The second query: who changed files of d since, without a word about it.
Later(g, d) ==
  {s \in Sources \ {d} :
     /\ Dated(g, d) /\ After(g, d, s)
     /\ Shared(g, d, s) # {}
     /\ ~LinkedTo(g, d, s)}

\* The first query: the files of d, when it can be judged.
Total(g, d) == IF Dated(g, d) THEN Cardinality(g.files[d].touched) ELSE 0

\* _judge.
Outdated(g, d) ==
  LET later == Later(g, d)
      changed == UNION {Shared(g, d, s) : s \in later}
      removed == \E s \in later : g.files[d].touched \cap g.files[s].removed # {}
      churn == /\ Cardinality(later) >= MinLater
               /\ Total(g, d) > 0
               /\ 100 * Cardinality(changed) >= MinShare * Total(g, d)
  IN  later # {} /\ (removed \/ churn)

\* freshness of every decision that can be judged.
Flagged(g) == {d \in Sources : Total(g, d) > 0 /\ Outdated(g, d)}

-----------------------------------------------------------------------------
(* graph.py: what the surfaces say                                         *)

Active(g, s) == Answer(g, g, g, s, {s}).state = "active"

\* Mutant of Queue: overturned decisions are not taken out.
QueueAll(g) == Flagged(g)

\* stale_decisions: freshness of everything judged, then statuses.
Queue(g) == {d \in Flagged(g) : Active(g, d)}

\* decision: what it says of s alone, None for what is not in force.
Note(g, s) ==
  IF g.event[s] = Absent \/ ~Active(g, s) THEN "none"
  ELSE IF Outdated(g, s) THEN "possibly_outdated" ELSE "current"

\* decisions_touching a file: also those that hold no more, which are not judged.
Touching(g, p) ==
  {[source |-> s, outdated |-> Active(g, s) /\ Outdated(g, s)] :
     s \in {x \in Sources : g.event[x] # Absent /\ p \in g.files[x].touched}}

Counts(g, s) == g.event[s] # Absent /\ ~(s \in PRs /\ g.event[s] = NoDate)

\* decisions_for_files: matches of a change, by path and by directory.
Exact(g, s, changed) == g.files[s].touched \cap changed
Nearby(g, s, changed) ==
  {p \in g.files[s].touched \ changed :
     Dir(p) # Root /\ \E q \in changed : Dir(q) = Dir(p)}

Matches(g, changed, own) ==
  {s \in Sources \ own :
     Counts(g, s) /\ Exact(g, s, changed) \cup Nearby(g, s, changed) # {}}

\* Mutant of InForce: the statuses are not asked for.
InForceOrNot(g, changed, own) == Matches(g, changed, own)

InForce(g, changed, own) == {s \in Matches(g, changed, own) : Active(g, s)}

\* The order of `active`, best first.
Better(g, changed, s, t) ==
  LET key(x) == <<Cardinality(Exact(g, x, changed)), Cardinality(Nearby(g, x, changed)),
                  g.event[x], x>>
  IN  \E i \in 1..4 : key(s)[i] > key(t)[i] /\ \A j \in 1..(i - 1) : key(s)[j] = key(t)[j]

\* What the comment on a PR shows: the best `limit`, and how each is marked.
\* A link the PR itself declares says more than an inference.
Check(g, changed, own, limit) ==
  LET found == InForce(g, changed, own)
      shown == {s \in found : Cardinality({t \in found : Better(g, changed, t, s)}) < limit}
  IN  {[source |-> s, outdated |-> Outdated(g, s)] : s \in shown}

-----------------------------------------------------------------------------
(* Properties                                                              *)

\* Whose rows a write replaced.
RowsOf(g, x) ==
  <<g.event[x], g.files[x], {l \in g.links : l.from = x}, {m \in g.mentions : m.from = x}>>
Rewritten(g, h) == {x \in Sources : RowsOf(g, x) # RowsOf(h, x)}

\* A decision joins the queue for a reason a reader can check: it or its links
\* were inscribed anew, it is in force again, or a PR that merged later, touches
\* a file of it and says nothing of it was inscribed ("Every flag carries the
\* PRs and files behind it", freshness.py:19).
JoinsForAReason ==
  [][\A g \in {Tables}, h \in {Tables'} :
       \A d \in Queue(h) \ Queue(g) :
         \/ ~Active(g, d)
         \/ \E x \in Rewritten(g, h) :
              \/ x = d
              \/ /\ h.event[d] < h.event[x]
                 /\ \E p \in Paths : {<<d, p>>, <<x, p>>} \subseteq Rows(h.files)
                 /\ \A l \in h.links \cup h.mentions : {l.from, l.to} # {d, x}]_filesVars

\* The surfaces agree: the queue, the decision check of a PR that changes a file
\* of a decision, the list of decisions behind that file, and the answer about
\* the decision flag it alike.
SurfacesAgree ==
  \A g \in {Tables} :
    LET queue == Queue(g)
    IN  /\ queue = {d \in Sources : Note(g, d) = "possibly_outdated"}
        /\ \A p \in Paths :
             LET behind == {d \in queue : p \in g.files[d].touched}
                 checked == {e.source : e \in {f \in Check(g, {p}, {}, Cardinality(Sources)) :
                                                f.outdated}}
             IN  /\ behind \subseteq checked /\ checked \subseteq queue
                 /\ behind = {e.source : e \in {f \in Touching(g, p) : f.outdated}}

\* What the comment promises (decision_check.py:67): once a PR that says it
\* supersedes a decision has merged, the decision is neither in the queue nor
\* offered to reviewers again, as long as the PR is not reverted; unless MaxDepth
\* cuts the component short, so that one of the two walks misses who reverted it.
PromiseIsKept ==
  \A g \in {Tables} : \A l \in links :
    /\ Dated(g, l.from) /\ Uncut(g, l.from) /\ Uncut(g, l.to)
    /\ l.from \notin Downstream(links, l.to)
    /\ Answer(g, g, g, l.from, {l.from}).state # "reverted"
    => /\ l.to \notin Queue(g)
       /\ \A p \in Paths : l.to \notin InForce(g, {p}, {})
=============================================================================
