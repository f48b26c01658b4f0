-------------------------------- MODULE Agent --------------------------------
(***************************************************************************)
(* One question to Lore (retrieval/canon.py, agent/): the loop in which a  *)
(* model calls tools until it answers or runs out of hops, the fixed       *)
(* search-and-compose pipeline it can be compared with, and the citation   *)
(* guardrail that decides, on either path, whether the text ships.         *)
(*                                                                         *)
(* The model and GitHub may answer anything, and memory changes while the  *)
(* loop runs, so what a reply says and what a tool finds are chosen        *)
(* freely.  A label is the sequence of its tokens after _normalise: words  *)
(* are whole tokens, digits and "#" are tokens of their own, because the   *)
(* matching of citations depends on them.  A source is its label: two      *)
(* sources never normalise to one label here.  The order of retrieval is   *)
(* left out; where the code takes the first match, any match may be taken. *)
(***************************************************************************)
EXTENDS Integers, FiniteSets, SequencesExt

CONSTANTS
  Tokens,      \* words, digits and "#"
  Digits,      \* the tokens that are decimal digits
  Sources,     \* labels of the decisions that can be retrieved
  Citations,   \* labels the model may write between brackets
  MaxHops,     \* agent_max_hops
  MaxCalls,    \* bound: tool calls in one reply
  MaxFound,    \* bound: decisions one tool call returns
  MaxCites     \* bound: citations in one text

ASSUME DigitsAssumption == Digits \subseteq Tokens \ {"#", "pr"}
ASSUME LabelsAssumption ==
  Sources \subseteq Seq(Tokens) \ {<<>>} /\ Citations \subseteq Seq(Tokens)
ASSUME HopsAssumption == MaxHops \in Nat /\ MaxCalls \in Nat

VARIABLES
  node,       \* where the run is
  hops,       \* rounds of tools so far
  pending,    \* calls of the last reply that have not run
  hits,       \* Collector.hits: what the tools of this run returned
  before,     \* retrieved_before: the hits when the tools node was entered
  retrieved,  \* state["retrieved"], which the guardrail reads
  text,       \* content of the last message of the model that has any
  verdict,    \* what became of the text, "none" until it is judged
  sources     \* the provenance shown with the answer

vars == <<node, hops, pending, hits, before, retrieved, text, verdict, sources>>

Nodes == {"agent", "tools", "search", "compose", "guardrail", "answered",
          "recorded", "raised"}

Verdicts == {"none", "ok", "abstain", "violation", "no_match", "error"}

\* A text is what the guardrail tells apart: its citations, and without any,
\* whether it is missing, white space, an abstention, or makes claims.
Plain == {"missing", "blank", "abstains", "claims"}
Texts == {[cites |-> {}, says |-> p] : p \in Plain} \cup
         {[cites |-> C, says |-> "claims"] :
            C \in {D \in SUBSET Citations : D # {} /\ Cardinality(D) <= MaxCites}}

NoText == [cites |-> {}, says |-> "missing"]

\* What one call of a tool can find.
Findings == {F \in SUBSET Sources : Cardinality(F) <= MaxFound}

TypeOK ==
  /\ node \in Nodes
  /\ hops \in 0..MaxHops
  /\ pending \in 0..MaxCalls
  /\ hits \subseteq Sources /\ before \subseteq hits /\ retrieved \subseteq hits
  /\ text \in Texts
  /\ verdict \in Verdicts
  /\ sources \subseteq Sources

\* answer_why: agent_loop_enabled chooses the path.
Init ==
  /\ node \in {"agent", "search"}
  /\ hops = 0 /\ pending = 0
  /\ hits = {} /\ before = {} /\ retrieved = {} /\ sources = {}
  /\ text = NoText
  /\ verdict = "none"

-----------------------------------------------------------------------------
(* guardrail.py                                                            *)

DigitAt(l, i) == i \in 1..Len(l) /\ l[i] \in Digits

\* Mutant of Whole: plain prefixes, the way citations used to be matched.
AnyPrefix(short, long) == IsPrefix(short, long)

\* `long` starts with `short`, which does not stop within a number.
Whole(short, long) == IsPrefix(short, long) /\ ~DigitAt(long, Len(short) + 1)

\* One label starts the other; a citation shorter than the label ends in a digit.
Refers(c, key) ==
  \/ Whole(key, c)
  \/ c # <<>> /\ Whole(c, key) /\ DigitAt(c, Len(c))

\* "#482" or "PR #482", without a repository.
Number(c) == IF c # <<>> /\ Head(c) = "pr" THEN Tail(c) ELSE c
Unqualified(c) ==
  LET n == Number(c)
  IN  Len(n) >= 2 /\ n[1] = "#" /\ \A i \in 2..Len(n) : n[i] \in Digits

\* The retrieved labels that end in that number.
Carriers(n, known) ==
  {k \in known : IsSuffix(n, k) /\ ~DigitAt(k, Len(k) - Len(n))}

\* _match: the sources a citation can be taken for.
Meant(c, known) ==
  LET direct == {k \in known : Refers(c, k)}
      carriers == Carriers(Number(c), known)
  IN  IF direct # {} THEN direct
      ELSE IF Unqualified(c) /\ Cardinality(carriers) = 1 THEN carriers ELSE {}

\* check, in the order of its tests.  A text that cites nothing passes only as
\* an abstention, whatever was retrieved.
Judge(t, known) ==
  IF t.says \in {"missing", "blank"} THEN "violation"
  ELSE IF \E c \in t.cites : Meant(c, known) = {} THEN "violation"
  ELSE IF t.cites # {} THEN "ok"
  ELSE IF t.says = "abstains" THEN "abstain"
  ELSE "violation"

-----------------------------------------------------------------------------
(* agent/graph.py: the loop                                                *)

\* route: calls are run while there are hops left.
MayCall == hops < MaxHops

\* agent_node and route: the model writes some text and asks for n calls.
Reply(t, n) ==
  /\ node = "agent"
  /\ text' = IF t.says = "missing" THEN text ELSE t
  /\ pending' = n
  /\ IF n > 0 /\ MayCall
       THEN node' = "tools" /\ before' = hits
       ELSE node' = "guardrail" /\ UNCHANGED before
  /\ UNCHANGED <<hops, hits, retrieved, verdict, sources>>

\* agent_node: a failed call of the model is an empty message without calls.
ReplyFails ==
  /\ node = "agent"
  /\ pending' = 0
  /\ node' = "guardrail"
  /\ UNCHANGED <<hops, hits, before, retrieved, text, verdict, sources>>

\* One call of a tool; the collector keeps each source once.
Collect(F) ==
  /\ node = "tools" /\ pending > 0
  /\ pending' = pending - 1
  /\ hits' = hits \cup F
  /\ UNCHANGED <<node, hops, before, retrieved, text, verdict, sources>>

SearchCanon == \E F \in Findings : Collect(F)

\* Dated decisions; none is a failed search, too.
RecentDecisions == \E F \in Findings : Collect(F)

IsPR(s) == "#" \in Range(s)

\* One PR straight from GitHub, when the account has a token and it exists.
FetchPrDiff == \E F \in Findings :
  Cardinality(F) <= 1 /\ (\A s \in F : IsPR(s)) /\ Collect(F)

SearchCommits == \E F \in Findings : (\A s \in F : ~IsPR(s)) /\ Collect(F)

\* A decision and its lineage; only an ingested one is collected itself.  An
\* ambiguous label names its candidates and collects none.
DecisionStatus == \E lineage \in Findings, own \in SUBSET Sources :
  Cardinality(own) <= 1 /\ Collect(lineage \cup own)

\* The decisions that touched a path; their overturners are named, not collected.
DecisionsForPath == \E F \in Findings : Collect(F)

\* An unknown tool, or one that raised: text for the model and no hits.
ToolFails == Collect({})

\* Mutant of NextHop: the round is not counted.
SameHop == hops

\* The reducer of `hops` adds the 1 that tools_node returns.
NextHop == hops + 1

\* Mutant of NewHits: the last hit of the round is lost.
AllButOne == LET new == hits \ before
             IN  IF new = {} THEN {} ELSE new \ {CHOOSE s \in new : TRUE}

NewHits == hits \ before

\* The end of tools_node.
ToolsEnd ==
  /\ node = "tools" /\ pending = 0
  /\ node' = "agent"
  /\ hops' = NextHop
  /\ retrieved' = retrieved \cup NewHits
  /\ before' = {}
  /\ UNCHANGED <<pending, hits, text, verdict, sources>>

\* guardrail_node, and the end of _answer_pipeline.  Only what was cited is
\* shown as a source.
Guardrail ==
  /\ node = "guardrail"
  /\ node' = "answered"
  /\ verdict' = Judge(text, retrieved)
  /\ IF verdict' = "ok"
       THEN \E meant \in [text.cites -> retrieved] :
              /\ \A c \in text.cites : meant[c] \in Meant(c, retrieved)
              /\ sources' = {meant[c] : c \in text.cites}
       ELSE sources' = {}
  /\ UNCHANGED <<hops, pending, hits, before, retrieved, text>>

\* run: an exception out of the graph becomes an error answer.
RunFails ==
  /\ node \in {"agent", "tools", "guardrail"}
  /\ node' = "answered"
  /\ verdict' = "error"
  /\ UNCHANGED <<hops, pending, hits, before, retrieved, text, sources>>

-----------------------------------------------------------------------------
(* retrieval/canon.py: the pipeline, and what both paths share             *)

\* _answer_pipeline: one search, and no answer without a hit.
PipelineSearch(F) ==
  /\ node = "search"
  /\ hits' = F /\ retrieved' = F
  /\ IF F = {} THEN node' = "answered" /\ verdict' = "no_match"
               ELSE node' = "compose" /\ UNCHANGED verdict
  /\ UNCHANGED <<hops, pending, before, text, sources>>

\* A search that raises is caught by nobody: there is no answer to record.
SearchRaises ==
  /\ node = "search"
  /\ node' = "raised"
  /\ UNCHANGED <<hops, pending, hits, before, retrieved, text, verdict, sources>>

PipelineCompose(t) ==
  /\ node = "compose"
  /\ t.says # "missing"
  /\ text' = t
  /\ node' = "guardrail"
  /\ UNCHANGED <<hops, pending, hits, before, retrieved, verdict, sources>>

ComposeFails ==
  /\ node = "compose"
  /\ node' = "answered"
  /\ verdict' = "error"
  /\ UNCHANGED <<hops, pending, hits, before, retrieved, text, sources>>

\* answer_why records every path's answer, or logs that it could not.
RecordQuery ==
  /\ node = "answered"
  /\ node' = "recorded"
  /\ UNCHANGED <<hops, pending, hits, before, retrieved, text, verdict, sources>>

Tools ==
  \/ SearchCanon \/ RecentDecisions \/ FetchPrDiff \/ SearchCommits
  \/ DecisionStatus \/ DecisionsForPath \/ ToolFails \/ ToolsEnd

Next ==
  \/ \E t \in Texts, n \in 0..MaxCalls : Reply(t, n)
  \/ ReplyFails
  \/ Tools
  \/ Guardrail
  \/ RunFails
  \/ \E F \in Findings : PipelineSearch(F)
  \/ SearchRaises
  \/ \E t \in Texts : PipelineCompose(t)
  \/ ComposeFails
  \/ RecordQuery

\* Every step is the program's own: a call of the model or of a store returns
\* or times out.
Spec == Init /\ [][Next]_vars /\ WF_vars(Next)

-----------------------------------------------------------------------------
(* Properties                                                              *)

\* The PR numbers a label carries: a "#" with all the digits after it.
Spans(l) ==
  {r \in (1..Len(l)) \X (1..Len(l)) :
     /\ r[1] < r[2] /\ l[r[1]] = "#"
     /\ \A k \in (r[1] + 1)..r[2] : l[k] \in Digits
     /\ ~DigitAt(l, r[2] + 1)}
Numbers(l) == {SubSeq(l, r[1], r[2]) : r \in Spans(l)}

\* An answer that ships shows only sources some tool of the run returned, and
\* no citation in it borrows a number: each stands for a source that carries
\* the number it gives ("letting a model cite a PR it never retrieved whenever
\* a longer number sharing its digits had been", guardrail.py:112).
CitationsAreGrounded ==
  verdict = "ok" =>
    /\ sources \subseteq hits
    /\ \A c \in text.cites : \E s \in sources :
         Numbers(c) \subseteq Numbers(s) \/ Numbers(s) \subseteq Numbers(c)

\* What a tool returned can be cited for the rest of the run, whatever hops,
\* failed tools or failed replies came after it: an answer that cites only
\* returned sources, by their labels, is never rejected.
ReturnedCanBeCited ==
  node \in {"answered", "recorded"} /\ text.cites # {} /\ text.cites \subseteq hits
    => verdict \in {"ok", "error"}

\* However many tools the model asks for, the question is answered and the
\* answer recorded ("a runaway loop should fail loud", config.py:54), unless
\* the pipeline's search raised.
AnsweredInTheEnd == <>(node \in {"recorded", "raised"})

\* A number without a repository is accepted only when exactly one retrieved
\* source carries it; otherwise the citation does not say which
\* (guardrail.py:116).
UnqualifiedIsUnambiguous ==
  verdict = "ok" => \A c \in text.cites :
    Unqualified(c) => Cardinality({s \in retrieved : IsSuffix(Number(c), s)}) = 1
=============================================================================
