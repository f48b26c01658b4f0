----------------------------- MODULE AgentProofs -----------------------------
(***************************************************************************)
(* Theorems of Agent, for every set of labels and any number of hops: what *)
(* ships shows only sources that a tool returned, cited under their own    *)
(* number, and whatever a tool returned can be cited.                      *)
(***************************************************************************)
EXTENDS Agent, TLAPS

-----------------------------------------------------------------------------
(* Labels                                                                  *)

\* A label that stops at the end of its numbers keeps them when it goes on.
LEMMA WholeKeepsNumbers ==
  ASSUME NEW short \in Seq(Tokens), NEW long \in Seq(Tokens), Whole(short, long)
  PROVE  Numbers(short) \subseteq Numbers(long)
<1>1. Len(short) <= Len(long) /\ SubSeq(short, 1, Len(short)) = SubSeq(long, 1, Len(short))
  BY DEF Whole, IsPrefix
<1>2. \A i \in 1..Len(short) : short[i] = long[i]
  <2>1. TAKE i \in 1..Len(short)
  <2>2. SubSeq(short, 1, Len(short))[i] = short[i]
    OBVIOUS
  <2>3. SubSeq(long, 1, Len(short))[i] = long[i]
    BY <1>1
  <2> QED BY <2>2, <2>3, <1>1
<1>3. SUFFICES ASSUME NEW r \in Spans(short)
               PROVE  SubSeq(short, r[1], r[2]) \in Numbers(long)
  BY DEF Numbers
<1> DEFINE i == r[1]
           j == r[2]
<1>4. /\ i \in 1..Len(short) /\ j \in 1..Len(short) /\ i < j
      /\ short[i] = "#" /\ \A k \in (i + 1)..j : short[k] \in Digits
      /\ ~DigitAt(short, j + 1)
  BY DEF Spans
<1> HIDE DEF i, j
<1>5. SubSeq(short, i, j) = SubSeq(long, i, j)
  <2>1. Len(SubSeq(short, i, j)) = j - i + 1 /\ Len(SubSeq(long, i, j)) = j - i + 1
    BY <1>1, <1>4
  <2>2. \A k \in 1..(j - i + 1) : SubSeq(short, i, j)[k] = short[i + k - 1]
                                  /\ SubSeq(long, i, j)[k] = long[i + k - 1]
    BY <1>1, <1>4
  <2> QED BY <2>1, <2>2, <1>2, <1>4, <1>1
<1>6. ~DigitAt(long, j + 1)
  <2>1. CASE j = Len(short)
    BY <2>1 DEF Whole
  <2>2. CASE j < Len(short)
    <3>1. j + 1 \in 1..Len(short) /\ j + 1 \in 1..Len(long)
      BY <2>2, <1>1, <1>4
    <3> QED BY <3>1, <1>2, <1>4 DEF DigitAt
  <2> QED BY <2>1, <2>2, <1>4
<1>7. i \in 1..Len(long) /\ j \in 1..Len(long) /\ long[i] = "#"
      /\ \A k \in (i + 1)..j : long[k] \in Digits
  BY <1>1, <1>2, <1>4
<1>8. r \in Spans(long) /\ SubSeq(long, i, j) \in Numbers(long)
  <2>1. r \in (1..Len(long)) \X (1..Len(long))
    BY <1>7 DEF i, j, Spans
  <2>2. r \in Spans(long)
    BY <2>1, <1>4, <1>6, <1>7 DEF i, j, Spans
  <2> QED BY <2>2 DEF Numbers, i, j
<1> QED BY <1>5, <1>8 DEF i, j

\* A number at the end of a label is one of the label's numbers.
LEMMA SuffixIsNumber ==
  ASSUME NEW n \in Seq(Tokens), NEW k \in Seq(Tokens), IsSuffix(n, k),
         Len(n) >= 2, n[1] = "#", \A i \in 2..Len(n) : n[i] \in Digits
  PROVE  n \in Numbers(k)
<1> DEFINE d == Len(k) - Len(n)
<1>1. Reverse(n) \in Seq(Tokens) /\ Len(Reverse(n)) = Len(n)
      /\ Reverse(k) \in Seq(Tokens) /\ Len(Reverse(k)) = Len(k)
  BY DEF Reverse
<1>2. Len(n) <= Len(k) /\ d \in Nat
  BY <1>1 DEF IsSuffix, IsPrefix
<1>3. \A i \in 1..Len(n) : n[i] = k[d + i]
  <2>1. TAKE i \in 1..Len(n)
  <2> DEFINE j == Len(n) - i + 1
  <2>2. j \in 1..Len(n)
    OBVIOUS
  <2>3. SubSeq(Reverse(n), 1, Len(n))[j] = Reverse(n)[j]
        /\ SubSeq(Reverse(k), 1, Len(n))[j] = Reverse(k)[j]
    BY <2>2, <1>1, <1>2
  <2>4. Reverse(n)[j] = Reverse(k)[j]
    BY <2>3, <1>1 DEF IsSuffix, IsPrefix
  <2>5. Reverse(n)[j] = n[i] /\ Reverse(k)[j] = k[d + i]
    BY <2>2, <1>2 DEF Reverse
  <2> QED BY <2>4, <2>5
<1> DEFINE r == <<d + 1, Len(k)>>
<1>4. r \in (1..Len(k)) \X (1..Len(k)) /\ r[1] = d + 1 /\ r[2] = Len(k)
  BY <1>2
<1> HIDE DEF r
<1>5. \A i \in (d + 2)..Len(k) : k[i] \in Digits
  <2>1. TAKE i \in (d + 2)..Len(k)
  <2>2. i - d \in 2..Len(n) /\ i - d \in 1..Len(n) /\ d + (i - d) = i
    BY <1>2
  <2>3. n[i - d] \in Digits
    BY <2>2
  <2>4. n[i - d] = k[d + (i - d)]
    BY <2>2, <1>3
  <2> QED BY <2>2, <2>3, <2>4
<1>6. k[d + 1] = "#" /\ ~DigitAt(k, Len(k) + 1) /\ d + 1 < Len(k)
  BY <1>2, <1>3 DEF DigitAt
<1>7. r \in Spans(k)
  <2>1. k[r[1]] = "#" /\ r[1] < r[2] /\ ~DigitAt(k, r[2] + 1)
    BY <1>4, <1>6
  <2>2. \A i \in (r[1] + 1)..r[2] : k[i] \in Digits
    BY <1>2, <1>4, <1>5
  <2> QED BY <1>4, <2>1, <2>2 DEF Spans
<1>8. SubSeq(k, d + 1, Len(k)) = n
  <2>1. Len(SubSeq(k, d + 1, Len(k))) = Len(n)
    BY <1>2
  <2>2. \A i \in 1..Len(n) : SubSeq(k, d + 1, Len(k))[i] = k[d + i]
    BY <1>2
  <2> QED BY <2>1, <2>2, <1>2, <1>3
<1> QED BY <1>4, <1>7, <1>8 DEF Numbers

\* A citation without a repository carries no number but the one it is.
LEMMA UnqualifiedNumbers ==
  ASSUME NEW c \in Seq(Tokens), Unqualified(c)
  PROVE  /\ Number(c) \in Seq(Tokens)
         /\ Numbers(c) \subseteq {Number(c)}
<1> DEFINE n == Number(c)
           d == Len(c) - Len(n)
<1>1. n \in Seq(Tokens) /\ d \in {0, 1} /\ \A i \in 1..Len(n) : n[i] = c[d + i]
      /\ (d = 1 => c[1] = "pr")
  <2>1. CASE c # <<>> /\ Head(c) = "pr"
    <3>1. n = Tail(c) /\ c[1] = "pr"
      BY <2>1 DEF Number
    <3>2. Len(n) = Len(c) - 1 /\ \A i \in 1..Len(n) : n[i] = c[1 + i]
      BY <3>1, <2>1
    <3>3. d = 1
      BY <3>2, <2>1
    <3>4. n \in Seq(Tokens)
      BY <3>1, <2>1
    <3> HIDE DEF n, d
    <3> QED BY <3>1, <3>2, <3>3, <3>4
  <2>2. CASE ~(c # <<>> /\ Head(c) = "pr")
    <3>1. n = c
      BY <2>2 DEF Number
    <3> QED BY <3>1
  <2> QED BY <2>1, <2>2
<1>2. Len(n) >= 2 /\ n[1] = "#" /\ \A i \in 2..Len(n) : n[i] \in Digits
  BY DEF Unqualified
<1> HIDE DEF n
<1>3. ASSUME NEW r \in Spans(c)
      PROVE  SubSeq(c, r[1], r[2]) = n
  <2>1. /\ r[1] \in 1..Len(c) /\ r[2] \in 1..Len(c) /\ r[1] < r[2] /\ c[r[1]] = "#"
        /\ ~DigitAt(c, r[2] + 1)
    BY <1>3 DEF Spans
  <2>2. \A i \in (d + 2)..Len(c) : c[i] \in Digits
    <3>1. TAKE i \in (d + 2)..Len(c)
    <3>2. i - d \in 2..Len(n) /\ i - d \in 1..Len(n) /\ d + (i - d) = i
      BY <1>1
    <3>3. n[i - d] \in Digits
      BY <3>2, <1>2
    <3>4. n[i - d] = c[d + (i - d)]
      BY <3>2, <1>1
    <3> QED BY <3>2, <3>3, <3>4
  <2>3. r[1] = d + 1
    BY <2>1, <2>2, <1>1, DigitsAssumption
  <2>4. r[2] = Len(c)
    BY <2>1, <2>2, <2>3, <1>1 DEF DigitAt
  <2>5. Len(SubSeq(c, d + 1, Len(c))) = Len(n)
    BY <1>1, <1>2
  <2>6. \A i \in 1..Len(n) : SubSeq(c, d + 1, Len(c))[i] = c[d + i]
    BY <1>1, <1>2
  <2> QED BY <2>3, <2>4, <2>5, <2>6, <1>1
<1> QED BY <1>1, <1>3 DEF Numbers, n

\* Whatever source a citation is taken for, neither gives a number that the
\* other one does not carry.
LEMMA MeantShares ==
  ASSUME NEW c \in Seq(Tokens), NEW known \in SUBSET Seq(Tokens),
         NEW s \in Meant(c, known)
  PROVE  /\ s \in known
         /\ Numbers(c) \subseteq Numbers(s) \/ Numbers(s) \subseteq Numbers(c)
<1>1. CASE s \in {k \in known : Refers(c, k)}
  <2>1. s \in Seq(Tokens) /\ (Whole(s, c) \/ Whole(c, s))
    BY <1>1 DEF Refers
  <2> QED BY <1>1, <2>1, WholeKeepsNumbers
<1>2. CASE s \notin {k \in known : Refers(c, k)}
  <2>1. s \in Carriers(Number(c), known) /\ Unqualified(c)
    BY <1>2 DEF Meant
  <2>2. s \in known /\ IsSuffix(Number(c), s)
    BY <2>1 DEF Carriers
  <2>3. Number(c) \in Numbers(s)
    BY <2>1, <2>2, UnqualifiedNumbers, SuffixIsNumber DEF Unqualified
  <2> QED BY <2>1, <2>2, <2>3, UnqualifiedNumbers
<1> QED BY <1>1, <1>2

\* A label is taken for itself when it was retrieved.
LEMMA LabelMeansItself ==
  ASSUME NEW known \in SUBSET Seq(Tokens), NEW c \in known
  PROVE  Meant(c, known) # {}
<1>1. SubSeq(c, 1, Len(c)) = SubSeq(c, 1, Len(c)) /\ ~DigitAt(c, Len(c) + 1)
  BY DEF DigitAt
<1>2. Refers(c, c)
  BY <1>1 DEF Refers, Whole, IsPrefix
<1> QED BY <1>2 DEF Meant

-----------------------------------------------------------------------------
(* The invariant                                                           *)

\* What the graph's state holds against the collector: the same hits at every
\* node but the tools node, which knows them as of its entry; and nothing is
\* judged before the end.
Reported ==
  /\ node = "tools" => before = retrieved /\ hops < MaxHops
  /\ node # "tools" /\ verdict # "error" => retrieved = hits
  /\ node \notin {"answered", "recorded"} => verdict = "none" /\ sources = {}
  /\ node \in {"answered", "recorded"} => verdict # "none"
  /\ node = "search" => before = {}
  /\ node = "search" \/ verdict = "no_match" => text.cites = {}

\* The verdict is the one the text deserves against what was retrieved.
Judged ==
  verdict \in {"ok", "abstain", "violation"} => verdict = Judge(text, retrieved)

IInv == TypeOK /\ Reported /\ Judged /\ CitationsAreGrounded

\* The labels of the instance are sequences of tokens.
LEMMA LabelTypes ==
  ASSUME TypeOK
  PROVE  /\ hits \in SUBSET Seq(Tokens) /\ retrieved \in SUBSET Seq(Tokens)
         /\ text.cites \subseteq Seq(Tokens)
         /\ (text.cites # {} => text.says = "claims")
<1>1. hits \in SUBSET Seq(Tokens) /\ retrieved \in SUBSET Seq(Tokens)
  BY LabelsAssumption DEF TypeOK
<1>2. text \in Texts
  BY DEF TypeOK
<1>3. CASE text \in {[cites |-> {}, says |-> p] : p \in Plain}
  BY <1>1, <1>3
<1>4. CASE text \in {[cites |-> C, says |-> "claims"] :
                      C \in {D \in SUBSET Citations : D # {} /\ Cardinality(D) <= MaxCites}}
  BY <1>1, <1>4, LabelsAssumption
<1> QED BY <1>2, <1>3, <1>4 DEF Texts

LEMMA InitIInv == Init => IInv
<1> SUFFICES ASSUME Init PROVE IInv
  OBVIOUS
<1>1. NoText \in Texts /\ NoText.cites = {}
  BY DEF NoText, Texts, Plain
<1>2. 0 \in 0..MaxHops /\ 0 \in 0..MaxCalls
  BY HopsAssumption
<1> QED BY <1>1, <1>2
     DEF Init, IInv, TypeOK, Reported, Judged, CitationsAreGrounded, Nodes, Verdicts

\* Steps that judge nothing, before there is a verdict.
LEMMA Unjudged ==
  ASSUME verdict' = "none"
  PROVE  Judged' /\ CitationsAreGrounded'
BY DEF Judged, CitationsAreGrounded

LEMMA ReplyStep ==
  ASSUME IInv, NEW t \in Texts, NEW n \in 0..MaxCalls, Reply(t, n)
  PROVE  IInv'
<1>1. verdict = "none" /\ verdict' = "none"
  BY DEF IInv, Reported, Reply
<1>2. TypeOK' /\ Reported'
  <2>1. CASE node' = "tools"
    <3>1. before' = hits /\ hops < MaxHops
      BY <2>1 DEF Reply, MayCall
    <3>2. text' \in Texts /\ pending' \in 0..MaxCalls /\ retrieved = hits
      BY DEF IInv, TypeOK, Reported, Reply
    <3> QED BY <2>1, <1>1, <3>1, <3>2 DEF IInv, TypeOK, Reported, Reply, Nodes
  <2>2. CASE node' = "guardrail"
    BY <2>2, <1>1 DEF IInv, TypeOK, Reported, Reply, Nodes
  <2> QED BY <2>1, <2>2 DEF Reply
<1> QED BY <1>1, <1>2, Unjudged DEF IInv

LEMMA ReplyFailsStep ==
  ASSUME IInv, ReplyFails
  PROVE  IInv'
<1>1. verdict = "none" /\ verdict' = "none"
  BY DEF IInv, Reported, ReplyFails
<1>2. TypeOK' /\ Reported'
  BY <1>1, HopsAssumption DEF IInv, TypeOK, Reported, ReplyFails, Nodes
<1> QED BY <1>1, <1>2, Unjudged DEF IInv

LEMMA CollectStep ==
  ASSUME IInv, NEW F \in SUBSET Sources, Collect(F)
  PROVE  IInv'
<1>1. verdict = "none" /\ verdict' = "none"
  BY DEF IInv, Reported, Collect
<1>2. TypeOK' /\ Reported'
  <2>1. pending' \in 0..MaxCalls
    BY HopsAssumption DEF IInv, TypeOK, Collect
  <2>2. hits' \subseteq Sources /\ before' \subseteq hits' /\ retrieved' \subseteq hits'
    BY DEF IInv, TypeOK, Collect
  <2> QED BY <1>1, <2>1, <2>2 DEF IInv, TypeOK, Reported, Collect
<1> QED BY <1>1, <1>2, Unjudged DEF IInv

LEMMA ToolsStep ==
  ASSUME IInv, Tools
  PROVE  IInv'
<1>1. CASE \E F \in SUBSET Sources : Collect(F)
  BY <1>1, CollectStep
<1>2. CASE ToolsEnd
  <2>1. verdict = "none" /\ verdict' = "none"
    BY <1>2 DEF IInv, Reported, ToolsEnd
  <2>2. retrieved' = hits'
    BY <1>2 DEF IInv, TypeOK, Reported, ToolsEnd, NewHits
  <2>3. TypeOK' /\ Reported'
    <3>1. hops' \in 0..MaxHops
      BY <1>2, HopsAssumption DEF IInv, TypeOK, Reported, ToolsEnd, NextHop
    <3>2. retrieved' \subseteq hits' /\ before' \subseteq hits'
      BY <1>2, <2>2 DEF ToolsEnd
    <3>3. TypeOK'
      BY <1>2, <3>1, <3>2 DEF IInv, TypeOK, ToolsEnd, Nodes
    <3>4. Reported'
      BY <1>2, <2>1, <2>2 DEF IInv, Reported, ToolsEnd
    <3> QED BY <3>3, <3>4
  <2> QED BY <2>1, <2>3, Unjudged DEF IInv
<1> QED BY <1>1, <1>2 DEF Tools, SearchCanon, RecentDecisions, FetchPrDiff, SearchCommits,
                          DecisionStatus, DecisionsForPath, ToolFails, Findings

\* The one step that judges.
LEMMA GuardrailStep ==
  ASSUME IInv, Guardrail
  PROVE  IInv'
<1>1. verdict = "none" /\ retrieved = hits /\ sources = {}
  BY DEF IInv, Reported, Guardrail
<1>2. verdict' = Judge(text, retrieved) /\ verdict' \in {"ok", "abstain", "violation"}
  BY DEF Guardrail, Judge
<1>3. Judged'
  BY <1>2 DEF Judged, Guardrail
<1>4. CASE verdict' = "ok"
  <2>1. PICK meant \in [text.cites -> retrieved] :
          /\ \A c \in text.cites : meant[c] \in Meant(c, retrieved)
          /\ sources' = {meant[c] : c \in text.cites}
    BY <1>4 DEF Guardrail
  <2>2. sources' \subseteq hits
    BY <2>1, <1>1
  <2>3. ASSUME NEW c \in text.cites
        PROVE  \E s \in sources' :
                 Numbers(c) \subseteq Numbers(s) \/ Numbers(s) \subseteq Numbers(c)
    <3>1. meant[c] \in Meant(c, retrieved) /\ meant[c] \in sources'
      BY <2>1
    <3>2. c \in Seq(Tokens) /\ retrieved \in SUBSET Seq(Tokens)
      BY LabelTypes DEF IInv
    <3> QED BY <3>1, <3>2, MeantShares
  <2>4. CitationsAreGrounded'
    BY <2>2, <2>3 DEF CitationsAreGrounded, Guardrail
  <2> QED BY <1>1, <1>2, <1>3, <1>4, <2>2, <2>4
        DEF IInv, TypeOK, Reported, Guardrail, Nodes, Verdicts
<1>5. CASE verdict' # "ok"
  BY <1>1, <1>2, <1>3, <1>5
     DEF IInv, TypeOK, Reported, Guardrail, Nodes, Verdicts, CitationsAreGrounded
<1> QED BY <1>4, <1>5

LEMMA PipelineStep ==
  ASSUME IInv,
         \/ \E F \in Findings : PipelineSearch(F)
         \/ SearchRaises
         \/ \E t \in Texts : PipelineCompose(t)
  PROVE  IInv'
<1>1. ASSUME NEW F \in Findings, PipelineSearch(F) PROVE IInv'
  <2>1. verdict = "none" /\ sources = {} /\ verdict' \in {"none", "no_match"}
    BY <1>1 DEF IInv, Reported, PipelineSearch
  <2>2. before' = {} /\ hits' = F /\ retrieved' = F /\ F \subseteq Sources
    BY <1>1 DEF IInv, Reported, PipelineSearch, Findings
  <2>3. TypeOK' /\ Reported'
    BY <1>1, <2>1, <2>2 DEF IInv, TypeOK, Reported, PipelineSearch, Nodes, Verdicts
  <2> QED BY <2>1, <2>3 DEF IInv, Judged, CitationsAreGrounded
<1>2. CASE SearchRaises
  <2>1. verdict = "none" /\ verdict' = "none"
    BY <1>2 DEF IInv, Reported, SearchRaises
  <2>2. TypeOK' /\ Reported'
    BY <1>2, <2>1 DEF IInv, TypeOK, Reported, SearchRaises, Nodes
  <2> QED BY <2>1, <2>2, Unjudged DEF IInv
<1>3. ASSUME NEW t \in Texts, PipelineCompose(t) PROVE IInv'
  <2>1. verdict = "none" /\ verdict' = "none"
    BY <1>3 DEF IInv, Reported, PipelineCompose
  <2>2. TypeOK' /\ Reported'
    BY <1>3, <2>1 DEF IInv, TypeOK, Reported, PipelineCompose, Nodes
  <2> QED BY <2>1, <2>2, Unjudged DEF IInv
<1> QED BY <1>1, <1>2, <1>3

\* Steps that end a run without a verdict of the guardrail, and the recording.
LEMMA EndStep ==
  ASSUME IInv, RunFails \/ ComposeFails \/ RecordQuery
  PROVE  IInv'
<1>1. CASE RunFails
  BY <1>1 DEF IInv, TypeOK, Reported, Judged, CitationsAreGrounded, RunFails, Nodes, Verdicts
<1>2. CASE ComposeFails
  BY <1>2 DEF IInv, TypeOK, Reported, Judged, CitationsAreGrounded, ComposeFails, Nodes, Verdicts
<1>3. CASE RecordQuery
  BY <1>3 DEF IInv, TypeOK, Reported, Judged, CitationsAreGrounded, RecordQuery, Nodes
<1> QED BY <1>1, <1>2, <1>3

LEMMA IInvInductive == IInv /\ [Next]_vars => IInv'
<1> SUFFICES ASSUME IInv, [Next]_vars PROVE IInv'
  OBVIOUS
<1>1. CASE UNCHANGED vars
  BY <1>1 DEF IInv, TypeOK, Reported, Judged, CitationsAreGrounded, vars
<1>2. CASE Next
  BY <1>2, ReplyStep, ReplyFailsStep, ToolsStep, GuardrailStep, PipelineStep, EndStep DEF Next
<1> QED BY <1>1, <1>2

THEOREM IInvHolds == Spec => []IInv
BY InitIInv, IInvInductive, PTL DEF Spec

\* The run's state is of its type; in particular there are never more rounds
\* of tools than agent_max_hops.
THEOREM TypeCorrect == Spec => []TypeOK
<1>1. IInv => TypeOK
  BY DEF IInv
<1> QED BY <1>1, IInvHolds, PTL

\* No answer ships with a source that was not returned, or with a number that
\* is not its source's, for every set of labels.
THEOREM Grounded == Spec => []CitationsAreGrounded
<1>1. IInv => CitationsAreGrounded
  BY DEF IInv
<1> QED BY <1>1, IInvHolds, PTL

\* An answer that cites only what was returned is never rejected, however many
\* hops and failed tools lie between.
THEOREM Citable == Spec => []ReturnedCanBeCited
<1>1. IInv => ReturnedCanBeCited
  <2> SUFFICES ASSUME IInv, node \in {"answered", "recorded"}, text.cites # {},
                      text.cites \subseteq hits, verdict # "error"
               PROVE  verdict = "ok"
    BY DEF ReturnedCanBeCited
  <2>1. retrieved = hits /\ retrieved \in SUBSET Seq(Tokens) /\ text.says = "claims"
    BY LabelTypes DEF IInv, Reported
  <2>2. \A c \in text.cites : Meant(c, retrieved) # {}
    BY <2>1, LabelMeansItself
  <2>3. Judge(text, retrieved) = "ok"
    BY <2>1, <2>2 DEF Judge
  <2>4. verdict # "none"
    BY DEF IInv, Reported
  <2>5. verdict # "no_match"
    BY DEF IInv, Reported
  <2> QED BY <2>3, <2>4, <2>5 DEF IInv, TypeOK, Verdicts, Judged
<1> QED BY <1>1, IInvHolds, PTL
=============================================================================
