--------------------------- MODULE DecisionsProofs ---------------------------
(***************************************************************************)
(* What is proved of Decisions and Freshness for any decisions, graph,     *)
(* files and MaxDepth: the stored graph is well formed, _status computes   *)
(* the rule, reads are timely, writes act downwards, and the surfaces that *)
(* ask for a status agree.                                                 *)
(*                                                                         *)
(* Recursive functions are unfolded by iterating their body, and what is   *)
(* true along the graph is shown at a decision with nothing behind it for  *)
(* which it would fail: the induction is over sets, not over an operator.  *)
(***************************************************************************)
EXTENDS Freshness, FiniteSetTheorems, TLAPS

-----------------------------------------------------------------------------
(* The stored graph                                                        *)

\* Nothing is stored at first.
LEMMA InitTypeOK == Init => TypeOK
BY SourcesAssumption, MergesAssumption DEF Init, TypeOK, CanBe, Absent, Link

\* A date replaces a date, never removes an event.
LEMMA RecordTypeOK ==
  ASSUME TypeOK, NEW s \in Sources, NEW d \in CanBe(s), Record(s, d)
  PROVE  TypeOK'
<1>1. d \in Int /\ d # Absent
  BY MergesAssumption DEF CanBe, Absent, NoDate
<1>2. event' \in [Sources -> Int]
  BY <1>1 DEF TypeOK, Record
<1>3. \A x \in Sources : event'[x] \in CanBe(x) \cup {Absent}
  BY DEF TypeOK, Record
<1>4. \A x \in Sources : event[x] # Absent => event'[x] # Absent
  BY <1>1 DEF TypeOK, Record
<1>5. \A l \in links : l.from \in Sources
  BY DEF TypeOK, Link
<1>6. \A l \in links' : event'[l.from] # Absent
  BY <1>4, <1>5 DEF TypeOK, Record
<1> QED
  BY <1>2, <1>3, <1>6 DEF TypeOK, Record, CanBe

\* The edges of a text replace those its source had.
LEMMA IndexTypeOK ==
  ASSUME TypeOK, NEW s \in Sources, NEW L \in Declarable(s), Index(s, L)
  PROVE  TypeOK'
<1>1. /\ L \subseteq Link
      /\ \A l \in L : l.from = s
      /\ \A l, m \in L : l.to = m.to => l = m
  BY DEF Declarable
<1>2. links' = (links \ From(s)) \cup L /\ event' = event /\ event[s] # Absent
  BY DEF Index
<1>3. \A l \in links \ From(s) : l.from # s
  BY DEF From
<1>4. links' \subseteq Link
  BY <1>1, <1>2 DEF TypeOK
<1>5. \A l \in links' : event'[l.from] # Absent
  BY <1>1, <1>2 DEF TypeOK
<1>6. ASSUME NEW l \in links', NEW m \in links', l.from = m.from, l.to = m.to
      PROVE  l = m
  <2>1. CASE l.from = s
    BY <1>1, <1>2, <1>3, <1>6, <2>1
  <2>2. CASE l.from # s
    BY <1>1, <1>2, <1>6, <2>2 DEF TypeOK
  <2> QED
    BY <2>1, <2>2
<1> QED
  BY <1>2, <1>4, <1>5, <1>6 DEF TypeOK, CanBe

\* The stored graph is well formed: every edge starts at a decision that is
\* ingested, and no decision both supersedes and reverts another, however
\* often and in whatever order texts are recorded and indexed.
THEOREM TypeCorrect == Spec => []TypeOK
<1>1. ASSUME TypeOK, [Next]_vars PROVE TypeOK'
  <2>1. CASE UNCHANGED vars
    BY <1>1, <2>1 DEF vars, TypeOK, CanBe
  <2>2. CASE Next
    <3>1. PICK s \in Sources : Inscribe(s)
      BY <2>2 DEF Next
    <3> QED
      BY <1>1, <3>1, RecordTypeOK, IndexTypeOK DEF Inscribe
  <2> QED
    BY <1>1, <2>1, <2>2
<1> QED
  BY InitTypeOK, <1>1, PTL DEF Spec

-----------------------------------------------------------------------------
(* Sets, numbers and functions                                             *)

\* Induction without an operator: a set of sets has a least member.
LEMMA SmallestSet ==
  ASSUME NEW S, IsFiniteSet(S), NEW T, T \subseteq SUBSET S, T # {}
  PROVE  \E A \in T : \A B \in T : B \subseteq A => B = A
<1>1. IsWellFoundedOn(StrictSubsetOrdering(S), SUBSET S)
  BY FS_StrictSubsetOrderingWellFounded, FS_FiniteSubsetsOfFinite
<1>2. PICK A \in T : \A B \in T : <<B, A>> \notin StrictSubsetOrdering(S)
  BY <1>1, WFMin
<1> QED
  BY <1>2 DEF StrictSubsetOrdering

\* A set of numbers that has 0 and each next one has them all.
LEMMA NatsByInduction ==
  ASSUME NEW S, 0 \in S, \A n \in Nat : n \in S => n + 1 \in S
  PROVE  Nat \subseteq S
<1> DEFINE T == {1..n : n \in Nat \ S}
<1>1. SUFFICES ASSUME T # {} PROVE FALSE
  OBVIOUS
<1>2. \A n \in Nat : 1..n \in FiniteSubsetsOf(Nat)
  BY FS_Interval DEF FiniteSubsetsOf
<1>3. IsWellFoundedOn(StrictSubsetOrdering(Nat), FiniteSubsetsOf(Nat))
  BY FS_StrictSubsetOrderingWellFounded
<1>4. PICK A \in T : \A B \in T : <<B, A>> \notin StrictSubsetOrdering(Nat)
  <2>1. T \subseteq FiniteSubsetsOf(Nat)
    BY <1>2
  <2> HIDE DEF T
  <2> QED
    BY <1>1, <1>3, <2>1, WFMin
<1>5. PICK n \in Nat \ S : A = 1..n
  OBVIOUS
<1>6. n - 1 \in Nat \ S
  OBVIOUS
<1>7. 1..(n - 1) \in T
  BY <1>6
<1>8. <<1..(n - 1), 1..n>> \in StrictSubsetOrdering(Nat)
  BY DEF StrictSubsetOrdering
<1> QED
  BY <1>4, <1>5, <1>7, <1>8

\* A function can be applied any number of times.
Iteration(T, F, x, g) ==
  g \in [Nat -> T] /\ g[0] = x /\ \A n \in Nat : g[n + 1] = F[g[n]]

\* Iterating a function is a function of how often.
LEMMA Iterates ==
  ASSUME NEW T, NEW F \in [T -> T], NEW x \in T
  PROVE  \E g : Iteration(T, F, x, g)
<1> DEFINE Upto(n, h) == /\ h \in [0..n -> T] /\ h[0] = x
                         /\ \A i \in 0..n : i < n => h[i + 1] = F[h[i]]
<1>1. \A n \in Nat : \E h : Upto(n, h)
  <2> DEFINE S == {n \in Nat : \E h : Upto(n, h)}
  <2>1. 0 \in S
    <3>1. Upto(0, [i \in 0..0 |-> x])
      OBVIOUS
    <3> QED
      BY <3>1
  <2>2. ASSUME NEW n \in Nat, n \in S PROVE n + 1 \in S
    <3>1. PICK h : Upto(n, h)
      BY <2>2
    <3> DEFINE k == [i \in 0..(n + 1) |-> IF i <= n THEN h[i] ELSE F[h[n]]]
    <3>2. k \in [0..(n + 1) -> T] /\ k[0] = x
      BY <3>1
    <3>3. ASSUME NEW i \in 0..(n + 1), i < n + 1 PROVE k[i + 1] = F[k[i]]
      <4>1. i \in 0..n /\ i + 1 \in 0..(n + 1)
        BY <3>3
      <4> QED
        BY <3>1, <4>1
    <3>4. Upto(n + 1, k)
      BY <3>2, <3>3
    <3> QED
      BY <3>4
  <2> HIDE DEF S
  <2>3. Nat \subseteq S
    BY <2>1, <2>2, NatsByInduction
  <2> QED
    BY <2>3 DEF S
<1>2. PICK some : \A n \in Nat : Upto(n, some[n])
  <2> HIDE DEF Upto
  <2>1. \A n \in Nat : Upto(n, [k \in Nat |-> CHOOSE h : Upto(k, h)][n])
    BY <1>1
  <2> QED
    BY <2>1
<1>3. ASSUME NEW m \in Nat, NEW a, NEW b, Upto(m, a), Upto(m + 1, b)
      PROVE  a[m] = b[m]
  <2> DEFINE S == {i \in Nat : i <= m => a[i] = b[i]}
  <2>1. 0 \in S
    BY <1>3
  <2>2. ASSUME NEW i \in Nat, i \in S PROVE i + 1 \in S
    BY <1>3, <2>2
  <2> HIDE DEF S
  <2>3. m \in S
    BY <2>1, <2>2, NatsByInduction
  <2> QED
    BY <2>3 DEF S
<1> DEFINE g == [n \in Nat |-> some[n][n]]
<1>4. g[0] = x /\ g \in [Nat -> T]
  BY <1>2
<1>5. ASSUME NEW n \in Nat PROVE g[n + 1] = F[g[n]]
  <2>1. Upto(n, some[n]) /\ Upto(n + 1, some[n + 1])
    BY <1>2
  <2>2. some[n][n] = some[n + 1][n]
    <3> HIDE DEF Upto
    <3> QED
      BY <1>3, <2>1
  <2>3. some[n + 1][n + 1] = F[some[n + 1][n]]
    BY <2>1
  <2> QED
    BY <2>2, <2>3
<1> HIDE DEF g
<1> QED
  BY <1>4, <1>5 DEF Iteration

-----------------------------------------------------------------------------
(* Walks                                                                   *)

\* What the walk has reached at each step.
Walks(g, starts, w) ==
  /\ Walk(g, starts) = w[MaxDepth]
  /\ w[0] = starts
  /\ \A d \in Nat : d < MaxDepth => w[d + 1] = w[d] \cup Joined(g, w[d])

\* The recursive query is such a walk.
LEMMA WalkUnfolds ==
  ASSUME NEW g, NEW starts \in SUBSET Sources
  PROVE  \E w : Walks(g, starts, w)
<1> DEFINE T == SUBSET Sources
           F == [S \in T |-> S \cup Joined(g, S)]
           Is(w) == w = [d \in 0..MaxDepth |->
                          IF d = 0 THEN starts
                          ELSE LET near == w[d - 1] IN near \cup Joined(g, near)]
<1>1. F \in [T -> T] /\ starts \in T
  BY DEF Joined
<1>2. PICK h : Iteration(T, F, starts, h)
  <2> HIDE DEF F, T
  <2> QED
    BY <1>1, Iterates
<1>3. Is([d \in 0..MaxDepth |-> h[d]])
  <2> DEFINE r == [d \in 0..MaxDepth |-> h[d]]
  <2>1. ASSUME NEW d \in 0..MaxDepth
        PROVE  h[d] = IF d = 0 THEN starts
                      ELSE LET near == r[d - 1] IN near \cup Joined(g, near)
    <3>1. CASE d = 0
      BY <1>2, <3>1 DEF Iteration
    <3>2. CASE d # 0
      <4>1. d - 1 \in Nat /\ d - 1 \in 0..MaxDepth /\ d = (d - 1) + 1
        BY <3>2, BoundsAssumption
      <4>2. h[(d - 1) + 1] = F[h[d - 1]] /\ h[d - 1] \in SUBSET Sources
        BY <1>2, <4>1 DEF Iteration
      <4>3. h[d] = h[d - 1] \cup Joined(g, h[d - 1])
        BY <4>1, <4>2
      <4> QED
        BY <3>2, <4>1, <4>3
    <3> QED
      BY <3>1, <3>2
  <2> QED
    BY <2>1
<1> DEFINE w == CHOOSE f : Is(f)
<1>4. Is(w)
  <2> HIDE DEF Is
  <2> QED
    BY <1>3
<1>5. Walk(g, starts) = w[MaxDepth]
  BY DEF Walk
<1> HIDE DEF w
<1>6. w[0] = starts
  BY <1>4, BoundsAssumption
<1>7. ASSUME NEW d \in Nat, d < MaxDepth PROVE w[d + 1] = w[d] \cup Joined(g, w[d])
  <2>1. d + 1 \in 0..MaxDepth /\ d + 1 # 0 /\ (d + 1) - 1 = d
    BY <1>7, BoundsAssumption
  <2> QED
    BY <1>4, <2>1
<1> HIDE DEF Is
<1> QED
  BY <1>5, <1>6, <1>7 DEF Walks

\* The walk reaches the decisions that were asked about.
LEMMA WalkStarts ==
  ASSUME NEW g, NEW starts \in SUBSET Sources
  PROVE  starts \subseteq Walk(g, starts)
<1>1. PICK w : Walks(g, starts, w)
  BY WalkUnfolds
<1> DEFINE S == {d \in Nat : d <= MaxDepth => starts \subseteq w[d]}
<1>2. 0 \in S
  BY <1>1 DEF Walks
<1>3. ASSUME NEW d \in Nat, d \in S PROVE d + 1 \in S
  BY <1>1, <1>3, BoundsAssumption DEF Walks
<1>4. Nat \subseteq S
  <2> HIDE DEF S
  <2> QED
    BY <1>2, <1>3, NatsByInduction
<1> QED
  BY <1>1, <1>4, BoundsAssumption DEF Walks

-----------------------------------------------------------------------------
(* Paths of edges                                                          *)

\* One step along the edges.
NextOn(E, S) == S \cup {e.to : e \in {f \in E : f.from \in S}}

\* What following the edges has reached at each step.
Follows(E, u, a) ==
  /\ Downstream(E, u) = a[Cardinality(E)]
  /\ a[0] = {u}
  /\ \A n \in Nat : n < Cardinality(E) => a[n + 1] = NextOn(E, a[n])

\* Downstream is found in such steps.
LEMMA DownstreamUnfolds ==
  ASSUME NEW E, IsFiniteSet(E), NEW u
  PROVE  \E a : Follows(E, u, a)
<1> DEFINE N == Cardinality(E)
           T == SUBSET ({u} \cup {e.to : e \in E})
           F == [S \in T |-> NextOn(E, S)]
           Is(a) == a = [n \in 0..N |->
                          IF n = 0 THEN {u}
                          ELSE LET S == a[n - 1]
                               IN  S \cup {e.to : e \in {f \in E : f.from \in S}}]
<1>1. N \in Nat
  BY FS_CardinalityType
<1>2. F \in [T -> T] /\ {u} \in T
  BY DEF NextOn
<1> HIDE DEF N
<1>3. PICK h : Iteration(T, F, {u}, h)
  <2> HIDE DEF F, T
  <2> QED
    BY <1>2, Iterates
<1>4. Is([n \in 0..N |-> h[n]])
  <2> DEFINE r == [n \in 0..N |-> h[n]]
  <2>1. ASSUME NEW n \in 0..N
        PROVE  h[n] = IF n = 0 THEN {u}
                      ELSE LET S == r[n - 1]
                           IN  S \cup {e.to : e \in {f \in E : f.from \in S}}
    <3>1. CASE n = 0
      BY <1>3, <3>1 DEF Iteration
    <3>2. CASE n # 0
      <4>1. n - 1 \in Nat /\ n - 1 \in 0..N /\ n = (n - 1) + 1
        BY <3>2, <1>1
      <4>2. h[(n - 1) + 1] = F[h[n - 1]] /\ h[n - 1] \in T
        <5> HIDE DEF T, F
        <5> QED
          BY <1>3, <4>1 DEF Iteration
      <4>3. h[n] = NextOn(E, h[n - 1])
        <5> HIDE DEF T
        <5> QED
          BY <4>1, <4>2
      <4> QED
        BY <3>2, <4>1, <4>3 DEF NextOn
    <3> QED
      BY <3>1, <3>2
  <2> QED
    BY <2>1
<1> DEFINE a == CHOOSE f : Is(f)
<1>5. Is(a)
  <2> HIDE DEF Is
  <2> QED
    BY <1>4
<1>6. Downstream(E, u) = a[N]
  BY DEF Downstream, N
<1> HIDE DEF a
<1>7. a[0] = {u}
  BY <1>1, <1>5
<1>8. ASSUME NEW n \in Nat, n < N PROVE a[n + 1] = NextOn(E, a[n])
  <2>1. n + 1 \in 0..N /\ n + 1 # 0 /\ (n + 1) - 1 = n
    BY <1>1, <1>8
  <2> QED
    BY <1>5, <2>1 DEF NextOn
<1> HIDE DEF Is
<1> QED
  BY <1>6, <1>7, <1>8 DEF N, Follows

\* The decisions that edges lead to.
Heads(E) == {e.to : e \in E}

\* S has what the edges lead to from it.
Closed(E, S) == \A e \in E : e.from \in S => e.to \in S

\* Nothing leads out of a closed set.
LEMMA ReachesInClosed ==
  ASSUME NEW E, NEW u, NEW v, Reaches(E, u, v), NEW S, u \in S, Closed(E, S)
  PROVE  v \in S
<1> DEFINE T == S \cap {e.to : e \in E}
<1>1. T \in SUBSET {e.to : e \in E} /\ \A e \in E : e.from \in T \cup {u} => e.to \in T
  BY DEF Closed
<1> QED
  BY <1>1 DEF Reaches

\* S has what leads to it.
\* Nothing leads into a set that has what leads to it.
LEMMA ReachesFromOpen ==
  ASSUME NEW E, NEW u, NEW v, Reaches(E, u, v), NEW S, v \in S,
         \A e \in E : e.to \in S => e.from \in S
  PROVE  u \in S
<1>1. SUFFICES ASSUME u \notin S PROVE FALSE
  OBVIOUS
<1> DEFINE T == {e.to : e \in E} \ S
<1>2. T \in SUBSET {e.to : e \in E} /\ \A e \in E : e.from \in T \cup {u} => e.to \in T
  BY <1>1
<1>3. u # v => v \in T
  BY <1>2 DEF Reaches
<1> QED
  BY <1>1, <1>3

\* One edge more is reached.
LEMMA ReachesStep ==
  ASSUME NEW E, NEW u, NEW e \in E, Reaches(E, u, e.from)
  PROVE  Reaches(E, u, e.to)
<1>1. SUFFICES ASSUME NEW S \in SUBSET {f.to : f \in E},
                      \A f \in E : f.from \in S \cup {u} => f.to \in S
               PROVE  e.to \in S
  BY DEF Reaches
<1>2. Closed(E, S \cup {u})
  BY <1>1 DEF Closed
<1>3. e.from \in S \cup {u}
  BY <1>2, ReachesInClosed
<1> QED
  BY <1>1, <1>3

\* What an edge leads to is reached from where it starts.
LEMMA ReachesFrom ==
  ASSUME NEW E, NEW e \in E, NEW v, Reaches(E, e.to, v)
  PROVE  Reaches(E, e.from, v)
<1>1. SUFFICES ASSUME NEW S \in SUBSET {f.to : f \in E},
                      \A f \in E : f.from \in S \cup {e.from} => f.to \in S
               PROVE  v \in S
  BY DEF Reaches
<1>2. e.to \in S /\ Closed(E, S)
  BY <1>1 DEF Closed
<1> QED
  BY <1>2, ReachesInClosed

\* Following the edges as many times as there are edges finds what they lead to.
LEMMA DownstreamIsReached ==
  ASSUME NEW E, IsFiniteSet(E), NEW u, NEW v
  PROVE  v \in Downstream(E, u) <=> Reaches(E, u, v)
<1> DEFINE N == Cardinality(E)
<1>1. N \in Nat
  BY FS_CardinalityType
<1>2. PICK a : Follows(E, u, a)
  BY DownstreamUnfolds
<1> USE <1>1, <1>2 DEF Follows
<1>3. ASSUME v \in Downstream(E, u) PROVE Reaches(E, u, v)
  <2> DEFINE S == {n \in Nat : n <= N => \A x \in a[n] : Reaches(E, u, x)}
  <2>1. 0 \in S
    BY DEF Reaches
  <2>2. ASSUME NEW n \in Nat, n \in S PROVE n + 1 \in S
    <3>1. SUFFICES ASSUME n + 1 <= N, NEW x \in a[n + 1] PROVE Reaches(E, u, x)
      OBVIOUS
    <3>2. \A y \in a[n] : Reaches(E, u, y)
      BY <2>2, <3>1
    <3>3. CASE x \in a[n]
      BY <3>2, <3>3
    <3>4. CASE \E e \in E : e.from \in a[n] /\ e.to = x
      BY <3>2, <3>4, ReachesStep
    <3> QED
      BY <3>1, <3>3, <3>4 DEF NextOn
  <2> HIDE DEF S
  <2>3. N \in S
    BY <2>1, <2>2, NatsByInduction
  <2> QED
    BY <1>3, <2>3 DEF S
<1>4. \A n \in Nat : n <= N => u \in a[n] /\ a[n] \subseteq {u} \cup Heads(E)
  <2> DEFINE S == {n \in Nat : n <= N => u \in a[n] /\ a[n] \subseteq {u} \cup Heads(E)}
  <2>1. 0 \in S
    OBVIOUS
  <2>2. ASSUME NEW n \in Nat, n \in S PROVE n + 1 \in S
    <3>1. SUFFICES ASSUME n + 1 <= N
                   PROVE  u \in a[n + 1] /\ a[n + 1] \subseteq {u} \cup Heads(E)
      OBVIOUS
    <3>2. a[n + 1] = NextOn(E, a[n]) /\ u \in a[n] /\ a[n] \subseteq {u} \cup Heads(E)
      BY <2>2, <3>1
    <3> QED
      BY <3>2 DEF NextOn, Heads
  <2> HIDE DEF S
  <2>3. Nat \subseteq S
    BY <2>1, <2>2, NatsByInduction
  <2> QED
    BY <2>3 DEF S
<1>5. IsFiniteSet(Heads(E)) /\ Cardinality(Heads(E)) <= N
  <2> DEFINE f == [e \in E |-> e.to]
  <2>1. f \in Surjection(E, Heads(E))
    BY DEF Surjection, Heads
  <2> HIDE DEF f
  <2> QED
    BY <2>1, FS_Surjection
<1>6. IsFiniteSet({u} \cup Heads(E)) /\ Cardinality({u} \cup Heads(E)) <= N + 1
  <2> DEFINE H == Heads(E)
             C == Cardinality(H)
  <2>1. IsFiniteSet(H) /\ C \in Nat /\ C <= N
    BY <1>5, FS_CardinalityType
  <2>2. {u} \cup H = H \cup {u}
    OBVIOUS
  <2> HIDE DEF H, N
  <2>3. IsFiniteSet(H \cup {u})
    BY <2>1, FS_AddElement
  <2>4. Cardinality(H \cup {u}) = C \/ Cardinality(H \cup {u}) = C + 1
    BY <2>1, FS_AddElement
  <2>5. Cardinality(H \cup {u}) <= N + 1
    <3> HIDE DEF C
    <3> QED
      BY <1>1, <2>1, <2>4
  <2> QED
    BY <2>2, <2>3, <2>5 DEF H
<1>7. \A n \in Nat : n <= N => Closed(E, a[n]) \/ Cardinality(a[n]) >= n + 1
  <2> DEFINE S == {n \in Nat : n <= N => Closed(E, a[n]) \/ Cardinality(a[n]) >= n + 1}
  <2>1. 0 \in S
    <3>1. Cardinality(a[0]) = 1
      BY FS_Singleton
    <3> QED
      BY <3>1
  <2>2. ASSUME NEW n \in Nat, n \in S PROVE n + 1 \in S
    <3>1. SUFFICES ASSUME n + 1 <= N
                   PROVE  Closed(E, a[n + 1]) \/ Cardinality(a[n + 1]) >= (n + 1) + 1
      OBVIOUS
    <3>2. a[n + 1] = NextOn(E, a[n])
      <4>1. n < N
        BY <1>1, <3>1
      <4> QED
        BY <1>2, <4>1 DEF Follows
    <3>3. CASE Closed(E, a[n])
      <4>1. a[n + 1] = a[n]
        BY <3>2, <3>3 DEF NextOn, Closed
      <4> QED
        BY <3>3, <4>1
    <3>4. CASE ~Closed(E, a[n])
      <4>1. PICK e \in E : e.from \in a[n] /\ e.to \notin a[n]
        BY <3>4 DEF Closed
      <4>2. a[n] \cup {e.to} \subseteq a[n + 1]
        BY <3>2, <4>1 DEF NextOn
      <4>3. IsFiniteSet(a[n]) /\ IsFiniteSet(a[n + 1])
        BY <1>4, <1>6, <3>1, FS_Subset
      <4>4. Cardinality(a[n] \cup {e.to}) = Cardinality(a[n]) + 1
        BY <4>1, <4>3, FS_AddElement
      <4>5. Cardinality(a[n] \cup {e.to}) <= Cardinality(a[n + 1])
        BY <4>2, <4>3, FS_Subset
      <4>6. Cardinality(a[n]) >= n + 1
        BY <2>2, <3>1, <3>4
      <4>7. Cardinality(a[n]) \in Nat /\ Cardinality(a[n + 1]) \in Nat
        BY <4>3, FS_CardinalityType
      <4> QED
        BY <4>4, <4>5, <4>6, <4>7
    <3> QED
      BY <3>3, <3>4
  <2> HIDE DEF S
  <2>3. Nat \subseteq S
    BY <2>1, <2>2, NatsByInduction
  <2> QED
    BY <2>3 DEF S
<1>8. Closed(E, Downstream(E, u))
  <2>1. CASE Closed(E, a[N])
    BY <2>1
  <2>2. CASE Cardinality(a[N]) >= N + 1
    <3>1. a[N] \subseteq {u} \cup Heads(E)
      BY <1>4
    <3>2. Cardinality(a[N]) <= Cardinality({u} \cup Heads(E))
      BY <1>6, <3>1, FS_Subset
    <3>3. Cardinality(a[N]) \in Int /\ Cardinality({u} \cup Heads(E)) \in Int
      BY <1>6, <3>1, FS_Subset, FS_CardinalityType
    <3>4. a[N] = {u} \cup Heads(E)
      BY <1>6, <2>2, <3>1, <3>2, <3>3, FS_Subset
    <3> QED
      BY <3>4 DEF Closed, Heads
  <2> QED
    BY <1>7, <2>1, <2>2
<1>9. u \in Downstream(E, u)
  BY <1>4
<1> QED
  BY <1>3, <1>8, <1>9, ReachesInClosed

-----------------------------------------------------------------------------
(* _status                                                                 *)
(* The function it recurses to exists: it is the iterate that no longer    *)
(* changes, for a call can still come to one decision less than its caller.*)

\* The decisions being visited in the calls that a call makes, and those it can
\* still come to.
Seen(call) == call[1] \cup {call[2]}
Rest(call) == Sources \ Seen(call)

\* What a call returns depends on its own calls alone.
LEMMA ReturnedByCalls ==
  ASSUME NEW c, NEW K \in SUBSET Link, NEW call \in Calls, NEW f, NEW g,
         \A t \in Rest(call) : f[<<Seen(call), t>>] = g[<<Seen(call), t>>]
  PROVE  Returned(c, K, f, call) = Returned(c, K, g, call)
<1> DEFINE live(h) == {e \in K : /\ e.to = call[2]
                                 /\ e.from \notin Seen(call)
                                 /\ Overturns(h[<<Seen(call), e.from>>].state)}
<1>1. \A e \in K : e.from \notin Seen(call) => e.from \in Rest(call)
  BY DEF Rest, Link
<1>2. live(f) = live(g)
  BY <1>1
<1>3. \A h : Returned(c, K, h, call) =
         IF call[2] \notin c.nodes THEN NotOverturned("unknown")
         ELSE IF live(h) = {} THEN NotOverturned("active")
         ELSE Overturned(Newest(c, live(h)))
  BY DEF Returned, Seen
<1> HIDE DEF live
<1> QED
  BY <1>2, <1>3

\* The calls of a call have less left to come to.
LEMMA CallsInRest ==
  ASSUME NEW call \in Calls, NEW t \in Rest(call)
  PROVE  /\ <<Seen(call), t>> \in Calls
         /\ Rest(<<Seen(call), t>>) = Rest(call) \ {t}
BY DEF Calls, Rest, Seen

\* What a call can still come to is finite.
LEMMA RestIsFinite ==
  ASSUME NEW call \in Calls
  PROVE  IsFiniteSet(Rest(call)) /\ Cardinality(Rest(call)) \in 0..Cardinality(Sources)
<1>1. Rest(call) \in SUBSET Sources
  BY DEF Rest
<1>2. IsFiniteSet(Rest(call)) /\ Cardinality(Rest(call)) <= Cardinality(Sources)
  BY <1>1, FiniteAssumption, FS_Subset
<1> QED
  BY <1>2, FiniteAssumption, FS_CardinalityType

\* The function that the definition of _status picks out.
Solves(c, f) == f = [call \in Calls |-> Returned(c, Counted(c), f, call)]

\* There is one: whatever _status is asked, it returns.
LEMMA StatusReturns ==
  ASSUME NEW c, c.edges \in SUBSET Link
  PROVE  \E f : Solves(c, f)
<1> DEFINE K == Counted(c)
           Val == {NotOverturned("unknown"), NotOverturned("active")} \cup
                    {Overturned(Newest(c, L)) : L \in SUBSET K}
           T == [Calls -> Val]
           F == [f \in T |-> [call \in Calls |-> Returned(c, K, f, call)]]
           f0 == [call \in Calls |-> NotOverturned("active")]
           N == Cardinality(Sources)
<1>1. K \in SUBSET Link
  BY DEF Counted
<1>2. ASSUME NEW f, NEW call \in Calls PROVE Returned(c, K, f, call) \in Val
  <2> DEFINE live == {e \in K : /\ e.to = call[2]
                                /\ e.from \notin call[1] \cup {call[2]}
                                /\ Overturns(f[<<call[1] \cup {call[2]}, e.from>>].state)}
  <2>1. live \in SUBSET K
    OBVIOUS
  <2>2. Returned(c, K, f, call) =
         IF call[2] \notin c.nodes THEN NotOverturned("unknown")
         ELSE IF live = {} THEN NotOverturned("active")
         ELSE Overturned(Newest(c, live))
    BY DEF Returned
  <2> HIDE DEF live, K
  <2> QED
    BY <2>1, <2>2
<1>3. F \in [T -> T] /\ f0 \in T
  <2> HIDE DEF K, Val
  <2>1. ASSUME NEW f \in T PROVE [call \in Calls |-> Returned(c, K, f, call)] \in T
    BY <1>2
  <2>2. f0 \in T
    BY DEF Val
  <2> QED
    BY <2>1, <2>2
<1>4. PICK h : Iteration(T, F, f0, h)
  <2> HIDE DEF T, F, f0
  <2> QED
    BY <1>3, Iterates
<1>5. \A n \in Nat : h[n + 1] = [call \in Calls |-> Returned(c, K, h[n], call)]
  <2> HIDE DEF T, K
  <2> QED
    BY <1>4 DEF Iteration
<1> HIDE DEF Val, T, F, f0, K
<1>6. \A n \in Nat : \A call \in Calls :
         Cardinality(Rest(call)) <= n => h[n + 1][call] = h[n + 2][call]
  <2> DEFINE S == {n \in Nat : \A call \in Calls :
                     Cardinality(Rest(call)) <= n => h[n + 1][call] = h[n + 2][call]}
  <2>1. ASSUME NEW n \in Nat, NEW call \in Calls,
               \A t \in Rest(call) : h[n][<<Seen(call), t>>] = h[n + 1][<<Seen(call), t>>]
        PROVE  h[n + 1][call] = h[n + 2][call]
    <3>1. Returned(c, K, h[n], call) = Returned(c, K, h[n + 1], call)
      BY <1>1, <2>1, ReturnedByCalls
    <3>2. h[n + 1][call] = Returned(c, K, h[n], call)
      BY <1>5
    <3>3. h[(n + 1) + 1] = [k \in Calls |-> Returned(c, K, h[n + 1], k)]
      BY <1>5
    <3> QED
      BY <3>1, <3>2, <3>3
  <2>2. 0 \in S
    <3>1. ASSUME NEW call \in Calls, Cardinality(Rest(call)) <= 0 PROVE Rest(call) = {}
      BY <3>1, RestIsFinite, FS_EmptySet
    <3> QED
      BY <2>1, <3>1
  <2>3. ASSUME NEW n \in Nat, n \in S PROVE n + 1 \in S
    <3>1. SUFFICES ASSUME NEW call \in Calls, Cardinality(Rest(call)) <= n + 1
                   PROVE  h[(n + 1) + 1][call] = h[(n + 1) + 2][call]
      OBVIOUS
    <3>2. ASSUME NEW t \in Rest(call)
          PROVE  h[n + 1][<<Seen(call), t>>] = h[(n + 1) + 1][<<Seen(call), t>>]
      <4>1. Cardinality(Rest(call) \ {t}) = Cardinality(Rest(call)) - 1
        BY RestIsFinite, FS_RemoveElement
      <4>2. Cardinality(Rest(<<Seen(call), t>>)) <= n
        BY <3>1, <4>1, CallsInRest, RestIsFinite
      <4> QED
        BY <2>3, <4>2, CallsInRest
    <3> QED
      BY <2>1, <3>2
  <2> HIDE DEF S
  <2>4. Nat \subseteq S
    BY <2>2, <2>3, NatsByInduction
  <2> QED
    BY <2>4 DEF S
<1>7. N \in Nat /\ \A call \in Calls : Cardinality(Rest(call)) <= N
  BY RestIsFinite, FiniteAssumption, FS_CardinalityType
<1>8. \A call \in Calls : h[N + 1][call] = Returned(c, K, h[N + 1], call)
  <2> HIDE DEF N
  <2>1. h[(N + 1) + 1] = [call \in Calls |-> Returned(c, K, h[N + 1], call)]
    BY <1>5, <1>7
  <2> QED
    BY <1>6, <1>7, <2>1
<1>9. h[N + 1] = [call \in Calls |-> Returned(c, K, h[N], call)]
  BY <1>5, <1>7
<1>10. Solves(c, h[N + 1])
  <2>1. h[N + 1] = [call \in Calls |-> h[N + 1][call]]
    BY <1>9
  <2> QED
    BY <1>8, <2>1 DEF Solves, K
<1> QED
  BY <1>10

\* _status of every decision is given by such a function.
LEMMA StatusUnfolds ==
  ASSUME NEW c, c.edges \in SUBSET Link
  PROVE  \E f : Solves(c, f) /\ StatusIn(c) = [s \in Sources |-> f[<<{}, s>>]]
<1> DEFINE f == CHOOSE g : Solves(c, g)
<1>1. Solves(c, f)
  BY StatusReturns
<1>2. StatusIn(c) = [s \in Sources |-> f[<<{}, s>>]]
  BY DEF StatusIn, Solves
<1> HIDE DEF f
<1> QED
  BY <1>1, <1>2

-----------------------------------------------------------------------------
(* What can have a say                                                     *)
(* A status is read off the edges that lead to it, in the end.             *)

\* What is reached along some edges is reached along more of them.
LEMMA ReachesGrows ==
  ASSUME NEW E, NEW F \in SUBSET E, NEW u, NEW v, Reaches(F, u, v)
  PROVE  Reaches(E, u, v)
<1>1. SUFFICES ASSUME u # v,
                      NEW S \in SUBSET {e.to : e \in E},
                      \A e \in E : e.from \in S \cup {u} => e.to \in S
               PROVE  v \in S
  BY DEF Reaches
<1> DEFINE T == S \cap {e.to : e \in F}
<1>2. T \in SUBSET {e.to : e \in F}
  OBVIOUS
<1>3. \A e \in F : e.from \in T \cup {u} => e.to \in T
  BY <1>1
<1>4. v \in T
  BY <1>1, <1>2, <1>3 DEF Reaches
<1> QED
  BY <1>4

\* Every edge to one of U comes from one of U.
Upward(E, U) == \A e \in E : e.to \in U => e.from \in U

\* The edges to decisions of U.
Into(E, U) == {e \in E : e.to \in U}

\* Two components that are the same as far as U goes.
Alike(b, c, U) ==
  /\ Upward(b.edges, U) /\ Upward(c.edges, U)
  /\ Into(b.edges, U) = Into(c.edges, U)
  /\ b.nodes \cap U = c.nodes \cap U
  /\ \A s \in U : b.date[s] = c.date[s]

\* What leads to one of U stays in U.
LEMMA ReachesWithin ==
  ASSUME NEW E, NEW U, Upward(E, U), NEW u, NEW v \in U, Reaches(E, u, v)
  PROVE  Reaches(Into(E, U), u, v)
<1>1. SUFFICES ASSUME u # v,
                      NEW S \in SUBSET {e.to : e \in Into(E, U)},
                      \A e \in Into(E, U) : e.from \in S \cup {u} => e.to \in S
               PROVE  v \in S
  BY DEF Reaches
<1> DEFINE T == S \cup {x \in {e.to : e \in E} : x \notin U}
<1>2. T \in SUBSET {e.to : e \in E}
  BY DEF Into
<1>3. \A e \in E : e.from \in T \cup {u} => e.to \in T
  BY <1>1 DEF Upward, Into
<1>4. v \in T
  BY <1>1, <1>2, <1>3 DEF Reaches
<1> QED
  BY <1>4

\* An edge that counts in one of two such components counts in the other.
LEMMA CountedThere ==
  ASSUME NEW b, NEW c, NEW U, Alike(b, c, U), NEW e \in Into(Counted(b), U)
  PROVE  e \in Into(Counted(c), U)
<1>1. e \in Into(b.edges, U) /\ e \in c.edges /\ e.from \in U /\ e.to \in U
  BY DEF Alike, Into, Counted, Upward
<1>2. ~Reaches(b.edges, e.to, e.from) /\ Credible(b, e.from)
  BY <1>1 DEF Into, Counted, Cyclic
<1>3. ASSUME Reaches(c.edges, e.to, e.from) PROVE FALSE
  <2>1. Reaches(Into(b.edges, U), e.to, e.from)
    BY <1>1, <1>3, ReachesWithin DEF Alike
  <2> QED
    BY <1>2, <2>1, ReachesGrows DEF Into
<1>4. Credible(c, e.from)
  BY <1>1, <1>2 DEF Credible, Alike
<1> QED
  BY <1>1, <1>3, <1>4 DEF Into, Counted, Cyclic

\* The same edges count in both.
LEMMA CountedAlike ==
  ASSUME NEW b, NEW c, NEW U, Alike(b, c, U)
  PROVE  Into(Counted(b), U) = Into(Counted(c), U)
<1>1. Alike(c, b, U)
  BY DEF Alike
<1> QED
  BY <1>1, CountedThere

\* The order of overturners looks at dates only.
LEMMA NewestAlike ==
  ASSUME NEW b, NEW c, NEW L, \A e \in L : b.date[e.from] = c.date[e.from]
  PROVE  Newest(b, L) = Newest(c, L)
BY DEF Newest

\* Of all the calls in a set there is one whose own calls are not in the set.
LEMMA CallsEnd ==
  ASSUME NEW B \in SUBSET Calls, B # {}
  PROVE  \E call \in B : \A t \in Rest(call) : <<Seen(call), t>> \notin B
<1> DEFINE T == {Rest(call) : call \in B}
<1>1. T \subseteq SUBSET Sources /\ T # {}
  BY DEF Rest
<1>2. PICK A \in T : \A R \in T : R \subseteq A => R = A
  <2> HIDE DEF T
  <2> QED
    BY <1>1, FiniteAssumption, SmallestSet
<1>3. PICK call \in B : A = Rest(call)
  OBVIOUS
<1>4. ASSUME NEW t \in Rest(call), <<Seen(call), t>> \in B PROVE FALSE
  <2>1. Rest(<<Seen(call), t>>) = Rest(call) \ {t}
    BY CallsInRest
  <2>2. Rest(call) \ {t} \in T
    BY <1>4, <2>1
  <2> QED
    BY <1>2, <1>3, <2>2
<1> QED
  BY <1>4

\* A decision has one status in two components that are the same in all that can
\* have a say in it.
LEMMA StatusAlike ==
  ASSUME NEW b, b.edges \in SUBSET Link, NEW c, c.edges \in SUBSET Link,
         NEW U \in SUBSET Sources, Alike(b, c, U), NEW s \in U
  PROVE  StatusIn(b)[s] = StatusIn(c)[s]
<1>1. PICK f : Solves(b, f) /\ StatusIn(b) = [x \in Sources |-> f[<<{}, x>>]]
  BY StatusUnfolds
<1>2. PICK g : Solves(c, g) /\ StatusIn(c) = [x \in Sources |-> g[<<{}, x>>]]
  BY StatusUnfolds
<1> DEFINE B == {call \in Calls : call[2] \in U /\ f[call] # g[call]}
<1>3. ASSUME B # {} PROVE FALSE
  <2>1. PICK call \in B : \A t \in Rest(call) : <<Seen(call), t>> \notin B
    <3> HIDE DEF B
    <3>1. B \in SUBSET Calls
      BY DEF B
    <3> QED
      BY <1>3, <3>1, CallsEnd
  <2>2. \A t \in Rest(call) \cap U : f[<<Seen(call), t>>] = g[<<Seen(call), t>>]
    BY <2>1, CallsInRest
  <2> DEFINE live(E, h) == {e \in E : /\ e.to = call[2]
                                      /\ e.from \notin Seen(call)
                                      /\ Overturns(h[<<Seen(call), e.from>>].state)}
  <2>3. call \in Calls /\ call[2] \in U
    BY <2>1
  <2>4. \A E, h : live(E, h) = live(Into(E, U), h)
    BY <2>3 DEF Into
  <2>5. \A e \in Into(Counted(b), U) : e.from \in U /\ e.from \in Sources
    BY DEF Into, Counted, Alike, Upward
  <2>6. live(Into(Counted(b), U), f) = live(Into(Counted(b), U), g)
    BY <2>2, <2>5 DEF Rest
  <2>7. live(Counted(b), f) = live(Counted(c), g)
    <3> HIDE DEF live
    <3> QED
      BY <2>4, <2>6, CountedAlike
  <2>8. \A e \in live(Counted(b), f) : b.date[e.from] = c.date[e.from]
    BY <2>3, <2>5 DEF Into, Alike
  <2>9. Newest(b, live(Counted(b), f)) = Newest(c, live(Counted(b), f))
    <3> HIDE DEF live
    <3> QED
      BY <2>8, NewestAlike
  <2>10. call[2] \in b.nodes <=> call[2] \in c.nodes
    BY <2>3 DEF Alike
  <2>11. f[call] = IF call[2] \notin b.nodes THEN NotOverturned("unknown")
                   ELSE IF live(Counted(b), f) = {} THEN NotOverturned("active")
                   ELSE Overturned(Newest(b, live(Counted(b), f)))
    BY <1>1, <2>3 DEF Solves, Returned, Seen
  <2>12. g[call] = IF call[2] \notin c.nodes THEN NotOverturned("unknown")
                   ELSE IF live(Counted(c), g) = {} THEN NotOverturned("active")
                   ELSE Overturned(Newest(c, live(Counted(c), g)))
    BY <1>2, <2>3 DEF Solves, Returned, Seen
  <2>13. f[call] = g[call]
    <3> HIDE DEF live
    <3> QED
      BY <2>7, <2>9, <2>10, <2>11, <2>12
  <2> QED
    BY <2>1, <2>13
<1>4. <<{}, s>> \in Calls
  BY DEF Calls
<1>5. f[<<{}, s>>] = g[<<{}, s>>]
  BY <1>3, <1>4
<1> QED
  BY <1>1, <1>2, <1>5

-----------------------------------------------------------------------------
(* Cycles                                                                  *)

\* The edges along which _status recurses have no cycle: after one of them,
\* none of the others leads back ("acyclic by construction", graph.py:434),
\* so the recursion ends, in every component of every graph, also one that
\* MaxDepth cut short.
THEOREM RecursionEnds ==
  ASSUME NEW c, NEW e \in Counted(c)
  PROVE  ~Reaches(Counted(c), e.to, e.from)
<1>1. e \in c.edges /\ e \notin Cyclic(c.edges)
  BY DEF Counted
<1>2. ~Reaches(c.edges, e.to, e.from)
  BY <1>1 DEF Cyclic
<1>3. Counted(c) \in SUBSET c.edges
  BY DEF Counted
<1> QED
  BY <1>2, <1>3, ReachesGrows

\* Two decisions that supersede or revert each other do not overturn each
\* other, whichever is newer and whatever else is linked to them.
THEOREM MutualIsIgnored ==
  ASSUME NEW c, NEW e \in c.edges, NEW f \in c.edges,
         e.from = f.to, e.to = f.from
  PROVE  e \notin Counted(c) /\ f \notin Counted(c)
<1>1. Reaches(c.edges, e.to, e.from) /\ Reaches(c.edges, f.to, f.from)
  BY DEF Reaches
<1> QED
  BY <1>1 DEF Counted, Cyclic

\* What leads to s along edges of K.
Behind(K, s) == {x \in Sources : Reaches(K, x, s)}

\* There is less behind the start of an edge that counts than behind its end.
LEMMA BehindShrinks ==
  ASSUME NEW c, c.edges \in SUBSET Link, NEW e \in Counted(c)
  PROVE  /\ e.from \in Behind(Counted(c), e.to) /\ e.from # e.to
         /\ Behind(Counted(c), e.from) \subseteq Behind(Counted(c), e.to)
         /\ e.to \in Behind(Counted(c), e.to) \ Behind(Counted(c), e.from)
<1>1. e \in Link
  BY DEF Counted
<1>2. \A x : Reaches(Counted(c), x, x)
  BY DEF Reaches
<1>3. \A x : Reaches(Counted(c), x, e.from) => Reaches(Counted(c), x, e.to)
  BY ReachesStep
<1>4. ~Reaches(Counted(c), e.to, e.from)
  BY RecursionEnds
<1> QED
  BY <1>1, <1>2, <1>3, <1>4 DEF Behind, Link

\* Induction along the edges that count.
LEMMA NothingBehind ==
  ASSUME NEW c, c.edges \in SUBSET Link, NEW B \in SUBSET Sources, B # {}
  PROVE  \E s \in B : \A e \in Counted(c) : e.to = s => e.from \notin B
<1> DEFINE K == Counted(c)
           T == {Behind(K, s) : s \in B}
<1>1. T \subseteq SUBSET Sources /\ T # {}
  BY DEF Behind
<1>2. PICK A \in T : \A R \in T : R \subseteq A => R = A
  <2> HIDE DEF T
  <2> QED
    BY <1>1, FiniteAssumption, SmallestSet
<1>3. PICK s \in B : A = Behind(K, s)
  OBVIOUS
<1>4. ASSUME NEW e \in K, e.to = s, e.from \in B PROVE FALSE
  <2>1. Behind(K, e.from) \in T
    BY <1>4
  <2>2. Behind(K, e.from) \subseteq A /\ Behind(K, e.from) # A
    BY <1>3, <1>4, BehindShrinks
  <2> QED
    BY <1>2, <2>1, <2>2
<1> QED
  BY <1>4

\* The decisions that are being visited never matter: the recursion would not come
\* back to them.
LEMMA VisitingIsIdle ==
  ASSUME NEW c, c.edges \in SUBSET Link, NEW f, Solves(c, f),
         NEW s \in Sources, NEW V \in SUBSET Sources, V \cap Behind(Counted(c), s) = {}
  PROVE  f[<<V, s>>] = f[<<{}, s>>]
<1> DEFINE K == Counted(c)
           Idle(x) == \A W \in SUBSET Sources : W \cap Behind(K, x) = {} =>
                        f[<<W, x>>] = f[<<{}, x>>]
           B == {x \in Sources : ~Idle(x)}
<1>1. ASSUME B # {} PROVE FALSE
  <2>1. PICK x \in B : \A e \in K : e.to = x => e.from \notin B
    <3> HIDE DEF B
    <3>1. B \in SUBSET Sources
      BY DEF B
    <3> QED
      BY <1>1, <3>1, NothingBehind
  <2>2. PICK W \in SUBSET Sources : W \cap Behind(K, x) = {} /\ f[<<W, x>>] # f[<<{}, x>>]
    BY <2>1
  <2>3. ASSUME NEW e \in K, e.to = x
        PROVE  /\ e.from \notin W \cup {x} /\ e.from \notin {} \cup {x}
               /\ f[<<W \cup {x}, e.from>>] = f[<<{}, e.from>>]
               /\ f[<<{} \cup {x}, e.from>>] = f[<<{}, e.from>>]
    <3>1. e.from \in Sources /\ Idle(e.from)
      BY <2>1, <2>3 DEF Counted, Link
    <3>2. (W \cup {x}) \cap Behind(K, e.from) = {} /\ ({} \cup {x}) \cap Behind(K, e.from) = {}
      BY <2>2, <2>3, BehindShrinks
    <3>3. W \cup {x} \in SUBSET Sources /\ {} \cup {x} \in SUBSET Sources
      BY <2>1
    <3>4. e.from \notin W \cup {x}
      BY <2>2, <2>3, BehindShrinks
    <3> QED
      BY <3>1, <3>2, <3>3, <3>4
  <2> DEFINE live(X) == {e \in K : /\ e.to = x /\ e.from \notin X
                                   /\ Overturns(f[<<X, e.from>>].state)}
  <2>4. live(W \cup {x}) = live({} \cup {x})
    BY <2>3
  <2>5. \A X \in SUBSET Sources : f[<<X, x>>] =
          IF x \notin c.nodes THEN NotOverturned("unknown")
          ELSE IF live(X \cup {x}) = {} THEN NotOverturned("active")
          ELSE Overturned(Newest(c, live(X \cup {x})))
    <3>1. ASSUME NEW X \in SUBSET Sources
          PROVE  f[<<X, x>>] = Returned(c, Counted(c), f, <<X, x>>)
      BY <2>1 DEF Solves, Calls
    <3> QED
      BY <3>1 DEF Returned
  <2> HIDE DEF live
  <2> QED
    BY <2>2, <2>4, <2>5
<1> QED
  BY <1>1

\* The edges to s that overturn it.
Speaking(c, s) == {e \in Counted(c) : e.to = s /\ Overturns(StatusIn(c)[e.from].state)}

\* _status, for all its recursion, says of a decision what a reader of the graph
\* would: it is overturned by the newest of its overturners that count and were not
\* reverted themselves.  The set of decisions being visited, which stops the
\* recursion on a cycle, never decides an answer.
THEOREM StatusByNeighbours ==
  ASSUME NEW c, c.edges \in SUBSET Link, NEW s \in Sources
  PROVE  StatusIn(c)[s] =
           IF s \notin c.nodes THEN NotOverturned("unknown")
           ELSE IF Speaking(c, s) = {} THEN NotOverturned("active")
           ELSE Overturned(Newest(c, Speaking(c, s)))
<1>1. PICK f : Solves(c, f) /\ StatusIn(c) = [x \in Sources |-> f[<<{}, x>>]]
  BY StatusUnfolds
<1> DEFINE live == {e \in Counted(c) : /\ e.to = s /\ e.from \notin {} \cup {s}
                                       /\ Overturns(f[<<{} \cup {s}, e.from>>].state)}
<1>2. ASSUME NEW e \in Counted(c), e.to = s
      PROVE  e.from \notin {} \cup {s} /\ f[<<{} \cup {s}, e.from>>] = StatusIn(c)[e.from]
  <2>1. e.from \in Sources /\ e.from # s
    BY <1>2, BehindShrinks DEF Counted, Link
  <2>2. ({} \cup {s}) \cap Behind(Counted(c), e.from) = {}
    BY <1>2, BehindShrinks
  <2>3. f[<<{} \cup {s}, e.from>>] = f[<<{}, e.from>>]
    BY <1>1, <2>1, <2>2, VisitingIsIdle
  <2> QED
    BY <1>1, <2>1, <2>3
<1>3. live = Speaking(c, s)
  BY <1>2 DEF Speaking
<1>4. f[<<{}, s>>] = Returned(c, Counted(c), f, <<{}, s>>)
  BY <1>1 DEF Solves, Calls
<1>5. f[<<{}, s>>] = IF s \notin c.nodes THEN NotOverturned("unknown")
                     ELSE IF live = {} THEN NotOverturned("active")
                     ELSE Overturned(Newest(c, live))
  BY <1>4 DEF Returned
<1> HIDE DEF live
<1> QED
  BY <1>1, <1>3, <1>5

-----------------------------------------------------------------------------
(* The rule                                                                *)
(* Of all the assignments one obeys the rule, and _status computes it.     *)

\* A stored graph: see TypeOK.
Stored(g) ==
  /\ g.event \in [Sources -> Int]
  /\ g.links \in SUBSET Link
  /\ \A l, m \in g.links : l.from = m.from /\ l.to = m.to => l = m

\* Links lead from decisions to decisions.
LEMMA LinkEnds ==
  \A l \in Link : l.from \in Sources /\ l.to \in Sources /\ l.from \in Nat
BY SourcesAssumption DEF Link

\* All of a graph as one component.
Whole(g) ==
  [edges |-> g.links, nodes |-> {s \in Sources : g.event[s] # Absent}, date |-> g.event]

\* f comes before e in the order of overturners.
Newer(date, e, f) ==
  date[e.from] < date[f.from] \/ (date[e.from] = date[f.from] /\ e.from < f.from)

\* Of some edges to one decision, one is the newest.
LEMMA OneIsNewest ==
  ASSUME NEW date \in [Sources -> Int], NEW E \in SUBSET Link, E # {}
  PROVE  \E e \in E : \A f \in E :
           date[f.from] < date[e.from] \/ (date[f.from] = date[e.from] /\ f.from <= e.from)
<1> DEFINE after(e) == {f.from : f \in {f \in E : Newer(date, e, f)}}
           T == {after(e) : e \in E}
<1>1. \A e \in E : e.from \in Sources /\ e.from \in Int /\ date[e.from] \in Int
  BY LinkEnds
<1>2. T \subseteq SUBSET Sources /\ T # {}
  <2>1. \A e \in E : after(e) \in SUBSET Sources
    BY <1>1
  <2> HIDE DEF after
  <2> QED
    BY <2>1
<1>3. PICK A \in T : \A R \in T : R \subseteq A => R = A
  <2> HIDE DEF T
  <2> QED
    BY <1>2, FiniteAssumption, SmallestSet
<1>4. PICK e \in E : A = after(e)
  OBVIOUS
<1>5. ASSUME NEW f \in E, Newer(date, e, f) PROVE FALSE
  <2>1. after(f) \subseteq after(e)
    <3>1. ASSUME NEW x \in E, Newer(date, f, x) PROVE Newer(date, e, x)
      BY <1>1, <1>5, <3>1 DEF Newer
    <3> QED
      BY <3>1
  <2>2. f.from \in after(e)
    BY <1>5
  <2>3. f.from \notin after(f)
    BY <1>1 DEF Newer
  <2>4. after(f) \in T
    OBVIOUS
  <2> HIDE DEF after, T
  <2> QED
    BY <1>3, <1>4, <2>1, <2>2, <2>3, <2>4
<1>6. ASSUME NEW f \in E
      PROVE  date[f.from] < date[e.from] \/ (date[f.from] = date[e.from] /\ f.from <= e.from)
  BY <1>1, <1>5 DEF Newer
<1> QED
  BY <1>6

\* The first edge of _status is the newest overturner of the rule.
LEMMA NewestIsFirst ==
  ASSUME NEW c, c.date \in [Sources -> Int], NEW E \in SUBSET Link, E # {},
         \A e, f \in E : e.from = f.from => e = f
  PROVE  /\ Newest(c, E) \in E
         /\ Newest(c, E) = CHOOSE e \in E : \A f \in E \ {e} :
              \/ c.date[f.from] < c.date[e.from]
              \/ c.date[f.from] = c.date[e.from] /\ f.from < e.from
<1>1. \A e \in E : e.from \in Int /\ c.date[e.from] \in Int
  BY LinkEnds
<1>2. \E e \in E : \A f \in E :
        c.date[f.from] < c.date[e.from] \/ (c.date[f.from] = c.date[e.from] /\ f.from <= e.from)
  BY OneIsNewest
<1>3. Newest(c, E) \in E
  BY <1>2 DEF Newest
<1> DEFINE P(e) == \A f \in E :
                     \/ c.date[f.from] < c.date[e.from]
                     \/ c.date[f.from] = c.date[e.from] /\ f.from <= e.from
           Q(e) == \A f \in E \ {e} :
                     \/ c.date[f.from] < c.date[e.from]
                     \/ c.date[f.from] = c.date[e.from] /\ f.from < e.from
<1>4. ASSUME NEW e \in E PROVE P(e) <=> Q(e)
  BY <1>1
<1>5. (CHOOSE e \in E : P(e)) = (CHOOSE e \in E : Q(e))
  <2> HIDE DEF P, Q
  <2> QED
    BY <1>4
<1> QED
  BY <1>3, <1>5 DEF Newest

\* There are only so many links.
LEMMA LinkIsFinite ==
  ASSUME NEW E \in SUBSET Link
  PROVE  IsFiniteSet(E)
<1> DEFINE P == Sources \X (Sources \X Kinds)
           f == [l \in Link |-> <<l.from, <<l.to, l.kind>>>>]
<1>1. IsFiniteSet(Kinds)
  <2>1. Kinds = {"supersedes"} \cup {"reverts"}
    BY DEF Kinds
  <2> QED
    BY <2>1, FS_Singleton, FS_Union
<1>2. IsFiniteSet(Sources \X Kinds)
  BY <1>1, FiniteAssumption, FS_Product
<1>3. IsFiniteSet(P)
  BY <1>2, FiniteAssumption, FS_Product
<1>4. f \in Injection(Link, P)
  <2>1. f \in [Link -> P]
    BY DEF Link
  <2>2. ASSUME NEW l \in Link, NEW m \in Link, f[l] = f[m] PROVE l = m
    BY <2>2 DEF Link
  <2> HIDE DEF f, P
  <2> QED
    BY <2>1, <2>2 DEF Injection, IsInjective
<1>5. IsFiniteSet(Link)
  <2> HIDE DEF f, P
  <2> QED
    BY <1>3, <1>4, FS_Injection
<1> QED
  BY <1>5, FS_Subset

\* The edges of the rule are the edges that count.
LEMMA CountingIsCounted ==
  ASSUME NEW g, Stored(g), NEW e
  PROVE  e \in Counted(Whole(g)) <=>
           /\ e \in g.links
           /\ g.event[e.from] # Absent /\ (e.from \in Commits \/ g.event[e.from] # NoDate)
           /\ e.from \notin Downstream(g.links, e.to)
<1>1. SUFFICES ASSUME e \in g.links
               PROVE  e \in Counted(Whole(g)) <=>
                        /\ g.event[e.from] # Absent
                        /\ e.from \in Commits \/ g.event[e.from] # NoDate
                        /\ e.from \notin Downstream(g.links, e.to)
  BY DEF Counted, Whole
<1>2. e.from \in Sources
  BY <1>1 DEF Stored, Link
<1>3. e.from \in Downstream(g.links, e.to) <=> Reaches(g.links, e.to, e.from)
  BY LinkIsFinite, DownstreamIsReached DEF Stored
<1>4. Credible(Whole(g), e.from) <=>
        g.event[e.from] # Absent /\ (e.from \in Commits \/ g.event[e.from] # NoDate)
  BY <1>2, SourcesAssumption DEF Credible, Whole, Sources
<1>5. e \in Counted(Whole(g)) <=> ~Reaches(g.links, e.to, e.from) /\ Credible(Whole(g), e.from)
  BY <1>1 DEF Counted, Cyclic, Whole
<1> QED
  BY <1>3, <1>4, <1>5

\* What the rule says, in the words of _status.
Heard(g, st, s) == {e \in Counted(Whole(g)) : e.to = s /\ st[e.from] # "reverted"}

Follow(g, st) ==
  \A s \in Sources :
    st[s] = IF g.event[s] = Absent THEN "unknown"
            ELSE IF Heard(g, st, s) = {} THEN "active"
            ELSE Overturned(Newest(Whole(g), Heard(g, st, s))).state

\* The rule reads the same in either words.
LEMMA ObeyingIsFollowing ==
  ASSUME NEW g, Stored(g), NEW st
  PROVE  Obeys(g, st) <=> Follow(g, st)
<1> DEFINE Merged(s) == g.event[s] # Absent /\ (s \in Commits \/ g.event[s] # NoDate)
           Counting == {e \in g.links : Merged(e.from) /\ e.from \notin Downstream(g.links, e.to)}
           Live(s) == {e \in Counting : e.to = s /\ st[e.from] # "reverted"}
           First(E) == CHOOSE e \in E : \A f \in E \ {e} :
                         \/ g.event[f.from] < g.event[e.from]
                         \/ g.event[f.from] = g.event[e.from] /\ f.from < e.from
           Ruled(s) == IF g.event[s] = Absent THEN "unknown"
                       ELSE IF Live(s) = {} THEN "active"
                       ELSE IF First(Live(s)).kind = "reverts" THEN "reverted"
                       ELSE "superseded"
           Said(s) == IF g.event[s] = Absent THEN "unknown"
                       ELSE IF Heard(g, st, s) = {} THEN "active"
                       ELSE Overturned(Newest(Whole(g), Heard(g, st, s))).state
<1>1. Counting = Counted(Whole(g))
  BY CountingIsCounted
<1>2. \A s : Live(s) = Heard(g, st, s)
  BY <1>1 DEF Heard
<1>3. ASSUME NEW s, Heard(g, st, s) # {}
      PROVE  First(Heard(g, st, s)) = Newest(Whole(g), Heard(g, st, s))
  <2>1. /\ Heard(g, st, s) \in SUBSET g.links
        /\ \A e \in Heard(g, st, s) : e.to = s
    BY DEF Heard, Counted, Whole
  <2>2. \A e, f \in Heard(g, st, s) : e.from = f.from => e = f
    BY <2>1 DEF Stored
  <2>3. Whole(g).date = g.event /\ g.event \in [Sources -> Int]
    BY DEF Whole, Stored
  <2>4. Heard(g, st, s) \in SUBSET Link
    BY <2>1 DEF Stored
  <2>5. Newest(Whole(g), Heard(g, st, s)) =
          CHOOSE e \in Heard(g, st, s) : \A f \in Heard(g, st, s) \ {e} :
              \/ Whole(g).date[f.from] < Whole(g).date[e.from]
              \/ Whole(g).date[f.from] = Whole(g).date[e.from] /\ f.from < e.from
    BY <1>3, <2>2, <2>3, <2>4, NewestIsFirst
  <2> QED
    BY <2>3, <2>5
<1>4. \A s : Ruled(s) = Said(s)
  <2> HIDE DEF Live, First
  <2> QED
    BY <1>2, <1>3 DEF Overturned
<1>5. Obeys(g, st) <=> \A s \in Sources : st[s] = Ruled(s)
  BY DEF Obeys
<1> HIDE DEF Ruled
<1> QED
  BY <1>4, <1>5 DEF Follow

\* _status over all of the graph.
StateIn(g) == [s \in Sources |-> StatusIn(Whole(g))[s].state]

\* _status obeys the rule.
LEMMA StateFollows ==
  ASSUME NEW g, Stored(g)
  PROVE  StateIn(g) \in [Sources -> Status] /\ Follow(g, StateIn(g))
<1>1. Whole(g).edges \in SUBSET Link
  BY DEF Stored, Whole
<1>2. ASSUME NEW s \in Sources
      PROVE  StatusIn(Whole(g))[s].state =
               IF g.event[s] = Absent THEN "unknown"
               ELSE IF Heard(g, StateIn(g), s) = {} THEN "active"
               ELSE Overturned(Newest(Whole(g), Heard(g, StateIn(g), s))).state
  <2>1. Speaking(Whole(g), s) = Heard(g, StateIn(g), s)
    <3>1. \A e \in Counted(Whole(g)) :
             StateIn(g)[e.from] = StatusIn(Whole(g))[e.from].state
      BY <1>1, LinkEnds DEF StateIn, Counted
    <3> QED
      BY <3>1 DEF Speaking, Heard, Overturns
  <2>2. s \in Whole(g).nodes <=> g.event[s] # Absent
    BY DEF Whole
  <2> QED
    BY <1>1, <2>1, <2>2, StatusByNeighbours DEF NotOverturned
<1>3. \A e : Overturned(e).state \in Status
  BY DEF Overturned, Status
<1>4. StateIn(g) \in [Sources -> Status]
  BY <1>2, <1>3 DEF StateIn, Status
<1>5. Follow(g, StateIn(g))
  BY <1>2 DEF Follow, StateIn
<1> QED
  BY <1>4, <1>5

\* Nothing else does.
LEMMA OneStateFollows ==
  ASSUME NEW g, Stored(g), NEW st, NEW tt, Follow(g, st), Follow(g, tt), NEW s \in Sources
  PROVE  st[s] = tt[s]
<1> DEFINE B == {x \in Sources : st[x] # tt[x]}
<1>1. ASSUME B # {} PROVE FALSE
  <2>1. PICK x \in B : \A e \in Counted(Whole(g)) : e.to = x => e.from \notin B
    <3>1. Whole(g).edges \in SUBSET Link /\ B \in SUBSET Sources
      BY DEF Stored, Whole
    <3> HIDE DEF B
    <3> QED
      BY <1>1, <3>1, NothingBehind
  <2>2. \A e \in Counted(Whole(g)) : e.to = x => st[e.from] = tt[e.from]
    BY <2>1, LinkEnds DEF Stored, Whole, Counted
  <2>3. Heard(g, st, x) = Heard(g, tt, x)
    BY <2>2 DEF Heard
  <2> QED
    BY <2>1, <2>3 DEF Follow
<1> QED
  BY <1>1

\* The state the rule assigns is the one _status computes from all of the graph.
LEMMA DeclaredIsStatus ==
  ASSUME NEW g, Stored(g), NEW s \in Sources
  PROVE  Declared(g)[s] = StatusIn(Whole(g))[s].state
<1>1. \E st \in [Sources -> Status] : Obeys(g, st)
  BY StateFollows, ObeyingIsFollowing
<1>2. Obeys(g, Declared(g))
  BY <1>1 DEF Declared
<1>3. Declared(g)[s] = StateIn(g)[s]
  BY <1>2, ObeyingIsFollowing, StateFollows, OneStateFollows
<1> QED
  BY <1>3 DEF StateIn

-----------------------------------------------------------------------------
(* Answers                                                                 *)

\* What could have a say is what leads there.
LEMMA AboveIsBehind ==
  ASSUME NEW g, Stored(g), NEW s
  PROVE  Above(g, s) = Behind(g.links, s)
BY LinkIsFinite, DownstreamIsReached DEF Above, Behind, Stored

\* What can have a say brings all that has a say in it.
LEMMA BehindIsUpward ==
  ASSUME NEW E \in SUBSET Link, NEW s \in Sources
  PROVE  Upward(E, Behind(E, s)) /\ s \in Behind(E, s) /\ Behind(E, s) \in SUBSET Sources
<1>1. Reaches(E, s, s)
  BY DEF Reaches
<1>2. ASSUME NEW e \in E, Reaches(E, e.to, s) PROVE Reaches(E, e.from, s)
  BY <1>2, ReachesFrom
<1> QED
  BY <1>1, <1>2, LinkEnds DEF Upward, Behind

\* A component that holds all that can have a say in s tells its status as the whole
\* graph does, also when the walk was over another graph.
LEMMA ComponentTells ==
  ASSUME NEW g, Stored(g), NEW walked, NEW starts \in SUBSET Sources, NEW s \in Sources,
         Above(g, s) \subseteq Walk(walked, starts)
  PROVE  Answer(walked, g, g, s, starts) = StatusIn(Whole(g))[s]
<1> DEFINE c == Component(walked, g, g, starts)
           U == Behind(g.links, s)
<1>1. /\ c.edges = {l \in g.links : {l.from, l.to} \subseteq Walk(walked, starts)}
      /\ c.nodes = {x \in Walk(walked, starts) : g.event[x] # Absent}
      /\ c.date = g.event
  BY DEF Component, EdgesAmong, NodesAmong
<1>2. U \subseteq Walk(walked, starts)
  BY AboveIsBehind
<1>3. Upward(g.links, U) /\ s \in U /\ U \in SUBSET Sources
  BY BehindIsUpward DEF Stored
<1> HIDE DEF c, U
<1>4. Alike(c, Whole(g), U)
  <2>1. Upward(c.edges, U) /\ Upward(Whole(g).edges, U)
    BY <1>1, <1>3 DEF Upward, Whole
  <2>2. Into(c.edges, U) = Into(Whole(g).edges, U)
    BY <1>1, <1>2, <1>3 DEF Into, Upward, Whole
  <2>3. c.nodes \cap U = Whole(g).nodes \cap U
    BY <1>1, <1>2, <1>3 DEF Whole
  <2>4. \A x \in U : c.date[x] = Whole(g).date[x]
    BY <1>1 DEF Whole
  <2> QED
    BY <2>1, <2>2, <2>3, <2>4 DEF Alike
<1>5. c.edges \in SUBSET Link /\ Whole(g).edges \in SUBSET Link
  BY <1>1 DEF Stored, Whole
<1>6. StatusIn(c)[s] = StatusIn(Whole(g))[s]
  BY <1>3, <1>4, <1>5, StatusAlike
<1> QED
  BY <1>6 DEF Answer, c

\* What the invariant says of the snapshot a read sees.
LEMMA StoredGraph ==
  ASSUME TypeOK
  PROVE  Stored(Graph)
BY DEF TypeOK, Stored, Graph

\* AnswersAgree follows from what is stored, whatever was written before.
LEMMA AgreeInvariant ==
  ASSUME TypeOK
  PROVE  AnswersAgree
<1>1. Stored(Graph)
  BY StoredGraph
<1> DEFINE g == Graph
<1> HIDE DEF g
<1>2. ASSUME NEW starts \in SUBSET Sources, NEW s \in starts,
             Above(g, s) \subseteq Walk(g, starts)
      PROVE  Answer(g, g, g, s, starts).state = Declared(g)[s]
  <2>1. s \in Sources /\ Stored(g)
    BY <1>1 DEF g
  <2> QED
    BY <1>2, <2>1, ComponentTells, DeclaredIsStatus
<1> QED
  BY <1>2 DEF AnswersAgree, g

\* A walk that is not cut short reaches all that can have a say.
LEMMA UncutIsOpen ==
  ASSUME NEW g, Stored(g), NEW s \in Sources, Uncut(g, s),
         NEW l \in g.links, l.to \in Walk(g, {s})
  PROVE  l.from \in Walk(g, {s})
<1>1. l.from \in Joined(g, Walk(g, {s}))
  BY LinkEnds DEF Joined, Stored
<1> QED
  BY <1>1 DEF Uncut

\* So it holds all that can have a say in where it started.
LEMMA UncutHoldsAbove ==
  ASSUME NEW g, Stored(g), NEW s \in Sources, Uncut(g, s)
  PROVE  Above(g, s) \subseteq Walk(g, {s})
<1>1. s \in Walk(g, {s})
  BY WalkStarts
<1>2. ASSUME NEW x, Reaches(g.links, x, s) PROVE x \in Walk(g, {s})
  BY <1>1, <1>2, UncutIsOpen, ReachesFromOpen
<1> QED
  BY <1>2, AboveIsBehind DEF Behind

\* Its answer is the status in all of the graph.
LEMMA ToldInFull ==
  ASSUME NEW g, Stored(g), NEW s \in Sources, Uncut(g, s)
  PROVE  Told(g)[s] = StatusIn(Whole(g))[s]
BY UncutHoldsAbove, ComponentTells DEF Told

\* What inscribing x may change of a graph: its event, or the edges from it.
Rewrites(x, g, h) ==
  /\ \A y \in Sources \ {x} : g.event[y] = h.event[y]
  /\ \A l : l.from # x => (l \in g.links <=> l \in h.links)
  /\ g.event = h.event \/ g.links = h.links

\* A transaction of inscribing x rewrites what is x's, in one table.
LEMMA InscribeRewrites ==
  ASSUME TypeOK, NEW x \in Sources, Inscribe(x)
  PROVE  Rewrites(x, Graph, Graph')
<1>1. Graph.event = event /\ Graph.links = links /\ Graph'.event = event' /\ Graph'.links = links'
  BY DEF Graph
<1>2. ASSUME NEW d \in CanBe(x), Record(x, d) PROVE Rewrites(x, Graph, Graph')
  BY <1>1, <1>2 DEF Record, Rewrites, TypeOK
<1>3. ASSUME NEW L \in Declarable(x), Index(x, L) PROVE Rewrites(x, Graph, Graph')
  <2>1. \A l \in L : l.from = x
    BY DEF Declarable
  <2>2. \A l : l.from # x => (l \in links <=> l \in (links \ From(x)) \cup L)
    BY <2>1 DEF From
  <2> QED
    BY <1>1, <1>3, <2>2 DEF Index, Rewrites
<1> QED
  BY <1>2, <1>3 DEF Inscribe

\* A walk looks at links only.
LEMMA WalkByLinks ==
  ASSUME NEW g, NEW h, g.links = h.links, NEW starts
  PROVE  Walk(g, starts) = Walk(h, starts)
BY DEF Walk, Joined

\* A read that a write falls into answers as before it or as after it: if dates are
\* written, as after; if edges are, as before, unless x was reached, and then the
\* walk, over the old edges, still holds all that has a say over the new ones.
LEMMA ReadsInTime ==
  ASSUME NEW g, Stored(g), NEW h, Stored(h), NEW x \in Sources, Rewrites(x, g, h),
         NEW s \in Sources, Uncut(g, s), Uncut(h, s)
  PROVE  {Answer(g, h, h, s, {s}), Answer(g, g, h, s, {s})} \subseteq {Told(g)[s], Told(h)[s]}
<1> DEFINE R == Walk(g, {s})
<1>0. Told(g)[s] = Answer(g, g, g, s, {s}) /\ Told(h)[s] = Answer(h, h, h, s, {s})
  BY DEF Told
<1>1. CASE g.links = h.links
  <2>1. Walk(h, {s}) = R
    BY <1>1, WalkByLinks
  <2>2. EdgesAmong(g, R) = EdgesAmong(h, R)
    BY <1>1 DEF EdgesAmong
  <2>3. Component(g, h, h, {s}) = Component(h, h, h, {s})
    BY <2>1 DEF Component
  <2>4. Component(g, g, h, {s}) = Component(h, h, h, {s})
    BY <2>1, <2>2 DEF Component
  <2> QED
    BY <1>0, <2>3, <2>4 DEF Answer
<1>2. CASE g.event = h.event
  <2>1. NodesAmong(g, R) = NodesAmong(h, R)
    BY <1>2 DEF NodesAmong
  <2>2. Component(g, g, h, {s}) = Component(g, g, g, {s})
    BY <1>2, <2>1 DEF Component
  <2>3. Answer(g, h, h, s, {s}) \in {Told(g)[s], Told(h)[s]}
    <3>1. CASE x \notin R
      <4>1. EdgesAmong(h, R) = EdgesAmong(g, R)
        BY <3>1 DEF EdgesAmong, Rewrites
      <4>2. Component(g, h, h, {s}) = Component(g, g, g, {s})
        BY <1>2, <2>1, <4>1 DEF Component
      <4> QED
        BY <1>0, <4>2 DEF Answer
    <3>2. CASE x \in R
      <4>1. \A l \in h.links : l.to \in R => l.from \in R
        BY <3>2, UncutIsOpen DEF Rewrites
      <4>2. s \in R
        BY WalkStarts
      <4>3. \A y \in Behind(h.links, s) : y \in R
        <5> HIDE DEF R
        <5> QED
          BY <4>1, <4>2, ReachesFromOpen DEF Behind
      <4>4. Above(h, s) \subseteq R
        BY <4>3, AboveIsBehind
      <4>5. Answer(g, h, h, s, {s}) = StatusIn(Whole(h))[s]
        BY <4>4, ComponentTells
      <4> QED
        BY <4>5, ToldInFull
    <3> QED
      BY <3>1, <3>2
  <2> QED
    BY <1>0, <2>2, <2>3 DEF Answer
<1> QED
  BY <1>1, <1>2 DEF Rewrites

\* A write of x leaves the status of all that x has no say in, before or after.
LEMMA ChangesBelow ==
  ASSUME NEW g, Stored(g), NEW h, Stored(h), NEW x \in Sources, Rewrites(x, g, h),
         NEW s \in Sources, Uncut(g, s), Uncut(h, s),
         x \notin Above(g, s), x \notin Above(h, s)
  PROVE  Told(g)[s] = Told(h)[s]
<1> DEFINE U == Behind(g.links, s)
<1>1. Upward(g.links, U) /\ s \in U /\ U \in SUBSET Sources
  BY BehindIsUpward DEF Stored
<1>2. x \notin U /\ ~Reaches(h.links, x, s)
  BY AboveIsBehind DEF Behind
<1>3. \A l \in Into(g.links, U) : l \in h.links
  BY <1>1, <1>2 DEF Into, Upward, Rewrites
<1>4. ASSUME NEW l \in h.links, l.to \in U PROVE l.from \in U /\ l \in g.links
  <2>1. Reaches(g.links, l.to, s)
    BY <1>4 DEF Behind
  <2>2. Reaches(Into(g.links, U), l.to, s)
    <3> HIDE DEF U
    <3> QED
      BY <1>1, <2>1, ReachesWithin
  <2>3. Reaches(h.links, l.to, s)
    <3> HIDE DEF U
    <3> QED
      BY <1>3, <2>2, ReachesGrows
  <2>4. l.from # x
    BY <1>2, <2>3, ReachesFrom
  <2>5. l \in g.links
    BY <2>4 DEF Rewrites
  <2> QED
    BY <1>1, <1>4, <2>5 DEF Upward
<1> HIDE DEF U
<1>5. Alike(Whole(g), Whole(h), U)
  <2>1. Upward(h.links, U) /\ Into(g.links, U) = Into(h.links, U)
    BY <1>3, <1>4 DEF Upward, Into
  <2>2. \A y \in U : g.event[y] = h.event[y]
    BY <1>1, <1>2 DEF Rewrites
  <2> QED
    BY <1>1, <2>1, <2>2 DEF Alike, Whole
<1>6. StatusIn(Whole(g))[s] = StatusIn(Whole(h))[s]
  <2>1. Whole(g).edges \in SUBSET Link /\ Whole(h).edges \in SUBSET Link
    BY DEF Stored, Whole
  <2> QED
    BY <1>1, <1>5, <2>1, StatusAlike
<1> QED
  BY <1>6, ToldInFull

\* For every decision, every set of decisions asked about together and every walk
\* that reaches what could have a say, the answer is the one that the rule assigns,
\* in every graph that can be stored.
THEOREM AnswersAlwaysAgree == Spec => []AnswersAgree
BY TypeCorrect, AgreeInvariant, PTL

\* A step of Spec writes for one source, or nothing.
LEMMA StepRewrites ==
  ASSUME TypeOK, [Next]_vars
  PROVE  Graph' = Graph \/ \E x \in Sources : Inscribe(x) /\ Rewrites(x, Graph, Graph')
<1>1. CASE UNCHANGED vars
  BY <1>1 DEF vars, Graph
<1>2. CASE Next
  BY <1>2, InscribeRewrites DEF Next
<1> QED
  BY <1>1, <1>2

\* Whatever a write changes while a decision is being read, and whichever statements
\* of the read come before it, the reader gets an answer that was true.
THEOREM ReadsAreAlwaysTimely == Spec => ReadsAreTimely
<1> DEFINE Timely(g, h) ==
      \A s \in Sources :
        Uncut(g, s) /\ Uncut(h, s) =>
          {Answer(g, h, h, s, {s}), Answer(g, g, h, s, {s})} \subseteq {Told(g)[s], Told(h)[s]}
<1>1. ASSUME TypeOK, TypeOK', [Next]_vars PROVE Timely(Graph, Graph')
  <2>1. Stored(Graph) /\ Stored(Graph')
    BY <1>1 DEF TypeOK, Stored, Graph
  <2>2. CASE Graph' = Graph
    BY <2>2 DEF Told
  <2>3. ASSUME NEW x \in Sources, Rewrites(x, Graph, Graph') PROVE Timely(Graph, Graph')
    BY <2>1, <2>3, ReadsInTime
  <2> HIDE DEF Timely
  <2> QED
    BY <1>1, <2>2, <2>3, StepRewrites
<1>2. Timely(Graph, Graph') =>
        \A g \in {Graph}, h \in {Graph'} : \A s \in Sources :
          Uncut(g, s) /\ Uncut(h, s) =>
            {Answer(g, h, h, s, {s}), Answer(g, g, h, s, {s})} \subseteq {Told(g)[s], Told(h)[s]}
  OBVIOUS
<1> HIDE DEF Timely
<1> QED
  BY <1>1, <1>2, TypeCorrect, PTL DEF Spec, ReadsAreTimely

\* A write changes no status but that of its source and of what the source
\* overturns in the end.
THEOREM WritesActDownwards == Spec => ActsDownwards
<1> DEFINE Down(g, h) ==
      \A s \in Changed(g, h), x \in Sources : Inscribe(x) => x \in Above(g, s) \cup Above(h, s)
<1>1. ASSUME TypeOK, TypeOK', [Next]_vars PROVE Down(Graph, Graph')
  <2>1. Stored(Graph) /\ Stored(Graph')
    BY <1>1 DEF TypeOK, Stored, Graph
  <2>2. ASSUME NEW s \in Changed(Graph, Graph'), NEW x \in Sources, Inscribe(x),
               x \notin Above(Graph, s), x \notin Above(Graph', s)
        PROVE  FALSE
    <3>1. Rewrites(x, Graph, Graph')
      BY <1>1, <2>2, InscribeRewrites
    <3> QED
      BY <2>1, <2>2, <3>1, ChangesBelow DEF Changed
  <2> QED
    BY <2>2
<1>2. Down(Graph, Graph') =>
        \A g \in {Graph}, h \in {Graph'} : \A s \in Changed(g, h), x \in Sources :
          Inscribe(x) => x \in Above(g, s) \cup Above(h, s)
  OBVIOUS
<1> HIDE DEF Down
<1> QED
  BY <1>1, <1>2, TypeCorrect, PTL DEF Spec, ActsDownwards
-----------------------------------------------------------------------------
(* Freshness: files and mentions                                           *)

\* record_event leaves files and mentions alone.
LEMMA RecordFilesTypeOK ==
  ASSUME FilesTypeOK, NEW s \in Sources, NEW d \in CanBe(s), RecordEvent(s, d)
  PROVE  FilesTypeOK'
<1>1. TypeOK'
  BY RecordTypeOK DEF FilesTypeOK, RecordEvent
<1>2. UNCHANGED <<links, mentions, files>>
  BY DEF RecordEvent, Record
<1> QED
  BY <1>1, <1>2 DEF FilesTypeOK

\* Both kinds of links of a source are replaced in one transaction.
LEMMA IndexFilesTypeOK ==
  ASSUME FilesTypeOK, NEW s \in Sources, NEW L \in Declarable(s),
         NEW M \in SUBSET {m \in Mention : m.from = s}, NEW F \in FileSets,
         IndexDecision(s, L, M, F)
  PROVE  FilesTypeOK'
<1>1. TypeOK'
  BY IndexTypeOK DEF FilesTypeOK, IndexDecision
<1>2. /\ links' = {l \in links : l.from # s} \cup L
      /\ mentions' = {m \in mentions : m.from # s} \cup M
      /\ files' = [files EXCEPT ![s] = F]
  BY DEF IndexDecision, Index, From
<1>3. mentions' \subseteq Mention /\ files' \in [Sources -> FileSets]
  BY <1>2 DEF FilesTypeOK
<1>4. ASSUME NEW m \in mentions', NEW l \in links', m.from = l.from, m.to = l.to
      PROVE  FALSE
  <2>1. CASE m.from = s
    <3>1. l \in L /\ m \in M
      BY <1>2, <1>4, <2>1
    <3>2. m = [from |-> s, to |-> l.to]
      BY <1>4, <2>1, <3>1 DEF Mention
    <3> QED
      BY <3>1, <3>2 DEF IndexDecision
  <2>2. CASE m.from # s
    <3>1. \A x \in L : x.from = s
      BY DEF Declarable
    <3>2. m \in mentions /\ l \in links
      BY <1>2, <1>4, <2>2, <3>1
    <3> QED
      BY <1>4, <3>2 DEF FilesTypeOK
  <2> QED
    BY <2>1, <2>2
<1> QED
  BY <1>1, <1>3, <1>4 DEF FilesTypeOK

\* However often texts and files are indexed anew, what is removed was touched, and
\* a decision that overturns another never also merely mentions it.
THEOREM FilesTypeCorrect == FilesSpec => []FilesTypeOK
<1>1. FilesInit => FilesTypeOK
  BY InitTypeOK DEF FilesInit, FilesTypeOK, FileSets, NoFiles
<1>2. ASSUME FilesTypeOK, [FilesNext]_filesVars PROVE FilesTypeOK'
  <2>1. CASE UNCHANGED filesVars
    BY <1>2, <2>1 DEF filesVars, FilesTypeOK, TypeOK, CanBe
  <2>2. CASE FilesNext
    <3>1. PICK s \in Sources : InscribeDecision(s)
      BY <2>2 DEF FilesNext
    <3> QED
      BY <1>2, <3>1, RecordFilesTypeOK, IndexFilesTypeOK DEF InscribeDecision
  <2> QED
    BY <1>2, <2>1, <2>2
<1> QED
  BY <1>1, <1>2, PTL DEF FilesSpec

\* What a reader of the tables may rely on.
StoredFiles(g) == Stored(g) /\ g.files \in [Sources -> FileSets]

\* What the invariant says of the tables a read sees.
LEMMA StoredTables ==
  ASSUME FilesTypeOK
  PROVE  StoredFiles(Tables)
BY DEF FilesTypeOK, TypeOK, StoredFiles, Stored, Tables

\* A decision touched so many files.
LEMMA TouchedIsFinite ==
  ASSUME NEW g, StoredFiles(g), NEW d \in Sources
  PROVE  /\ g.files[d].touched \in SUBSET Paths
         /\ IsFiniteSet(g.files[d].touched)
         /\ Cardinality(g.files[d].touched) \in Nat
<1>1. g.files[d].touched \in SUBSET Paths
  BY DEF StoredFiles, FileSets
<1> QED
  BY <1>1, FilesAssumption, FS_Subset, FS_CardinalityType

\* A decision is only outdated by what changed a file of it later, so it has one and
\* a date.
LEMMA OutdatedIsJudged ==
  ASSUME NEW g, StoredFiles(g), NEW d \in Sources, Outdated(g, d)
  PROVE  Dated(g, d) /\ Total(g, d) > 0
<1>1. PICK s \in Later(g, d) : TRUE
  BY DEF Outdated
<1>2. Dated(g, d) /\ g.files[d].touched # {}
  BY <1>1 DEF Later, Shared
<1>3. Cardinality(g.files[d].touched) # 0
  BY <1>2, TouchedIsFinite, FS_EmptySet
<1> QED
  BY <1>2, <1>3, TouchedIsFinite DEF Total

-----------------------------------------------------------------------------
(* Freshness: the surfaces                                                 *)

\* What is outdated has been judged.
LEMMA QueueIs ==
  ASSUME NEW g, StoredFiles(g), NEW d \in Sources
  PROVE  d \in Queue(g) <=> Active(g, d) /\ Outdated(g, d)
BY OutdatedIsJudged DEF Queue, Flagged

\* Nothing is ahead of itself.
LEMMA NotAheadOfItself ==
  ASSUME NEW g, StoredFiles(g), NEW changed, NEW s \in Sources
  PROVE  ~Better(g, changed, s, s)
<1> DEFINE key == <<Cardinality(Exact(g, s, changed)), Cardinality(Nearby(g, s, changed)),
                    g.event[s], s>>
<1>1. IsFiniteSet(Exact(g, s, changed)) /\ IsFiniteSet(Nearby(g, s, changed))
  BY TouchedIsFinite, FS_Subset DEF Exact, Nearby
<1>2. key[1] \in Int /\ key[2] \in Int
  BY <1>1, FS_CardinalityType
<1>3. key[3] \in Int /\ key[4] \in Int
  BY SourcesAssumption DEF StoredFiles, Stored
<1> HIDE DEF key
<1>4. \A i \in 1..4 : ~(key[i] > key[i])
  BY <1>2, <1>3
<1> QED
  BY <1>4 DEF Better, key

\* With room for all, the comment shows all that is in force.
LEMMA AllAreShown ==
  ASSUME NEW g, StoredFiles(g), NEW changed, NEW s \in InForce(g, changed, {})
  PROVE  [source |-> s, outdated |-> Outdated(g, s)]
           \in Check(g, changed, {}, Cardinality(Sources))
<1> DEFINE found == InForce(g, changed, {})
           ahead == {t \in found : Better(g, changed, t, s)}
<1>1. found \in SUBSET Sources
  BY DEF InForce, Matches
<1>2. s \in Sources /\ s \notin ahead
  BY <1>1, NotAheadOfItself
<1>3. Cardinality(ahead) < Cardinality(Sources)
  <2>1. ahead \in SUBSET Sources /\ s \in Sources /\ ahead # Sources
    BY <1>1, <1>2
  <2> HIDE DEF ahead
  <2>2. /\ IsFiniteSet(ahead) /\ Cardinality(ahead) <= Cardinality(Sources)
        /\ Cardinality(ahead) # Cardinality(Sources)
    BY <2>1, FiniteAssumption, FS_Subset
  <2> QED
    BY <2>2, FiniteAssumption, FS_CardinalityType
<1> QED
  BY <1>3 DEF Check

\* So do the surfaces, whatever is stored.
LEMMA AgreeOnSurfaces ==
  ASSUME FilesTypeOK
  PROVE  SurfacesAgree
<1> DEFINE g == Tables
           queue == Queue(g)
           behind(p) == {d \in queue : p \in g.files[d].touched}
           checked(p) == {e.source : e \in {f \in Check(g, {p}, {}, Cardinality(Sources)) :
                                               f.outdated}}
           listed(p) == {e.source : e \in {f \in Touching(g, p) : f.outdated}}
<1>1. StoredFiles(g)
  BY StoredTables
<1> HIDE DEF g
<1>2. queue \in SUBSET Sources
  BY DEF Queue, Flagged
<1>3. ASSUME NEW d \in queue PROVE Active(g, d) /\ Outdated(g, d) /\ g.event[d] > NoDate
  BY <1>1, <1>2, QueueIs, OutdatedIsJudged DEF Dated
<1>4. \A d \in queue : g.event[d] # Absent /\ g.event[d] # NoDate
  <2>1. \A d \in queue : g.event[d] \in Int
    BY <1>1, <1>2 DEF StoredFiles, Stored
  <2> QED
    BY <1>3, <2>1 DEF Absent, NoDate
<1>5. queue = {d \in Sources : Note(g, d) = "possibly_outdated"}
  <2>1. ASSUME NEW d \in Sources, Note(g, d) = "possibly_outdated" PROVE d \in queue
    BY <1>1, <2>1, QueueIs DEF Note
  <2>2. ASSUME NEW d \in queue PROVE Note(g, d) = "possibly_outdated"
    BY <1>3, <1>4, <2>2 DEF Note
  <2> HIDE DEF queue
  <2> QED
    BY <1>2, <2>1, <2>2
<1>6. ASSUME NEW p \in Paths, NEW d \in behind(p) PROVE d \in checked(p)
  <2>1. d \in queue /\ p \in Exact(g, d, {p})
    BY <1>6 DEF Exact
  <2>2. d \in InForce(g, {p}, {})
    <3> HIDE DEF queue
    <3> QED
      BY <1>2, <1>3, <1>4, <2>1 DEF InForce, Matches, Counts
  <2>3. [source |-> d, outdated |-> Outdated(g, d)] \in Check(g, {p}, {}, Cardinality(Sources))
    BY <1>1, <2>2, AllAreShown
  <2> QED
    BY <1>3, <2>1, <2>3
<1>7. ASSUME NEW p \in Paths, NEW d \in checked(p) PROVE d \in queue
  <2>1. PICK e \in Check(g, {p}, {}, Cardinality(Sources)) : e.outdated /\ e.source = d
    BY <1>7
  <2>2. d \in InForce(g, {p}, {}) /\ Outdated(g, d)
    <3>1. PICK x \in InForce(g, {p}, {}) : e = [source |-> x, outdated |-> Outdated(g, x)]
      BY <2>1 DEF Check
    <3> QED
      BY <2>1, <3>1
  <2>3. d \in Sources /\ Active(g, d)
    BY <2>2 DEF InForce, Matches
  <2> QED
    BY <1>1, <2>2, <2>3, QueueIs
<1>8. ASSUME NEW p \in Paths PROVE behind(p) = listed(p)
  <2>1. ASSUME NEW d \in behind(p) PROVE d \in listed(p)
    <3>1. d \in Sources /\ Active(g, d) /\ Outdated(g, d) /\ g.event[d] # Absent
          /\ p \in g.files[d].touched
      BY <1>2, <1>3, <1>4, <2>1
    <3> HIDE DEF behind
    <3>2. [source |-> d, outdated |-> Active(g, d) /\ Outdated(g, d)] \in Touching(g, p)
      BY <3>1 DEF Touching
    <3> DEFINE e == [source |-> d, outdated |-> Active(g, d) /\ Outdated(g, d)]
    <3>3. e \in Touching(g, p) /\ e.outdated /\ e.source = d
      BY <3>1, <3>2
    <3> HIDE DEF e
    <3> QED
      BY <3>3
  <2>2. ASSUME NEW d \in listed(p) PROVE d \in behind(p)
    <3>1. PICK e \in Touching(g, p) : e.outdated /\ e.source = d
      BY <2>2
    <3>2. PICK x \in {y \in Sources : g.event[y] # Absent /\ p \in g.files[y].touched} :
              e = [source |-> x, outdated |-> Active(g, x) /\ Outdated(g, x)]
      BY <3>1 DEF Touching
    <3>3. d \in Sources /\ Active(g, d) /\ Outdated(g, d) /\ p \in g.files[d].touched
      BY <3>1, <3>2
    <3> QED
      BY <1>1, <3>3, QueueIs
  <2> HIDE DEF behind, listed
  <2> QED
    BY <2>1, <2>2
<1>9. \A p \in Paths : behind(p) \subseteq checked(p) /\ checked(p) \subseteq queue
                       /\ behind(p) = listed(p)
  <2> HIDE DEF behind, checked, listed, queue
  <2> QED
    BY <1>6, <1>7, <1>8
<1> QED
  BY <1>5, <1>9 DEF SurfacesAgree, g

\* The queue, the comment on a PR, the list behind a file and the answer about one
\* decision never flag it differently, whatever was inscribed, whichever files and
\* however many decisions there are.
THEOREM SurfacesAlwaysAgree == FilesSpec => []SurfacesAgree
BY FilesTypeCorrect, AgreeOnSurfaces, PTL

-----------------------------------------------------------------------------
(* Freshness: the promise, and the reasons                                 *)

\* An edge that counts and was not reverted has the last word, or another one has.
LEMMA PromiseInvariant ==
  ASSUME FilesTypeOK
  PROVE  PromiseIsKept
<1> DEFINE g == Tables
<1>1. StoredFiles(g) /\ Stored(g) /\ g.links = links
  BY StoredTables DEF StoredFiles, Tables
<1> HIDE DEF g
<1>2. ASSUME NEW l \in links, Dated(g, l.from), Uncut(g, l.from), Uncut(g, l.to),
             l.from \notin Downstream(links, l.to),
             Answer(g, g, g, l.from, {l.from}).state # "reverted"
      PROVE  ~Active(g, l.to)
  <2>1. l \in Link /\ l.from \in Sources /\ l.to \in Sources
    BY <1>1, LinkEnds DEF Stored
  <2>2. \A s \in {l.from, l.to} : Answer(g, g, g, s, {s}) = StatusIn(Whole(g))[s]
    BY <1>1, <1>2, <2>1, UncutHoldsAbove, ComponentTells
  <2>3. g.event[l.from] # Absent /\ g.event[l.from] # NoDate
    <3>1. g.event[l.from] \in Int
      BY <1>1, <2>1 DEF Stored
    <3> QED
      BY <1>2, <3>1 DEF Dated, Absent, NoDate
  <2>4. l \in Speaking(Whole(g), l.to)
    <3>1. l \in Counted(Whole(g))
      BY <1>1, <1>2, <2>3, CountingIsCounted
    <3> QED
      BY <1>2, <2>2, <3>1 DEF Speaking, Overturns
  <2>5. Whole(g).edges \in SUBSET Link
    BY <1>1 DEF Stored, Whole
  <2>6. \/ StatusIn(Whole(g))[l.to] = NotOverturned("unknown")
        \/ \E e : StatusIn(Whole(g))[l.to] = Overturned(e)
    BY <2>1, <2>4, <2>5, StatusByNeighbours
  <2>7. StatusIn(Whole(g))[l.to].state # "active"
    <3>1. NotOverturned("unknown").state # "active"
      BY DEF NotOverturned
    <3>2. \A e : Overturned(e).state # "active"
      BY DEF Overturned
    <3> QED
      BY <2>6, <3>1, <3>2
  <2> QED
    BY <2>2, <2>7 DEF Active
<1>3. ASSUME NEW s, ~Active(g, s)
      PROVE  s \notin Queue(g) /\ \A p \in Paths : s \notin InForce(g, {p}, {})
  BY <1>3 DEF Queue, InForce
<1> QED
  BY <1>2, <1>3 DEF PromiseIsKept, g

\* A decision that a merged PR says it supersedes stays out of the queue and of
\* reviews for as long as that PR is not reverted, in every graph whose component
\* MaxDepth does not cut.
THEOREM PromiseIsAlwaysKept == FilesSpec => []PromiseIsKept
BY FilesTypeCorrect, PromiseInvariant, PTL

\* When neither a decision nor any of those that outdate it was rewritten, they
\* outdated it before.
LEMMA OutdatedBefore ==
  ASSUME NEW g, StoredFiles(g), NEW h, StoredFiles(h), NEW d \in Sources, Outdated(h, d),
         \A x \in Later(h, d) \cup {d} : RowsOf(g, x) = RowsOf(h, x)
  PROVE  Outdated(g, d) /\ Total(g, d) = Total(h, d)
<1> DEFINE changed(t) == UNION {Shared(t, d, s) : s \in Later(t, d)}
           removed(t) == \E s \in Later(t, d) : t.files[d].touched \cap t.files[s].removed # {}
           churn(t) == /\ Cardinality(Later(t, d)) >= MinLater
                       /\ Total(t, d) > 0
                       /\ 100 * Cardinality(changed(t)) >= MinShare * Total(t, d)
<1>1. ASSUME NEW x \in Later(h, d) \cup {d}
      PROVE  /\ g.event[x] = h.event[x] /\ g.files[x] = h.files[x]
             /\ \A l : l.from = x => (l \in g.links <=> l \in h.links)
             /\ \A m : m.from = x => (m \in g.mentions <=> m \in h.mentions)
  <2>1. RowsOf(g, x) = RowsOf(h, x)
    OBVIOUS
  <2>2. /\ {l \in g.links : l.from = x} = {l \in h.links : l.from = x}
        /\ {m \in g.mentions : m.from = x} = {m \in h.mentions : m.from = x}
        /\ g.event[x] = h.event[x] /\ g.files[x] = h.files[x]
    BY <2>1 DEF RowsOf
  <2> QED
    BY <2>2
<1>2. \A s \in Later(h, d) : s \in Later(g, d) /\ Shared(g, d, s) = Shared(h, d, s)
  <2> TAKE s \in Later(h, d)
  <2>1. /\ s \in Sources \ {d} /\ Dated(h, d) /\ After(h, d, s)
        /\ Shared(h, d, s) # {} /\ ~LinkedTo(h, d, s)
    BY DEF Later
  <2>2. Dated(g, d) /\ After(g, d, s) /\ Shared(g, d, s) = Shared(h, d, s)
    BY <1>1, <2>1 DEF Dated, After, Shared
  <2>3. ~LinkedTo(g, d, s)
    BY <1>1, <2>1 DEF LinkedTo
  <2> QED
    BY <2>1, <2>2, <2>3 DEF Later
<1>3. Total(g, d) = Total(h, d)
  BY <1>1 DEF Total, Dated
<1>4. removed(h) => removed(g)
  BY <1>1, <1>2
<1>5. churn(h) => churn(g)
  <2>1. \A t : Later(t, d) \in SUBSET Sources /\ changed(t) \in SUBSET t.files[d].touched
    BY DEF Later, Shared
  <2>2. Later(h, d) \subseteq Later(g, d) /\ changed(h) \subseteq changed(g)
    BY <1>2
  <2> HIDE DEF changed
  <2>3. /\ IsFiniteSet(Later(g, d)) /\ IsFiniteSet(changed(g))
        /\ IsFiniteSet(Later(h, d)) /\ IsFiniteSet(changed(h))
    BY <2>1, FiniteAssumption, TouchedIsFinite, FS_Subset
  <2>4. /\ Cardinality(Later(h, d)) <= Cardinality(Later(g, d))
        /\ Cardinality(changed(h)) <= Cardinality(changed(g))
    BY <2>2, <2>3, FS_Subset
  <2>5. /\ Cardinality(Later(h, d)) \in Nat /\ Cardinality(Later(g, d)) \in Nat
        /\ Cardinality(changed(h)) \in Nat /\ Cardinality(changed(g)) \in Nat
    BY <2>3, FS_CardinalityType
  <2>6. Total(h, d) \in Nat /\ MinShare * Total(h, d) \in Int
    BY TouchedIsFinite, FreshnessAssumption DEF Total
  <2> QED
    BY <1>3, <2>4, <2>5, <2>6, FreshnessAssumption
<1>6. \A t : Outdated(t, d) <=> Later(t, d) # {} /\ (removed(t) \/ churn(t))
  BY DEF Outdated
<1>7. Later(h, d) # {} => Later(g, d) # {}
  BY <1>2
<1> HIDE DEF removed, churn
<1> QED
  BY <1>3, <1>4, <1>5, <1>6, <1>7

\* If no row of what outdates it was rewritten, it was in the queue before.
LEMMA ReasonForJoining ==
  ASSUME NEW g, StoredFiles(g), NEW h, StoredFiles(h),
         NEW d \in Queue(h) \ Queue(g), Active(g, d)
  PROVE  \E x \in Rewritten(g, h) :
           \/ x = d
           \/ /\ h.event[d] < h.event[x]
              /\ \E p \in Paths : {<<d, p>>, <<x, p>>} \subseteq Rows(h.files)
              /\ \A l \in h.links \cup h.mentions : {l.from, l.to} # {d, x}
<1>1. d \in Sources /\ Outdated(h, d) /\ Total(h, d) > 0
  BY DEF Queue, Flagged
<1>2. ~Outdated(g, d)
  BY <1>1, QueueIs
<1>3. PICK x \in Later(h, d) \cup {d} : RowsOf(g, x) # RowsOf(h, x)
  BY <1>1, <1>2, OutdatedBefore
<1>4. x \in Rewritten(g, h)
  BY <1>1, <1>3 DEF Later, Rewritten
<1>5. ASSUME x # d
      PROVE  /\ h.event[d] < h.event[x]
             /\ \E p \in Paths : {<<d, p>>, <<x, p>>} \subseteq Rows(h.files)
             /\ \A l \in h.links \cup h.mentions : {l.from, l.to} # {d, x}
  <2>1. x \in Sources /\ After(h, d, x) /\ Shared(h, d, x) # {} /\ ~LinkedTo(h, d, x)
    BY <1>3, <1>5 DEF Later
  <2>2. h.event[d] < h.event[x]
    BY <1>1, <2>1 DEF After, StoredFiles, Stored
  <2>3. PICK p : p \in h.files[d].touched /\ p \in h.files[x].touched
    BY <2>1 DEF Shared
  <2>4. p \in Paths
    BY <1>1, <2>3, TouchedIsFinite
  <2>5. {<<d, p>>, <<x, p>>} \subseteq Rows(h.files)
    BY <1>1, <2>1, <2>3 DEF Rows
  <2>6. \A l \in h.links \cup h.mentions : {l.from, l.to} # {d, x}
    BY <2>1 DEF LinkedTo
  <2> QED
    BY <2>2, <2>4, <2>5, <2>6
<1> QED
  BY <1>4, <1>5

\* Whatever is inscribed, no decision that was in force joins the queue without a
\* row to show for it: its own, or those of a later PR that changed a file of it and
\* says nothing of it.
THEOREM JoinsOnlyForAReason == FilesSpec => JoinsForAReason
<1> DEFINE Reasons(g, h) ==
      \A d \in Queue(h) \ Queue(g) :
         \/ ~Active(g, d)
         \/ \E x \in Rewritten(g, h) :
              \/ x = d
              \/ /\ h.event[d] < h.event[x]
                 /\ \E p \in Paths : {<<d, p>>, <<x, p>>} \subseteq Rows(h.files)
                 /\ \A l \in h.links \cup h.mentions : {l.from, l.to} # {d, x}
<1>1. ASSUME FilesTypeOK, FilesTypeOK' PROVE Reasons(Tables, Tables')
  <2>1. StoredFiles(Tables) /\ StoredFiles(Tables')
    BY <1>1 DEF FilesTypeOK, TypeOK, StoredFiles, Stored, Tables
  <2> QED
    BY <2>1, ReasonForJoining
<1>2. Reasons(Tables, Tables') =>
        \A g \in {Tables}, h \in {Tables'} :
          \A d \in Queue(h) \ Queue(g) :
             \/ ~Active(g, d)
             \/ \E x \in Rewritten(g, h) :
                  \/ x = d
                  \/ /\ h.event[d] < h.event[x]
                     /\ \E p \in Paths : {<<d, p>>, <<x, p>>} \subseteq Rows(h.files)
                     /\ \A l \in h.links \cup h.mentions : {l.from, l.to} # {d, x}
  OBVIOUS
<1> HIDE DEF Reasons
<1> QED
  BY <1>1, <1>2, FilesTypeCorrect, PTL DEF JoinsForAReason
=============================================================================
