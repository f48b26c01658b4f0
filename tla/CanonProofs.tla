----------------------------- MODULE CanonProofs -----------------------------
(***************************************************************************)
(* Theorems about Canon for every set of sources, inscribers and workers.  *)
(* The argument for the text: where no run and inscription overlap, every  *)
(* run has read the row as it still is, and an inscription leaves it       *)
(* pending (Settled).  For the edges: where no two indexings overlap, the  *)
(* one under way has deleted every edge there is (Uncrossed).              *)
(***************************************************************************)
EXTENDS Canon, TLAPS, FiniteSetTheorems

(* Types ------------------------------------------------------------------*)

\* The fields a call has in each of its phases.
LEMMA CallFields ==
  ASSUME NEW r \in Call
  PROVE  /\ r.pc \in {"idle", "record", "index", "indexing", "remember"}
         /\ r.pc = "idle" => r = Idle
         /\ r.pc # "idle" => /\ r.src \in Sources
                             /\ r.rev \in Rev
                             /\ r.call \in {"inscribe", "rebuild"}
         /\ r.pc \in {"record", "remember"} => r.call = "inscribe"
         /\ r.pc = "indexing" => r.dead \subseteq Edge
<1>1. CASE r = Idle
  BY <1>1 DEF Idle
<1>2. CASE r \in Writing
  BY <1>2 DEF Writing
<1>3. CASE r \in Indexing
  BY <1>3 DEF Indexing
<1>4. CASE r \in ToIndex
  BY <1>4 DEF ToIndex
<1> QED
  BY <1>1, <1>2, <1>3, <1>4 DEF Call

\* The fields a run has.
LEMMA RunFields ==
  ASSUME NEW r \in Run
  PROVE  /\ r.pc \in {"idle", "running"}
         /\ r.pc = "idle" => r = Idle
         /\ r.pc = "running" => r.todo \subseteq Item /\ r.done \subseteq Item
<1>1. CASE r = Idle
  BY <1>1 DEF Idle
<1>2. CASE r \in Running
  BY <1>2 DEF Running
<1> QED
  BY <1>1, <1>2 DEF Run

\* A process between two calls or runs.
LEMMA IdleIsBoth == Idle \in Call /\ Idle \in Run /\ Idle.pc = "idle"
  BY DEF Call, Run, Idle

\* A call that begins is well typed.
LEMMA NewCall ==
  ASSUME NEW i \in Inscribers, NEW s \in Sources, TypeOK,
         NEW call, NEW pc,
         \/ pc = "record" /\ call = "inscribe"
         \/ pc = "index" /\ call = "rebuild",
         NEW rev \in Rev, Begin(i, s, call, pc, rev)
  PROVE  TypeOK'
<1> DEFINE r == [pc |-> pc, call |-> call, src |-> s, rev |-> rev]
<1>1. writes \in 0..MaxWrites /\ writes < MaxWrites /\ writes' = writes + 1
  BY DEF TypeOK, Begin
<1>2. writes' \in 0..MaxWrites
  BY <1>1, BoundsAssumption
<1>3. r \in Call
  BY DEF Call, Writing, ToIndex
<1>4. ins' \in [Inscribers -> Call]
  <2>1. ins' = [ins EXCEPT ![i] = r]
    BY DEF Begin
  <2>2. ins \in [Inscribers -> Call]
    BY DEF TypeOK
  <2> HIDE DEF r
  <2> QED
    BY <1>3, <2>1, <2>2
<1> QED
  BY <1>2, <1>4 DEF TypeOK, Begin, stores, history

\* The number of rows, from which the next id is taken.
LEMMA RowCount == Cardinality({r \in Sources : event[r] > 0}) \in Nat
  BY SourcesAssumption, FS_Subset, FS_CardinalityType

\* Only a row can be pending.
PendingHasRow == \A s \in Sources : pending[s] => event[s] > 0

\* Every step keeps the types.
LEMMA NextTypes == TypeOK /\ PendingHasRow /\ [Next]_vars => TypeOK'
<1> SUFFICES ASSUME TypeOK, PendingHasRow, [Next]_vars PROVE TypeOK'
  OBVIOUS
<1> USE IdleIsBoth
<1>1. ASSUME NEW i \in Inscribers, NEW s \in Sources, Fetch(i, s) PROVE TypeOK'
  BY <1>1, NewCall DEF Fetch
<1>2. ASSUME NEW i \in Inscribers, NEW s \in Sources, ReadRow(i, s) PROVE TypeOK'
  <2>1. event[s] \in Rev
    BY <1>2, BoundsAssumption DEF ReadRow, TypeOK, Rev
  <2> QED
    BY <1>2, <2>1, NewCall DEF ReadRow
<1>3. ASSUME NEW i \in Inscribers, RecordEvent(i) PROVE TypeOK'
  <2> DEFINE r == [ins[i] EXCEPT !.pc = "index"]
  <2>1. ins[i] \in Call /\ ins[i].pc = "record" /\ ins \in [Inscribers -> Call]
    BY <1>3 DEF RecordEvent, TypeOK
  <2>2. ins[i] \in Writing
    BY <2>1 DEF Call, ToIndex, Indexing, Idle
  <2>3. r \in Call
    BY <2>2 DEF Writing, ToIndex, Call
  <2>4. ins' = [ins EXCEPT ![i] = r]
    BY <1>3 DEF RecordEvent, GoTo
  <2>5. ins' \in [Inscribers -> Call]
    <3> HIDE DEF r
    <3> QED
      BY <2>1, <2>3, <2>4
  <2>6. event' \in [Sources -> 0..MaxRev] /\ pending' \in [Sources -> BOOLEAN]
    <3>1. ins[i].src \in Sources /\ ins[i].rev \in 0..MaxRev
      BY <2>1, CallFields, BoundsAssumption DEF Rev
    <3>2. event' = [event EXCEPT ![ins[i].src] = ins[i].rev]
          /\ pending' = [pending EXCEPT ![ins[i].src] = TRUE]
      BY <1>3 DEF RecordEvent
    <3> QED
      BY <3>1, <3>2 DEF TypeOK
  <2>7. rowId' \in [Sources -> Nat]
    <3> DEFINE n == Cardinality({r0 \in Sources : event[r0] > 0})
    <3>1. n \in Nat
      BY RowCount
    <3>2. rowId' = [rowId EXCEPT ![ins[i].src] = IF event[ins[i].src] = 0 THEN 1 + n ELSE @]
      BY <1>3 DEF RecordEvent
    <3> DEFINE src == ins[i].src
               v == IF event[src] = 0 THEN 1 + n ELSE rowId[src]
    <3> HIDE DEF n
    <3>3. src \in Sources
      BY <2>1, CallFields
    <3>4. v \in Nat
      BY <3>1, <3>3 DEF TypeOK
    <3>5. rowId' = [rowId EXCEPT ![src] = v]
      BY <3>2, <3>3 DEF TypeOK
    <3> HIDE DEF v, src
    <3> QED
      BY <3>4, <3>5 DEF TypeOK
  <2>8. raced' \in [Sources -> BOOLEAN]
    BY <1>3 DEF RecordEvent, TypeOK, Consolidated
  <2> QED
    BY <1>3, <2>5, <2>6, <2>7, <2>8 DEF RecordEvent, TypeOK
<1>4. ASSUME NEW i \in Inscribers, IndexDelete(i) PROVE TypeOK'
  <2> DEFINE q == ins[i]
             r == [pc |-> "indexing", call |-> q.call, src |-> q.src, rev |-> q.rev,
                   dead |-> edges[q.src]]
  <2>1. q \in Call /\ q.pc = "index" /\ ins \in [Inscribers -> Call]
    BY <1>4 DEF IndexDelete, TypeOK
  <2>2. edges[q.src] \subseteq Edge
    BY <2>1, CallFields DEF TypeOK
  <2>3. r \in Call
    BY <2>1, <2>2, CallFields DEF Call, Indexing
  <2>4. ins' = [ins EXCEPT ![i] = r]
    BY <1>4 DEF IndexDelete
  <2>5. ins' \in [Inscribers -> Call]
    <3> HIDE DEF r
    <3> QED
      BY <2>1, <2>3, <2>4
  <2>6. crossed' \in [Sources -> BOOLEAN]
    BY <1>4 DEF IndexDelete, TypeOK, Indexed
  <2> QED
    BY <1>4, <2>5, <2>6 DEF IndexDelete, TypeOK, stores
<1>5. ASSUME NEW i \in Inscribers, IndexCommit(i) PROVE TypeOK'
  <2> DEFINE q == ins[i]
             w == [pc |-> "remember", call |-> q.call, src |-> q.src, rev |-> q.rev]
             r == IF q.call = "rebuild" THEN Idle ELSE w
             new == {[to |-> l, rev |-> q.rev] : l \in NewTargets(i)}
  <2>1. q \in Call /\ q.pc = "indexing" /\ ins \in [Inscribers -> Call]
    BY <1>5 DEF IndexCommit, TypeOK
  <2>2. q.call # "rebuild" => w \in Call
    BY <2>1, CallFields DEF Call, Writing
  <2>3. r \in Call
    BY <2>2, IdleIsBoth
  <2>4. ins' = [ins EXCEPT ![i] = r]
    BY <1>5 DEF IndexCommit
  <2>5. ins' \in [Inscribers -> Call]
    <3> HIDE DEF r
    <3> QED
      BY <2>1, <2>3, <2>4
  <2>6. NewTargets(i) \subseteq Links
    BY <2>1, CallFields, LinksAssumption DEF NewTargets, Rev
  <2>7. new \subseteq Edge
    BY <2>1, <2>6, CallFields DEF Edge
  <2>8. Left(i) \subseteq Edge /\ edges \in [Sources -> SUBSET Edge] /\ q.src \in Sources
    BY <2>1, CallFields DEF Left, TypeOK
  <2>9. edges' = [edges EXCEPT ![q.src] = Left(i) \cup new]
    BY <1>5 DEF IndexCommit
  <2>10. edges' \in [Sources -> SUBSET Edge]
    <3> HIDE DEF new, q
    <3> QED
      BY <2>7, <2>8, <2>9
  <2> QED
    BY <1>5, <2>5, <2>10 DEF IndexCommit, TypeOK, history
<1>6. ASSUME NEW i \in Inscribers, IndexConflict(i) PROVE TypeOK'
  BY <1>6 DEF IndexConflict, End, TypeOK, stores, history
<1>7. ASSUME NEW i \in Inscribers, Remember(i) PROVE TypeOK'
  <2>1. ins[i].src \in Sources /\ ins[i].rev \in 0..MaxRev
    BY <1>7, CallFields, BoundsAssumption DEF Remember, TypeOK, Rev
  <2>2. memory' \in [Sources -> [rev : 0..MaxRev, distilled : BOOLEAN]]
    BY <1>7, <2>1 DEF Remember, TypeOK
  <2> QED
    BY <1>7, <2>2 DEF Remember, End, TypeOK, history
<1>8. ASSUME NEW i \in Inscribers, FailWrite(i) PROVE TypeOK'
  BY <1>8, BoundsAssumption DEF FailWrite, End, TypeOK, stores, history
<1>9. ASSUME NEW c \in Consolidators, Sweep(c) PROVE TypeOK'
  BY <1>9 DEF Sweep, TypeOK, stores, history
<1>10. ASSUME NEW c \in Consolidators, StartRun(c) PROVE TypeOK'
  <2>1. PICK B \in SUBSET Pending :
          /\ con' = [con EXCEPT ![c] =
               IF B = {} THEN Idle
               ELSE [pc |-> "running",
                     todo |-> {[src |-> s, rev |-> event[s]] : s \in B}, done |-> {}]]
          /\ IsOldest(B)
          /\ raced' = [s \in Sources |->
               IF s \in B THEN Inscribed(s) \/ (raced[s] /\ Consolidated(s)) ELSE raced[s]]
    BY <1>10 DEF StartRun
  <2> DEFINE todo == {[src |-> s, rev |-> event[s]] : s \in B}
             r == [pc |-> "running", todo |-> todo, done |-> {}]
  <2>2. todo \subseteq Item
    BY BoundsAssumption DEF Item, Pending, PendingHasRow, TypeOK, Rev
  <2>3. r \in Run
    BY <2>2 DEF Run, Running
  <2>4. con' \in [Consolidators -> Run]
    <3>1. con' = [con EXCEPT ![c] = IF B = {} THEN Idle ELSE r]
      BY <2>1
    <3> HIDE DEF r
    <3> QED
      BY <2>3, <3>1 DEF TypeOK
  <2>5. raced' \in [Sources -> BOOLEAN]
    BY <2>1 DEF Inscribed, Consolidated, TypeOK
  <2> QED
    BY <1>10, <2>4, <2>5 DEF StartRun, TypeOK, stores
<1>11. ASSUME NEW c \in Consolidators, Distil(c) PROVE TypeOK'
  <2>1. PICK x \in con[c].todo :
          /\ memory' = [memory EXCEPT ![x.src] = [rev |-> x.rev, distilled |-> TRUE]]
          /\ con' = [con EXCEPT ![c].todo = @ \ {x}, ![c].done = @ \cup {x}]
    BY <1>11 DEF Distil
  <2>2. con[c] \in Running
    BY <1>11 DEF Distil, TypeOK, Run, Idle
  <2>3. x.src \in Sources /\ x.rev \in 0..MaxRev /\ x \in Item
    BY <2>2, BoundsAssumption DEF Running, Item, Rev
  <2>4. memory' \in [Sources -> [rev : 0..MaxRev, distilled : BOOLEAN]]
    BY <2>1, <2>3 DEF TypeOK
  <2> DEFINE r == [con[c] EXCEPT !.todo = @ \ {x}, !.done = @ \cup {x}]
  <2>5. r \in Run
    BY <2>2, <2>3 DEF Running, Run
  <2>6. con' = [con EXCEPT ![c] = r]
    BY <2>1 DEF TypeOK
  <2>7. con' \in [Consolidators -> Run]
    <3> HIDE DEF r
    <3> QED
      BY <2>5, <2>6 DEF TypeOK
  <2> QED
    BY <1>11, <2>4, <2>7 DEF Distil, TypeOK, history
<1>12. ASSUME NEW c \in Consolidators, Skip(c) PROVE TypeOK'
  <2>1. PICK x \in con[c].todo :
          /\ con' = [con EXCEPT ![c].todo = @ \ {x}]
          /\ IF x.src \in Unsummarized THEN UNCHANGED fails
             ELSE fails < MaxFails /\ fails' = fails + 1
    BY <1>12 DEF Skip
  <2>2. con[c] \in Running
    BY <1>12 DEF Skip, TypeOK, Run, Idle
  <2> DEFINE r == [con[c] EXCEPT !.todo = @ \ {x}]
  <2>3. r \in Run
    BY <2>2 DEF Running, Run
  <2>4. con' = [con EXCEPT ![c] = r]
    BY <2>1 DEF TypeOK
  <2>5. con' \in [Consolidators -> Run]
    <3> HIDE DEF r
    <3> QED
      BY <2>3, <2>4 DEF TypeOK
  <2>6. fails' \in 0..MaxFails
    BY <2>1, BoundsAssumption DEF TypeOK
  <2> QED
    BY <1>12, <2>5, <2>6 DEF Skip, TypeOK, stores, history
<1>13. ASSUME NEW c \in Consolidators, MarkConsolidated(c) PROVE TypeOK'
  <2>1. pending' \in [Sources -> BOOLEAN]
    BY <1>13 DEF MarkConsolidated, TypeOK
  <2> QED
    BY <1>13, <2>1 DEF MarkConsolidated, TypeOK, history
<1>14. ASSUME NEW c \in Consolidators, FailRun(c) PROVE TypeOK'
  BY <1>14, BoundsAssumption DEF FailRun, TypeOK, stores, history
<1>15. CASE UNCHANGED vars
  BY <1>15 DEF vars, stores, history, TypeOK
<1> QED
  BY <1>1, <1>2, <1>3, <1>4, <1>5, <1>6, <1>7, <1>8, <1>9, <1>10, <1>11, <1>12,
     <1>13, <1>14, <1>15
  DEF Next, InscribeStep, ConsolidateStep

(* The inductive invariant ------------------------------------------------*)

\* Whoever is past the record, or has a batch, works on rows that exist.
WritersHaveRow ==
  \A i \in Inscribers : ins[i].pc \in {"index", "indexing", "remember"} => event[ins[i].src] > 0
RunsHaveRow ==
  \A c \in Consolidators : con[c].pc = "running"
    => \A x \in con[c].todo \cup con[c].done : event[x.src] > 0

HasRow == PendingHasRow /\ FoundIsRecorded /\ WritersHaveRow /\ RunsHaveRow

\* What a run with s in its batch knows of it.
RunKnows(c, s) ==
  \A x \in Batched(c) : x.src = s =>
    /\ x.rev = event[s]
    /\ x \in con[c].done => memory[s] = [rev |-> event[s], distilled |-> TRUE]

\* On a source no run and inscription overlapped on: what "consolidated" means,
\* that an inscription finds it pending until its text is found, and that every
\* run has read the row as it is.
SettledOn(s) ==
  /\ event[s] > 0 /\ ~pending[s] => memory[s] = [rev |-> event[s], distilled |-> TRUE]
  /\ Inscribed(s) => pending[s] /\ ~Consolidated(s)
  /\ \A c \in Consolidators : RunKnows(c, s)
Settled == \A s \in Sources : ~raced[s] => SettledOn(s)

\* On a source no two indexings overlapped on: the one between its delete and
\* its commit has deleted every edge there is.
IndexedOn(s) ==
  /\ OneText(s)
  /\ \A i, j \in Inscribers : IndexingOn(i, s) /\ IndexingOn(j, s) => i = j
  /\ \A i \in Inscribers : IndexingOn(i, s) => ins[i].dead = edges[s]
Uncrossed == \A s \in Sources : ~crossed[s] => IndexedOn(s)

IInv == TypeOK /\ HasRow /\ Settled /\ Uncrossed

(* Every text has its row -------------------------------------------------*)

\* Every step keeps HasRow: rows are never deleted, and whoever writes a
\* text has written or read its row before.
LEMMA NextHasRow == TypeOK /\ HasRow /\ [Next]_vars => HasRow'
<1> SUFFICES ASSUME TypeOK, HasRow, [Next]_vars PROVE HasRow'
  OBVIOUS
<1>1. ASSUME NEW i \in Inscribers, NEW s \in Sources, Fetch(i, s) PROVE HasRow'
  <2>1. PICK rev \in Nat : Begin(i, s, "inscribe", "record", rev)
    BY <1>1, BoundsAssumption DEF Fetch, TypeOK, Rev
  <2>2. WritersHaveRow'
    BY <2>1 DEF HasRow, WritersHaveRow, Begin, TypeOK, stores
  <2> QED
    BY <2>1, <2>2 DEF HasRow, PendingHasRow, FoundIsRecorded, RunsHaveRow, Begin, stores
<1>2. ASSUME NEW i \in Inscribers, NEW s \in Sources, ReadRow(i, s) PROVE HasRow'
  <2>1. WritersHaveRow'
    BY <1>2 DEF HasRow, WritersHaveRow, ReadRow, Begin, TypeOK, stores
  <2> QED
    BY <1>2, <2>1 DEF HasRow, PendingHasRow, FoundIsRecorded, RunsHaveRow, ReadRow, Begin, stores
<1>3. ASSUME NEW i \in Inscribers, RecordEvent(i) PROVE HasRow'
  <2> DEFINE src == ins[i].src
  <2>1. src \in Sources /\ ins[i].rev > 0
    BY <1>3, CallFields, BoundsAssumption DEF RecordEvent, TypeOK, Rev
  <2>2. /\ event' = [event EXCEPT ![src] = ins[i].rev]
        /\ pending' = [pending EXCEPT ![src] = TRUE]
        /\ ins' = [ins EXCEPT ![i].pc = "index"]
        /\ UNCHANGED <<memory, con>>
    BY <1>3 DEF RecordEvent, GoTo
  <2> HIDE DEF src
  <2>3. \A r \in Sources : event'[r] = IF r = src THEN ins[i].rev ELSE event[r]
    BY <2>1, <2>2 DEF TypeOK
  <2>4. \A r \in Sources : event[r] > 0 => event'[r] > 0
    BY <2>1, <2>3
  <2>5. PendingHasRow' /\ FoundIsRecorded'
    BY <2>1, <2>2, <2>3, <2>4 DEF HasRow, PendingHasRow, FoundIsRecorded, TypeOK
  <2>6. WritersHaveRow'
    <3> SUFFICES ASSUME NEW j \in Inscribers, ins'[j].pc \in {"index", "indexing", "remember"}
                 PROVE event'[ins'[j].src] > 0
      BY DEF WritersHaveRow
    <3>1. CASE j = i
      <4>1. ins'[j].src = src
        BY <3>1, <2>2 DEF src, TypeOK
      <4> QED
        BY <4>1, <2>1, <2>3
    <3>2. CASE j # i
      <4>1. ins'[j] = ins[j]
        BY <3>2, <2>2 DEF TypeOK
      <4>2. ins[j].src \in Sources /\ event[ins[j].src] > 0
        BY <4>1, CallFields DEF TypeOK, HasRow, WritersHaveRow
      <4> QED
        BY <4>1, <4>2, <2>4
    <3> QED
      BY <3>1, <3>2
  <2>7. RunsHaveRow'
    <3> SUFFICES ASSUME NEW c \in Consolidators, con[c].pc = "running",
                        NEW x \in con[c].todo \cup con[c].done
                 PROVE event'[x.src] > 0
      BY <2>2 DEF RunsHaveRow
    <3>1. x.src \in Sources /\ event[x.src] > 0
      BY RunFields DEF TypeOK, HasRow, RunsHaveRow, Item
    <3> QED
      BY <3>1, <2>4
  <2> QED
    BY <2>5, <2>6, <2>7 DEF HasRow
<1>4. ASSUME NEW i \in Inscribers, IndexDelete(i) PROVE HasRow'
  <2>1. WritersHaveRow'
    BY <1>4 DEF HasRow, WritersHaveRow, IndexDelete, TypeOK, stores
  <2> QED
    BY <1>4, <2>1 DEF HasRow, PendingHasRow, FoundIsRecorded, RunsHaveRow, IndexDelete, stores
<1>5. ASSUME NEW i \in Inscribers, IndexCommit(i) PROVE HasRow'
  <2>1. WritersHaveRow'
    BY <1>5, IdleIsBoth DEF HasRow, WritersHaveRow, IndexCommit, TypeOK
  <2> QED
    BY <1>5, <2>1 DEF HasRow, PendingHasRow, FoundIsRecorded, RunsHaveRow, IndexCommit
<1>6. ASSUME NEW i \in Inscribers, IndexConflict(i) \/ FailWrite(i) PROVE HasRow'
  <2>1. UNCHANGED <<stores, con>> /\ ins' = [ins EXCEPT ![i] = Idle]
    BY <1>6 DEF IndexConflict, FailWrite, End
  <2>2. WritersHaveRow'
    BY <2>1, IdleIsBoth DEF HasRow, WritersHaveRow, TypeOK, stores
  <2> QED
    BY <2>1, <2>2 DEF HasRow, PendingHasRow, FoundIsRecorded, RunsHaveRow, stores
<1>7. ASSUME NEW i \in Inscribers, Remember(i) PROVE HasRow'
  <2>1. /\ ins[i].pc = "remember"
        /\ memory' = [memory EXCEPT ![ins[i].src] = [rev |-> ins[i].rev, distilled |-> FALSE]]
        /\ ins' = [ins EXCEPT ![i] = Idle]
        /\ UNCHANGED <<event, pending, con>>
    BY <1>7 DEF Remember, End
  <2>2. WritersHaveRow'
    BY <2>1, IdleIsBoth DEF HasRow, WritersHaveRow, TypeOK
  <2>3. event[ins[i].src] > 0
    BY <2>1 DEF HasRow, WritersHaveRow
  <2>4. FoundIsRecorded'
    BY <2>1, <2>3 DEF HasRow, FoundIsRecorded, TypeOK
  <2> QED
    BY <2>1, <2>2, <2>4 DEF HasRow, PendingHasRow, RunsHaveRow
<1>8. ASSUME NEW c \in Consolidators, Sweep(c) PROVE HasRow'
  BY <1>8 DEF HasRow, PendingHasRow, FoundIsRecorded, WritersHaveRow, RunsHaveRow, Sweep, stores
<1>9. ASSUME NEW c \in Consolidators, StartRun(c) PROVE HasRow'
  <2>1. PICK B \in SUBSET Pending :
          con' = [con EXCEPT ![c] =
               IF B = {} THEN Idle
               ELSE [pc |-> "running",
                     todo |-> {[src |-> s, rev |-> event[s]] : s \in B}, done |-> {}]]
    BY <1>9 DEF StartRun
  <2>2. \A s \in B : event[s] > 0
    BY DEF Pending, HasRow, PendingHasRow
  <2>3. RunsHaveRow'
    <3> SUFFICES ASSUME NEW d \in Consolidators, con'[d].pc = "running",
                        NEW x \in con'[d].todo \cup con'[d].done
                 PROVE event[x.src] > 0
      BY <1>9 DEF RunsHaveRow, StartRun, stores
    <3>1. CASE d = c
      BY <3>1, <2>1, <2>2, IdleIsBoth DEF TypeOK
    <3>2. CASE d # c
      BY <3>2, <2>1 DEF TypeOK, HasRow, RunsHaveRow
    <3> QED
      BY <3>1, <3>2
  <2> QED
    BY <1>9, <2>3 DEF HasRow, PendingHasRow, FoundIsRecorded, WritersHaveRow, StartRun, stores
<1>10. ASSUME NEW c \in Consolidators, Distil(c) PROVE HasRow'
  <2>1. PICK x \in con[c].todo :
          /\ memory' = [memory EXCEPT ![x.src] = [rev |-> x.rev, distilled |-> TRUE]]
          /\ con' = [con EXCEPT ![c].todo = @ \ {x}, ![c].done = @ \cup {x}]
    BY <1>10 DEF Distil
  <2>2. event[x.src] > 0
    BY <1>10 DEF HasRow, RunsHaveRow, Distil
  <2>3. RunsHaveRow'
    <3> SUFFICES ASSUME NEW d \in Consolidators, con'[d].pc = "running",
                        NEW y \in con'[d].todo \cup con'[d].done
                 PROVE event[y.src] > 0
      BY <1>10 DEF RunsHaveRow, Distil
    <3>1. y \in con[d].todo \cup con[d].done /\ con[d].pc = "running"
      BY <2>1 DEF TypeOK
    <3> QED
      BY <3>1 DEF HasRow, RunsHaveRow
  <2>4. FoundIsRecorded'
    BY <1>10, <2>1, <2>2 DEF HasRow, FoundIsRecorded, TypeOK, Distil
  <2> QED
    BY <1>10, <2>3, <2>4 DEF HasRow, PendingHasRow, WritersHaveRow, Distil
<1>11. ASSUME NEW c \in Consolidators, Skip(c) PROVE HasRow'
  <2>1. PICK x \in con[c].todo : con' = [con EXCEPT ![c].todo = @ \ {x}]
    BY <1>11 DEF Skip
  <2>2. RunsHaveRow'
    BY <1>11, <2>1 DEF HasRow, RunsHaveRow, TypeOK, Skip, stores
  <2> QED
    BY <1>11, <2>2 DEF HasRow, PendingHasRow, FoundIsRecorded, WritersHaveRow, Skip, stores
<1>12. ASSUME NEW c \in Consolidators, MarkConsolidated(c) PROVE HasRow'
  BY <1>12, IdleIsBoth DEF MarkConsolidated, TypeOK, HasRow, PendingHasRow, FoundIsRecorded,
     WritersHaveRow, RunsHaveRow
<1>13. ASSUME NEW c \in Consolidators, FailRun(c) PROVE HasRow'
  BY <1>13, IdleIsBoth DEF FailRun, TypeOK, HasRow, PendingHasRow, FoundIsRecorded,
     WritersHaveRow, RunsHaveRow, stores
<1>14. CASE UNCHANGED vars
  BY <1>14 DEF vars, stores, HasRow, PendingHasRow, FoundIsRecorded, WritersHaveRow, RunsHaveRow
<1> QED
  BY <1>1, <1>2, <1>3, <1>4, <1>5, <1>6, <1>7, <1>8, <1>9, <1>10, <1>11, <1>12,
     <1>13, <1>14
  DEF Next, InscribeStep, ConsolidateStep

(* Consolidated means distilled --------------------------------------------*)

\* A step that leaves the stores of s alone and starts nothing on it keeps
\* what is known of s.
LEMMA SettledElsewhere ==
  ASSUME NEW s \in Sources, SettledOn(s),
         event'[s] = event[s], pending'[s] = pending[s], memory'[s] = memory[s],
         \A i \in Inscribers : Inscribing(i, s)' => Inscribing(i, s),
         \A c \in Consolidators : \A x \in Batched(c)' : x.src = s
           => x \in Batched(c) /\ (x \in con'[c].done => x \in con[c].done)
  PROVE  SettledOn(s)'
<1>1. Inscribed(s)' => Inscribed(s)
  BY DEF Inscribed
<1>2. Consolidated(s)' => Consolidated(s)
  BY DEF Consolidated, Consolidating
<1>3. ASSUME NEW c \in Consolidators PROVE RunKnows(c, s)'
  <2>1. RunKnows(c, s)
    BY DEF SettledOn
  <2> QED
    BY <2>1 DEF RunKnows
<1> QED
  BY <1>1, <1>2, <1>3 DEF SettledOn

\* Nobody's run is on a source that no run has in its batch.
LEMMA NoRun ==
  ASSUME NEW s, ~Consolidated(s), NEW c \in Consolidators
  PROVE  \A x \in Batched(c) : x.src # s
  BY DEF Consolidated, Consolidating

\* A step of an inscriber that is no inscription's start, and leaves row and
\* text alone.
LEMMA SettledInCall ==
  ASSUME TypeOK, Settled, UNCHANGED <<event, pending, memory, con, raced>>,
         \A i \in Inscribers, s \in Sources : Inscribing(i, s)' => Inscribing(i, s)
  PROVE  Settled'
<1> SUFFICES ASSUME NEW s \in Sources, ~raced[s] PROVE SettledOn(s)'
  BY DEF Settled
<1>1. \A c \in Consolidators : Batched(c)' = Batched(c)
  BY DEF Batched
<1> QED
  BY <1>1, SettledElsewhere DEF Settled

\* The run of a worker, and what its step leaves of the others'.
LEMMA RunningIs ==
  ASSUME TypeOK, NEW c \in Consolidators, con[c].pc = "running"
  PROVE  con[c] \in Running
<1>1. con[c] \in Run
  BY DEF TypeOK
<1> QED
  BY <1>1 DEF Run, Idle

\* Every step keeps what is known of the sources no run and inscription have
\* overlapped on.
LEMMA NextSettled == TypeOK /\ Settled /\ [Next]_vars => Settled'
<1> SUFFICES ASSUME TypeOK, Settled, [Next]_vars PROVE Settled'
  OBVIOUS
<1>1. ASSUME NEW i \in Inscribers, NEW s \in Sources, Fetch(i, s) \/ ReadRow(i, s)
      PROVE  Settled'
  <2>1. PICK call, pc, rev :
          /\ Begin(i, s, call, pc, rev)
          /\ pc = "record" \/ call = "rebuild"
    BY <1>1 DEF Fetch, ReadRow
  <2>2. \A j \in Inscribers, r \in Sources : Inscribing(j, r)' => Inscribing(j, r)
    BY <2>1 DEF Begin, Inscribing, TypeOK
  <2> QED
    BY <2>1, <2>2, SettledInCall DEF Begin, stores, history
<1>2. ASSUME NEW i \in Inscribers, RecordEvent(i) PROVE Settled'
  <2>1. PICK src \in Sources : ins[i].src = src
    BY <1>2, CallFields DEF RecordEvent, TypeOK
  <2>2. /\ event' = [event EXCEPT ![src] = ins[i].rev]
        /\ pending' = [pending EXCEPT ![src] = TRUE]
        /\ raced' = [raced EXCEPT ![src] = Consolidated(src)]
        /\ ins' = [ins EXCEPT ![i].pc = "index"]
        /\ UNCHANGED <<memory, con>>
    BY <1>2, <2>1 DEF RecordEvent, GoTo
  <2>3. \A c \in Consolidators : Batched(c)' = Batched(c)
    BY <2>2 DEF Batched
  <2> SUFFICES ASSUME NEW s \in Sources, ~raced'[s] PROVE SettledOn(s)'
    BY DEF Settled
  <2>4. CASE s = src
    <3>1. pending'[s] = TRUE /\ ~Consolidated(s)
      BY <2>2, <2>4 DEF TypeOK
    <3>2. ~Consolidated(s)'
      BY <2>3, <3>1 DEF Consolidated, Consolidating
    <3>3. \A c \in Consolidators : RunKnows(c, s)'
      BY <2>3, <3>1, NoRun DEF RunKnows
    <3> QED
      BY <3>1, <3>2, <3>3 DEF SettledOn
  <2>5. CASE s # src
    <3>1. /\ event'[s] = event[s] /\ pending'[s] = pending[s]
          /\ memory'[s] = memory[s] /\ raced'[s] = raced[s]
      BY <2>2, <2>5 DEF TypeOK
    <3>2. ins'[i].src = src
      BY <2>1, <2>2 DEF TypeOK
    <3>3. \A j \in Inscribers : Inscribing(j, s)' => Inscribing(j, s)
      BY <2>2, <2>5, <3>2 DEF Inscribing, TypeOK
    <3> QED
      BY <2>2, <2>3, <3>1, <3>3, SettledElsewhere DEF Settled
  <2> QED
    BY <2>4, <2>5
<1>3. ASSUME NEW i \in Inscribers,
             IndexDelete(i) \/ IndexCommit(i) \/ IndexConflict(i) \/ FailWrite(i)
      PROVE  Settled'
  <2>1. \A j \in Inscribers, r \in Sources : Inscribing(j, r)' => Inscribing(j, r)
    <3> USE IdleIsBoth DEF TypeOK, Inscribing
    <3>1. CASE IndexDelete(i)
      BY <3>1 DEF IndexDelete
    <3>2. CASE IndexCommit(i)
      BY <3>2 DEF IndexCommit
    <3>3. CASE IndexConflict(i) \/ FailWrite(i)
      BY <3>3 DEF IndexConflict, FailWrite, End
    <3> QED
      BY <1>3, <3>1, <3>2, <3>3
  <2>2. UNCHANGED <<event, pending, memory, con, raced>>
    BY <1>3 DEF IndexDelete, IndexCommit, IndexConflict, FailWrite, stores, history
  <2> QED
    BY <2>1, <2>2, SettledInCall
<1>4. ASSUME NEW i \in Inscribers, Remember(i) PROVE Settled'
  <2>1. PICK src \in Sources : ins[i].src = src /\ Inscribing(i, src)
    BY <1>4, CallFields DEF Remember, Inscribing, TypeOK
  <2>2. /\ memory' = [memory EXCEPT ![src] = [rev |-> ins[i].rev, distilled |-> FALSE]]
        /\ ins' = [ins EXCEPT ![i] = Idle]
        /\ UNCHANGED <<event, pending, con, raced>>
    BY <1>4, <2>1 DEF Remember, End, history
  <2>3. \A j \in Inscribers, s \in Sources : Inscribing(j, s)' => Inscribing(j, s)
    BY <2>2, IdleIsBoth DEF Inscribing, TypeOK
  <2>4. \A c \in Consolidators : Batched(c)' = Batched(c)
    BY <2>2 DEF Batched
  <2> SUFFICES ASSUME NEW s \in Sources, ~raced[s] PROVE SettledOn(s)'
    BY <2>2 DEF Settled
  <2>5. SettledOn(s)
    BY DEF Settled
  <2>6. CASE s = src
    <3>1. pending[s] /\ ~Consolidated(s)
      BY <2>1, <2>5, <2>6 DEF SettledOn, Inscribed
    <3>2. ~Consolidated(s)'
      BY <2>4, <3>1 DEF Consolidated, Consolidating
    <3>3. \A c \in Consolidators : RunKnows(c, s)'
      BY <2>4, <3>1, NoRun DEF RunKnows
    <3> QED
      BY <2>2, <3>1, <3>2, <3>3 DEF SettledOn
  <2>7. CASE s # src
    <3>1. memory'[s] = memory[s]
      BY <2>2, <2>7 DEF TypeOK
    <3> QED
      BY <2>2, <2>3, <2>4, <2>5, <3>1, SettledElsewhere
  <2> QED
    BY <2>6, <2>7
<1>5. ASSUME NEW c \in Consolidators, Sweep(c) \/ Skip(c) \/ FailRun(c) PROVE Settled'
  <2>1. UNCHANGED <<stores, ins, history>>
    BY <1>5 DEF Sweep, Skip, FailRun
  <2>2. ASSUME NEW d \in Consolidators, NEW x \in Batched(d)'
        PROVE  x \in Batched(d) /\ (x \in con'[d].done => x \in con[d].done)
    <3>1. CASE Sweep(c)
      BY <2>2, <3>1 DEF Sweep, Batched
    <3>2. CASE Skip(c)
      <4>1. PICK y \in con[c].todo : con' = [con EXCEPT ![c].todo = @ \ {y}]
        BY <3>2 DEF Skip
      <4>2. con[c].pc = "running" /\ con[c] \in Running
        BY <3>2, RunningIs DEF Skip
      <4>3. con'[c].todo \subseteq con[c].todo /\ con'[c].done = con[c].done
        BY <4>1, <4>2 DEF TypeOK, Running
      <4>4. d # c => con'[d] = con[d]
        BY <4>1 DEF TypeOK
      <4> QED
        BY <2>2, <4>2, <4>3, <4>4 DEF Batched
    <3>3. CASE FailRun(c)
      BY <2>2, <3>3, IdleIsBoth DEF FailRun, Batched, TypeOK
    <3> QED
      BY <1>5, <3>1, <3>2, <3>3
  <2> SUFFICES ASSUME NEW s \in Sources, ~raced[s] PROVE SettledOn(s)'
    BY <2>1 DEF Settled, history
  <2>3. \A i \in Inscribers : Inscribing(i, s)' => Inscribing(i, s)
    BY <2>1 DEF Inscribing
  <2> QED
    BY <2>1, <2>2, <2>3, SettledElsewhere DEF Settled, stores
<1>6. ASSUME NEW c \in Consolidators, StartRun(c) PROVE Settled'
  <2>1. PICK B \in SUBSET Pending :
          /\ con' = [con EXCEPT ![c] =
               IF B = {} THEN Idle
               ELSE [pc |-> "running",
                     todo |-> {[src |-> s, rev |-> event[s]] : s \in B}, done |-> {}]]
          /\ raced' = [s \in Sources |->
               IF s \in B THEN Inscribed(s) \/ (raced[s] /\ Consolidated(s)) ELSE raced[s]]
    BY <1>6 DEF StartRun
  <2>2. Batched(c)' = {[src |-> s, rev |-> event[s]] : s \in B}
        /\ (B # {} => con'[c].done = {})
    BY <2>1, IdleIsBoth DEF Batched, TypeOK
  <2>3. \A d \in Consolidators \ {c} : con'[d] = con[d] /\ Batched(d)' = Batched(d)
    BY <2>1 DEF TypeOK, Batched
  <2>4. UNCHANGED <<stores, ins>>
    BY <1>6 DEF StartRun
  <2> SUFFICES ASSUME NEW s \in Sources, ~raced'[s] PROVE SettledOn(s)'
    BY DEF Settled
  <2>5. CASE s \notin B
    <3>1. SettledOn(s)
      BY <2>1, <2>5 DEF Settled
    <3>2. \A d \in Consolidators : \A x \in Batched(d)' : x.src = s
             => x \in Batched(d) /\ (x \in con'[d].done => x \in con[d].done)
      BY <2>2, <2>3, <2>5
    <3>3. \A i \in Inscribers : Inscribing(i, s)' => Inscribing(i, s)
      BY <2>4 DEF Inscribing
    <3> QED
      BY <2>4, <3>1, <3>2, <3>3, SettledElsewhere DEF stores
  <2>6. CASE s \in B
    <3>1. ~Inscribed(s) /\ (Consolidated(s) => ~raced[s])
      BY <2>1, <2>6
    <3>2. ~Inscribed(s)'
      BY <2>4, <3>1 DEF Inscribed, Inscribing
    <3>3. pending'[s] /\ event'[s] = event[s] /\ memory'[s] = memory[s]
      BY <2>4, <2>6 DEF Pending, stores
    <3>4. RunKnows(c, s)'
      <4>1. \A x \in Batched(c)' : x.src = s => x.rev = event[s] /\ x \notin con'[c].done
        BY <2>2, <2>6
      <4> QED
        BY <3>3, <4>1 DEF RunKnows
    <3>5. ASSUME NEW d \in Consolidators \ {c} PROVE RunKnows(d, s)'
      <4>1. CASE Consolidated(s)
        <5>1. RunKnows(d, s)
          BY <3>1, <4>1 DEF Settled, SettledOn
        <5> QED
          BY <2>3, <3>3, <5>1 DEF RunKnows
      <4>2. CASE ~Consolidated(s)
        BY <2>3, <4>2, NoRun DEF RunKnows
      <4> QED
        BY <4>1, <4>2
    <3> QED
      BY <3>2, <3>3, <3>4, <3>5 DEF SettledOn
  <2> QED
    BY <2>5, <2>6
<1>7. ASSUME NEW c \in Consolidators, Distil(c) PROVE Settled'
  <2>1. PICK x \in con[c].todo :
          /\ memory' = [memory EXCEPT ![x.src] = [rev |-> x.rev, distilled |-> TRUE]]
          /\ con' = [con EXCEPT ![c].todo = @ \ {x}, ![c].done = @ \cup {x}]
    BY <1>7 DEF Distil
  <2>2. con[c].pc = "running" /\ con[c] \in Running
    BY <1>7, RunningIs DEF Distil
  <2>3. /\ con'[c].pc = "running"
        /\ con'[c].todo = con[c].todo \ {x}
        /\ con'[c].done = con[c].done \cup {x}
        /\ x.src \in Sources
    BY <2>1, <2>2 DEF TypeOK, Running, Item
  <2>4. Batched(c)' = Batched(c) /\ x \in Batched(c)
    BY <2>2, <2>3 DEF Batched
  <2>5. \A d \in Consolidators \ {c} : con'[d] = con[d] /\ Batched(d)' = Batched(d)
    BY <2>1 DEF TypeOK, Batched
  <2>6. UNCHANGED <<event, pending, ins, raced>>
    BY <1>7 DEF Distil, history
  <2> SUFFICES ASSUME NEW s \in Sources, ~raced[s] PROVE SettledOn(s)'
    BY <2>6 DEF Settled
  <2>7. SettledOn(s) /\ \A d \in Consolidators : RunKnows(d, s)
    BY DEF Settled, SettledOn
  <2>8. CASE s # x.src
    <3>1. \A i \in Inscribers : Inscribing(i, s)' => Inscribing(i, s)
      BY <2>6 DEF Inscribing
    <3>2. memory'[s] = memory[s]
      BY <2>1, <2>8 DEF TypeOK
    <3>3. \A d \in Consolidators : \A y \in Batched(d)' : y.src = s
             => y \in Batched(d) /\ (y \in con'[d].done => y \in con[d].done)
      BY <2>3, <2>4, <2>5, <2>8
    <3> QED
      BY <2>6, <2>7, <3>1, <3>2, <3>3, SettledElsewhere
  <2>9. CASE s = x.src
    <3>1. Consolidated(s)
      BY <2>4, <2>9 DEF Consolidated, Consolidating
    <3>2. ~Inscribed(s)'
      BY <2>6, <2>7, <3>1 DEF SettledOn, Inscribed, Inscribing
    <3>3. memory'[s] = [rev |-> event'[s], distilled |-> TRUE]
      <4>1. x.rev = event[s]
        BY <2>4, <2>7, <2>9 DEF RunKnows
      <4> QED
        BY <2>1, <2>6, <2>9, <4>1 DEF TypeOK
    <3>4. \A d \in Consolidators : RunKnows(d, s)'
      BY <2>4, <2>5, <2>6, <2>7, <3>3 DEF RunKnows
    <3> QED
      BY <3>2, <3>3, <3>4 DEF SettledOn
  <2> QED
    BY <2>8, <2>9
<1>8. ASSUME NEW c \in Consolidators, MarkConsolidated(c) PROVE Settled'
  <2>1. /\ con[c].pc = "running" /\ con[c].todo = {}
        /\ pending' = [s \in Sources |-> pending[s] /\ s \notin Marked(c)]
        /\ UNCHANGED <<event, memory, ins, raced>>
    BY <1>8 DEF MarkConsolidated, history
  <2>2. con'[c] = Idle /\ \A d \in Consolidators \ {c} : con'[d] = con[d]
    BY <1>8 DEF MarkConsolidated, TypeOK
  <2>3. Batched(c)' = {} /\ \A d \in Consolidators \ {c} : Batched(d)' = Batched(d)
    BY <2>2, IdleIsBoth DEF Batched
  <2> SUFFICES ASSUME NEW s \in Sources, ~raced[s] PROVE SettledOn(s)'
    BY <2>1 DEF Settled
  <2>4. SettledOn(s) /\ \A d \in Consolidators : RunKnows(d, s)
    BY DEF Settled, SettledOn
  <2>5. CASE s \notin Marked(c)
    <3>1. pending'[s] = pending[s]
      BY <2>1, <2>5 DEF TypeOK
    <3>2. \A i \in Inscribers : Inscribing(i, s)' => Inscribing(i, s)
      BY <2>1 DEF Inscribing
    <3>3. \A d \in Consolidators : \A y \in Batched(d)' : y.src = s
             => y \in Batched(d) /\ (y \in con'[d].done => y \in con[d].done)
      BY <2>2, <2>3
    <3> QED
      BY <2>1, <2>4, <3>1, <3>2, <3>3, SettledElsewhere
  <2>6. CASE s \in Marked(c)
    <3>1. PICK x \in con[c].done : x.src = s
      BY <2>6 DEF Marked
    <3>2. x \in Batched(c)
      BY <2>1, <3>1 DEF Batched
    <3>3. memory[s] = [rev |-> event[s], distilled |-> TRUE]
      BY <2>4, <3>1, <3>2 DEF RunKnows
    <3>4. ~Inscribed(s)'
      BY <2>1, <2>4, <3>1, <3>2 DEF SettledOn, Consolidated, Consolidating, Inscribed, Inscribing
    <3>5. \A d \in Consolidators : RunKnows(d, s)'
      BY <2>1, <2>2, <2>3, <2>4 DEF RunKnows
    <3> QED
      BY <2>1, <3>3, <3>4, <3>5 DEF SettledOn
  <2> QED
    BY <2>5, <2>6
<1>9. CASE UNCHANGED vars
  BY <1>9, SettledInCall DEF vars, stores, history, Inscribing
<1> QED
  BY <1>1, <1>2, <1>3, <1>4, <1>5, <1>6, <1>7, <1>8, <1>9
  DEF Next, InscribeStep, ConsolidateStep

(* Indexing replaces --------------------------------------------------------*)

\* A step that begins no indexing of s and leaves its edges alone.
LEMMA UncrossedElsewhere ==
  ASSUME NEW s \in Sources, IndexedOn(s), edges'[s] = edges[s],
         \A i \in Inscribers : IndexingOn(i, s)' => IndexingOn(i, s) /\ ins'[i] = ins[i]
  PROVE  IndexedOn(s)'
  BY DEF IndexedOn, OneText

\* Every step keeps what is known of the edges of sources no two indexings
\* have overlapped on.
LEMMA NextUncrossed == TypeOK /\ Uncrossed /\ [Next]_vars => Uncrossed'
<1> SUFFICES ASSUME TypeOK, Uncrossed, [Next]_vars PROVE Uncrossed'
  OBVIOUS
<1>1. ASSUME UNCHANGED <<edges, crossed>>,
             \A i \in Inscribers : ins'[i].pc # "indexing" \/ ins'[i] = ins[i]
      PROVE  Uncrossed'
  <2> SUFFICES ASSUME NEW s \in Sources, ~crossed[s] PROVE IndexedOn(s)'
    BY <1>1 DEF Uncrossed
  <2>1. \A i \in Inscribers : IndexingOn(i, s)' => IndexingOn(i, s) /\ ins'[i] = ins[i]
    BY <1>1 DEF IndexingOn
  <2> QED
    BY <1>1, <2>1, UncrossedElsewhere DEF Uncrossed
<1>2. ASSUME NEW i \in Inscribers, NEW s \in Sources, Fetch(i, s) \/ ReadRow(i, s)
      PROVE  Uncrossed'
  <2>1. PICK call, pc, rev : Begin(i, s, call, pc, rev) /\ pc # "indexing"
    BY <1>2 DEF Fetch, ReadRow
  <2> QED
    BY <1>1, <2>1 DEF Begin, TypeOK, stores, history
<1>3. ASSUME NEW i \in Inscribers,
             RecordEvent(i) \/ Remember(i) \/ IndexConflict(i) \/ FailWrite(i)
      PROVE  Uncrossed'
  <2>1. UNCHANGED <<edges, crossed>>
    BY <1>3 DEF RecordEvent, Remember, IndexConflict, FailWrite, stores, history
  <2>2. \A j \in Inscribers : ins'[j].pc # "indexing" \/ ins'[j] = ins[j]
    <3> USE IdleIsBoth DEF TypeOK
    <3>1. CASE RecordEvent(i)
      BY <3>1 DEF RecordEvent, GoTo
    <3>2. CASE Remember(i) \/ IndexConflict(i) \/ FailWrite(i)
      BY <3>2 DEF Remember, IndexConflict, FailWrite, End
    <3> QED
      BY <1>3, <3>1, <3>2
  <2> QED
    BY <1>1, <2>1, <2>2
<1>4. ASSUME NEW i \in Inscribers, IndexDelete(i) PROVE Uncrossed'
  <2>1. PICK src \in Sources : ins[i].src = src
    BY <1>4, CallFields DEF IndexDelete, TypeOK
  <2>2. /\ crossed' = [crossed EXCEPT ![src] = @ \/ Indexed(src)]
        /\ UNCHANGED edges
        /\ ins'[i].src = src /\ ins'[i].dead = edges[src]
        /\ \A j \in Inscribers \ {i} : ins'[j] = ins[j]
    BY <1>4, <2>1 DEF IndexDelete, TypeOK, stores
  <2> SUFFICES ASSUME NEW s \in Sources, ~crossed'[s] PROVE IndexedOn(s)'
    BY DEF Uncrossed
  <2>3. CASE s = src
    <3>1. ~crossed[s] /\ ~Indexed(s)
      BY <2>2, <2>3 DEF TypeOK
    <3>2. \A j \in Inscribers \ {i} : ~IndexingOn(j, s)'
      BY <2>2, <3>1 DEF Indexed, IndexingOn
    <3>3. OneText(s)'
      BY <2>2, <3>1 DEF Uncrossed, IndexedOn, OneText
    <3> QED
      BY <2>2, <2>3, <3>2, <3>3 DEF IndexedOn
  <2>4. CASE s # src
    <3>1. ~crossed[s]
      BY <2>2, <2>4 DEF TypeOK
    <3>2. \A j \in Inscribers : IndexingOn(j, s)' => IndexingOn(j, s) /\ ins'[j] = ins[j]
      BY <2>2, <2>4 DEF IndexingOn
    <3> QED
      BY <2>2, <3>1, <3>2, UncrossedElsewhere DEF Uncrossed
  <2> QED
    BY <2>3, <2>4
<1>5. ASSUME NEW i \in Inscribers, IndexCommit(i) PROVE Uncrossed'
  <2>1. PICK src \in Sources : ins[i].src = src /\ IndexingOn(i, src)
    BY <1>5, CallFields DEF IndexCommit, IndexingOn, TypeOK
  <2>2. /\ edges' = [edges EXCEPT ![src] =
               Left(i) \cup {[to |-> l, rev |-> ins[i].rev] : l \in NewTargets(i)}]
        /\ UNCHANGED crossed
    BY <1>5, <2>1 DEF IndexCommit, history
  <2>3. ins'[i].pc # "indexing" /\ \A j \in Inscribers \ {i} : ins'[j] = ins[j]
    BY <1>5, IdleIsBoth DEF IndexCommit, TypeOK
  <2> SUFFICES ASSUME NEW s \in Sources, ~crossed[s] PROVE IndexedOn(s)'
    BY <2>2 DEF Uncrossed
  <2>4. IndexedOn(s)
    BY DEF Uncrossed
  <2>5. CASE s = src
    <3>1. Left(i) = {}
      BY <2>1, <2>4, <2>5 DEF IndexedOn, Left
    <3>2. edges'[s] = Left(i) \cup {[to |-> l, rev |-> ins[i].rev] : l \in NewTargets(i)}
      BY <2>2, <2>5 DEF TypeOK
    <3>3. OneText(s)'
      BY <3>1, <3>2 DEF OneText
    <3>4. \A j \in Inscribers : ~IndexingOn(j, s)'
      BY <2>1, <2>3, <2>4, <2>5 DEF IndexedOn, IndexingOn
    <3> QED
      BY <3>3, <3>4 DEF IndexedOn
  <2>6. CASE s # src
    <3>1. edges'[s] = edges[s]
      BY <2>2, <2>6 DEF TypeOK
    <3>2. \A j \in Inscribers : IndexingOn(j, s)' => IndexingOn(j, s) /\ ins'[j] = ins[j]
      BY <2>3 DEF IndexingOn
    <3> QED
      BY <2>4, <3>1, <3>2, UncrossedElsewhere
  <2> QED
    BY <2>5, <2>6
<1>6. ASSUME NEW c \in Consolidators, ConsolidateStep(c) \/ FailRun(c) PROVE Uncrossed'
  BY <1>1, <1>6
  DEF ConsolidateStep, Sweep, StartRun, Distil, Skip, MarkConsolidated, FailRun, stores, history
<1>7. CASE UNCHANGED vars
  BY <1>1, <1>7 DEF vars, stores, history
<1> QED
  BY <1>2, <1>3, <1>4, <1>5, <1>6, <1>7 DEF Next, InscribeStep

(* The theorems ------------------------------------------------------------*)

\* The inductive invariant holds initially ...
LEMMA InitIInv == Init => IInv
<1> SUFFICES ASSUME Init PROVE IInv
  OBVIOUS
<1>1. TypeOK
  BY BoundsAssumption, IdleIsBoth DEF Init, TypeOK, Rev, NoText
<1>2. HasRow
  BY IdleIsBoth DEF Init, HasRow, PendingHasRow, FoundIsRecorded, WritersHaveRow, RunsHaveRow,
                    NoText
<1>3. \A s \in Sources : /\ ~Inscribed(s) /\ ~Indexed(s)
                         /\ \A c \in Consolidators : Batched(c) = {}
  BY IdleIsBoth DEF Init, Inscribed, Inscribing, Indexed, IndexingOn, Batched
<1>4. Settled
  BY <1>3 DEF Init, Settled, SettledOn, RunKnows
<1>5. Uncrossed
  BY <1>3 DEF Init, Uncrossed, IndexedOn, OneText, Indexed
<1> QED
  BY <1>1, <1>2, <1>4, <1>5 DEF IInv

\* ... is kept by every step ...
LEMMA NextIInv == IInv /\ [Next]_vars => IInv'
  BY NextTypes, NextHasRow, NextSettled, NextUncrossed DEF IInv, HasRow

\* ... and so always holds.
LEMMA Invariance == Spec => []IInv
  BY InitIInv, NextIInv, PTL DEF Spec

\* Every variable of Canon keeps its type, whatever interleaves or fails.
THEOREM TypeCorrect == Spec => []TypeOK
<1>1. IInv => TypeOK
  BY DEF IInv
<1> QED
  BY <1>1, Invariance, PTL

\* Whatever search finds has its record: with any number of webhook threads,
\* backfill jobs and workers, raced or not, and any of them failing anywhere.
THEOREM FoundHasRecord == Spec => []FoundIsRecorded
<1>1. IInv => FoundIsRecorded
  BY DEF IInv, HasRow
<1> QED
  BY <1>1, Invariance, PTL

\* A source that is not pending is found by the distillation of the text its
\* row holds (consolidate_scope), unless a run and an inscription have
\* overlapped on it: however many runs are on it at once, and however old the
\* listings are that inscriptions come from.
THEOREM ConsolidatedMeansDistilled == Spec => []ConsolidatedIsDistilled
<1>1. IInv => ConsolidatedIsDistilled
  BY DEF IInv, Settled, SettledOn, ConsolidatedIsDistilled
<1> QED
  BY <1>1, Invariance, PTL

\* The edges of a source are those of one indexing, unless two indexings of it
\* have overlapped (index_decision).
THEOREM IndexingReplaces == Spec => []EdgesOfOneText
<1>1. IInv => EdgesOfOneText
  BY DEF IInv, Uncrossed, IndexedOn, EdgesOfOneText
<1> QED
  BY <1>1, Invariance, PTL
=============================================================================
