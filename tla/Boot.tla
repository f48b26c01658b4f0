-------------------------------- MODULE Boot --------------------------------
(***************************************************************************)
(* What every process, API or worker, does before it serves (main.py,      *)
(* jobs/worker.py): apply the migrations (storage/db.py), then move the    *)
(* renamed decisions in the vector store (memory/semantic.py), which       *)
(* migration 0004 could not reach.                                         *)
(*                                                                         *)
(* Processes boot, serve, die and boot again independently of each other.  *)
(* A migration file is one transaction, and so is a rename in pgvector,    *)
(* but for what it has read; in Qdrant a rename is three requests.  Any    *)
(* request to the store may raise.                                         *)
(***************************************************************************)
EXTENDS Integers, FiniteSets

CONSTANTS
  Procs,      \* API and worker processes
  Renames,    \* the decisions that migration 0004 renames
  None,       \* none of them
  LastFile,   \* the migration files are 1..LastFile, in the order of their names
  Renaming,   \* the file that is migration 0004
  Batch,      \* apply_source_renames: at most so many at a start
  MaxStarts   \* bound: starts of a process

ASSUME FilesAssumption == LastFile \in Nat /\ Renaming \in 1..LastFile
ASSUME BoundsAssumption == Batch \in Nat \ {0} /\ MaxStarts \in Nat
ASSUME NoneAssumption == None \notin Renames

VARIABLES
  backend,    \* settings.vector_store; never changes
  applied,    \* schema_migrations
  ran,        \* history: how often a file took effect
  row,        \* source_renames: is a rename's row there, and stamped
  old,        \* renames with a point under the old id
  new,        \* what is stored under the new id
  pc,         \* where a process is
  missing,    \* run_migrations: files it has still to apply
  todo,       \* apply_source_renames: the rows it has still to move
  cur,        \* the one it is moving
  sawNew,     \* whether it found a point under the new id
  starts,     \* how often a process started (counts against MaxStarts)
  abandoned   \* history: renames stamped by a process that died or broke off

migrations == <<applied, ran>>
store == <<old, new>>
loop == <<todo, cur, sawNew>>
vars == <<backend, migrations, row, store, pc, missing, loop, starts, abandoned>>

Files == 1..LastFile

\* Inside the loop over the stamped rows.
Moving == {"opening", "moving", "looked", "copied", "unstamping"}

TypeOK ==
  /\ backend \in {"qdrant", "pgvector"}
  /\ applied \subseteq Files
  /\ ran \in [Files -> Nat]
  /\ row \in [Renames -> {"none", "pending", "stamped"}]
  /\ old \subseteq Renames
  /\ new \in [Renames -> {"none", "moved", "fresh"}]
  /\ pc \in [Procs -> {"down", "migrating", "stamping", "serving"} \cup Moving]
  /\ missing \in [Procs -> SUBSET Files]
  /\ todo \in [Procs -> SUBSET Renames]
  /\ cur \in [Procs -> Renames \cup {None}]
  /\ sawNew \in [Procs -> BOOLEAN]
  /\ starts \in [Procs -> 0..MaxStarts]
  /\ abandoned \subseteq Renames

\* A database before migration 0004 (and perhaps before others); not every
\* decision has a point, since mock mode stores none.
Init ==
  /\ backend \in {"qdrant", "pgvector"}
  /\ applied \in {1..n : n \in 0..(Renaming - 1)}
  /\ ran = [f \in Files |-> IF f \in applied THEN 1 ELSE 0]
  /\ row = [r \in Renames |-> "none"]
  /\ old \in SUBSET Renames
  /\ new = [r \in Renames |-> "none"]
  /\ pc = [p \in Procs |-> "down"]
  /\ missing = [p \in Procs |-> {}]
  /\ todo = [p \in Procs |-> {}]
  /\ cur = [p \in Procs |-> None]
  /\ sawNew = [p \in Procs |-> FALSE]
  /\ starts = [p \in Procs |-> 0]
  /\ abandoned = {}

-----------------------------------------------------------------------------
(* run_migrations                                                          *)

\* A process starts, and reads which files are recorded.
Start(p) ==
  /\ pc[p] = "down"
  /\ starts[p] < MaxStarts
  /\ starts' = [starts EXCEPT ![p] = @ + 1]
  /\ missing' = [missing EXCEPT ![p] = Files \ applied]
  /\ pc' = [pc EXCEPT ![p] = "migrating"]
  /\ UNCHANGED <<backend, migrations, row, store, loop, abandoned>>

\* The file it applies now.
IsNext(p, f) == f \in missing[p] /\ \A g \in missing[p] : f <= g

\* schema_migrations with the file's name.
Recorded(f) == applied \cup {f}

\* Mutant of Conflict: the insert ignores a name that is there.
ConflictIgnored(f) == FALSE

\* The file's name is already there: the insert raises, and the file's
\* statements are rolled back with it.
Conflict(f) == f \in applied

\* One file is applied and recorded in one transaction.
Migrate(p, f) ==
  /\ pc[p] = "migrating"
  /\ IsNext(p, f)
  /\ ~Conflict(f)
  /\ applied' = Recorded(f)
  /\ ran' = [ran EXCEPT ![f] = @ + 1]
  /\ row' = IF f = Renaming THEN [r \in Renames |-> "pending"] ELSE row
  /\ missing' = [missing EXCEPT ![p] = @ \ {f}]
  /\ UNCHANGED <<backend, store, pc, loop, starts, abandoned>>

\* Another process was faster: the exception ends this one.
MigrateRaises(p, f) ==
  /\ pc[p] = "migrating"
  /\ IsNext(p, f)
  /\ Conflict(f)
  /\ pc' = [pc EXCEPT ![p] = "down"]
  /\ UNCHANGED <<backend, migrations, row, store, missing, loop, starts, abandoned>>

-----------------------------------------------------------------------------
(* apply_source_renames                                                    *)

\* Mutant of Claimable: rows another process is stamping are not skipped.
ClaimableLocked(r) == row[r] = "pending"

\* Pending, and no open transaction holds its lock: `for update skip locked`.
Claimable(r) ==
  /\ row[r] = "pending"
  /\ \A q \in Procs : pc[q] = "stamping" => r \notin todo[q]

\* The update finds its rows, as many as the limit allows.  When there are
\* none the process serves without opening the store.
SelectRenames(p, rows) ==
  /\ pc[p] = "migrating"
  /\ missing[p] = {}
  /\ \A r \in rows : Claimable(r)
  /\ \/ Cardinality(rows) = Batch
     \/ Cardinality(rows) < Batch /\ \A r \in Renames : Claimable(r) => r \in rows
  /\ todo' = [todo EXCEPT ![p] = rows]
  /\ pc' = [pc EXCEPT ![p] = IF rows = {} THEN "serving" ELSE "stamping"]
  /\ UNCHANGED <<backend, migrations, row, store, missing, cur, sawNew, starts, abandoned>>

\* The stamps are committed, before the store is touched.
CommitStamps(p) ==
  /\ pc[p] = "stamping"
  /\ row' = [r \in Renames |-> IF r \in todo[p] THEN "stamped" ELSE row[r]]
  /\ pc' = [pc EXCEPT ![p] = "opening"]
  /\ UNCHANGED <<backend, migrations, store, missing, loop, starts, abandoned>>

\* The database raises while the rows are looked for or stamped: rolled back,
\* logged, and the process serves.
ClaimRaises(p) ==
  /\ pc[p] \in {"stamping", "migrating"}
  /\ missing[p] = {}
  /\ todo' = [todo EXCEPT ![p] = {}]
  /\ pc' = [pc EXCEPT ![p] = "serving"]
  /\ UNCHANGED <<backend, migrations, row, store, missing, cur, sawNew, starts, abandoned>>

\* get_store connects, and creates the collection or table.
OpenStore(p) ==
  /\ pc[p] = "opening"
  /\ pc' = [pc EXCEPT ![p] = "moving"]
  /\ UNCHANGED <<backend, migrations, row, store, missing, loop, starts, abandoned>>

\* An exception outside the loop's try ends apply_source_renames: the rows
\* left stay stamped, it is logged, and the process serves.
BreakOff(p) ==
  /\ abandoned' = abandoned \cup todo[p]
  /\ todo' = [todo EXCEPT ![p] = {}]
  /\ pc' = [pc EXCEPT ![p] = "serving"]
  /\ UNCHANGED <<backend, migrations, row, store, missing, cur, sawNew, starts>>

OpenRaises(p) == pc[p] = "opening" /\ BreakOff(p)

\* Mutant of NewThere: the test is inverted.
NewThereInverted(r) == new[r] = "none"

\* Is there a point under the new id: "re-ingested since the upgrade".
NewThere(r) == new[r] # "none"

\* The row's rename is over, with or without a point moved.
NextRow(p) ==
  /\ todo' = [todo EXCEPT ![p] = @ \ {cur'[p]}]
  /\ pc' = [pc EXCEPT ![p] = "moving"]

\* rename begins: it looks for the points (Qdrant for both, pgvector for the
\* new one).  Qdrant is done when the old one is not there.
Look(p, r) ==
  /\ pc[p] = "moving"
  /\ r \in todo[p]
  /\ cur' = [cur EXCEPT ![p] = r]
  /\ sawNew' = [sawNew EXCEPT ![p] = NewThere(r)]
  /\ IF backend = "qdrant" /\ r \notin old
     THEN NextRow(p)
     ELSE pc' = [pc EXCEPT ![p] = "looked"] /\ UNCHANGED todo
  /\ UNCHANGED <<backend, migrations, row, store, missing, starts, abandoned>>

\* Qdrant: the old point, as it was read, is written under the new id, unless
\* there was one.
Copy(p) ==
  /\ pc[p] = "looked"
  /\ backend = "qdrant"
  /\ new' = IF sawNew[p] THEN new ELSE [new EXCEPT ![cur[p]] = "moved"]
  /\ pc' = [pc EXCEPT ![p] = "copied"]
  /\ UNCHANGED <<backend, migrations, row, old, missing, loop, starts, abandoned>>

\* Qdrant: the old point is deleted.
DeleteOld(p) ==
  /\ pc[p] = "copied"
  /\ old' = old \ {cur[p]}
  /\ UNCHANGED <<cur, sawNew>>
  /\ NextRow(p)
  /\ UNCHANGED <<backend, migrations, row, new, missing, starts, abandoned>>

\* Mutant of Collides: the update takes the new id over.
CollidesNever(p) == FALSE

\* pgvector: the old row cannot take the new id when a row has got it since.
Collides(p) == ~sawNew[p] /\ cur[p] \in old /\ new[cur[p]] # "none"

\* pgvector: the old row is deleted, or becomes the new one.
MoveRow(p) ==
  /\ pc[p] = "looked"
  /\ backend = "pgvector"
  /\ ~Collides(p)
  /\ old' = old \ {cur[p]}
  /\ new' = IF ~sawNew[p] /\ cur[p] \in old THEN [new EXCEPT ![cur[p]] = "moved"] ELSE new
  /\ UNCHANGED <<cur, sawNew>>
  /\ NextRow(p)
  /\ UNCHANGED <<backend, migrations, row, missing, starts, abandoned>>

\* Any request of rename raises, the colliding update always.
RenameRaises(p, r) ==
  /\ \/ pc[p] = "moving" /\ r \in todo[p]
     \/ pc[p] \in {"looked", "copied"} /\ r = cur[p]
  /\ cur' = [cur EXCEPT ![p] = r]
  /\ pc' = [pc EXCEPT ![p] = "unstamping"]
  /\ UNCHANGED <<backend, migrations, row, store, missing, todo, sawNew, starts, abandoned>>

\* Mutant of Unstamp: the failure is only logged.
UnstampNot(p) ==
  /\ pc[p] = "unstamping"
  /\ UNCHANGED <<row, cur, sawNew>>
  /\ NextRow(p)
  /\ UNCHANGED <<backend, migrations, store, missing, starts, abandoned>>

\* The failed rename is made pending again.
Unstamp(p) ==
  /\ pc[p] = "unstamping"
  /\ row' = [row EXCEPT ![cur[p]] = "pending"]
  /\ UNCHANGED <<cur, sawNew>>
  /\ NextRow(p)
  /\ UNCHANGED <<backend, migrations, store, missing, starts, abandoned>>

UnstampRaises(p) == pc[p] = "unstamping" /\ BreakOff(p)

LoopEnds(p) ==
  /\ pc[p] = "moving"
  /\ todo[p] = {}
  /\ pc' = [pc EXCEPT ![p] = "serving"]
  /\ UNCHANGED <<backend, migrations, row, store, missing, loop, starts, abandoned>>

-----------------------------------------------------------------------------

\* A process that serves writes a decision's text, under its new name: an
\* ingestion in the API, a consolidation in the worker.
Remember(p, r) ==
  /\ pc[p] = "serving"
  /\ new' = [new EXCEPT ![r] = "fresh"]
  /\ UNCHANGED <<backend, migrations, row, old, pc, missing, loop, starts, abandoned>>

\* A process dies or is stopped.
Stop(p) ==
  /\ pc[p] # "down"
  /\ pc' = [pc EXCEPT ![p] = "down"]
  /\ todo' = [todo EXCEPT ![p] = {}]
  /\ abandoned' = IF pc[p] \in Moving THEN abandoned \cup todo[p] ELSE abandoned
  /\ UNCHANGED <<backend, migrations, row, store, missing, cur, sawNew, starts>>

Rename(p) ==
  \/ \E rows \in SUBSET Renames : SelectRenames(p, rows)
  \/ CommitStamps(p) \/ ClaimRaises(p)
  \/ OpenStore(p) \/ OpenRaises(p)
  \/ \E r \in Renames : Look(p, r) \/ RenameRaises(p, r)
  \/ Copy(p) \/ DeleteOld(p) \/ MoveRow(p)
  \/ Unstamp(p) \/ UnstampRaises(p)
  \/ LoopEnds(p)

Next ==
  \E p \in Procs :
    \/ Start(p)
    \/ \E f \in Files : Migrate(p, f) \/ MigrateRaises(p, f)
    \/ Rename(p)
    \/ \E r \in Renames : Remember(p, r)
    \/ Stop(p)

Spec == Init /\ [][Next]_vars

-----------------------------------------------------------------------------
(* Properties                                                              *)

\* "Safe to call on every boot": however many processes boot at once, each
\* migration takes effect once and in order, and who serves finds them all.
MigratedOnce ==
  /\ \A f \in Files : ran[f] = IF f \in applied THEN 1 ELSE 0
  /\ \A f \in applied, g \in Files : g < f => g \in applied
  /\ \A p \in Procs : pc[p] \in {"serving", "stamping"} \cup Moving => applied = Files

\* "So two processes starting together do not move the same point twice": no
\* rename is in the hands of two processes, and those in hand are stamped.
OneMover ==
  \A p \in Procs, r \in Renames :
    pc[p] \in Moving /\ r \in todo[p] =>
      row[r] = "stamped" /\ \A q \in Procs \ {p} : r \notin todo[q]

\* A decision that can be found, under its old or its new name, can be found
\* ever after: at no moment of a rename, wherever it breaks off, is there none.
NeverUnfindable ==
  [][\A r \in Renames : r \in old \/ new[r] # "none"
                          => r \in old' \/ new'[r] # "none"]_vars

\* A rename that is stamped and in nobody's hands has left nothing under the
\* old name, unless a process died over it or broke off: a failure of a single
\* rename loses none.
StampedIsMoved ==
  \A r \in old :
    row[r] = "stamped" => r \in abandoned \/ \E p \in Procs : r \in todo[p]

\* "Re-ingested since the upgrade: the new point is fresher": a text written
\* under the new name is never replaced by the old one in pgvector, and in
\* Qdrant only by a rename that looked before it was written.
FreshStays ==
  [][\A r \in Renames :
       new[r] = "fresh" /\ new'[r] # "fresh" =>
         /\ backend = "qdrant"
         /\ \E p \in Procs : pc[p] = "looked" /\ cur[p] = r /\ ~sawNew[p]]_vars
=============================================================================
