----------------------------- MODULE BootProofs -----------------------------
(***************************************************************************)
(* Theorems about Boot for any processes, migrations and renames.  The     *)
(* renames a process has in hand are nobody else's (Apart), and what it    *)
(* knows of them (Hand) stays true while it moves them.                    *)
(***************************************************************************)
EXTENDS Boot, TLAPS

\* What holds for the renames a process has in hand, and for the one it moves.
Hand(p) ==
  /\ pc[p] \in {"down", "migrating", "serving"} => todo[p] = {}
  /\ pc[p] = "stamping" => \A r \in todo[p] : row[r] = "pending"
  /\ pc[p] \in Moving => \A r \in todo[p] : row[r] = "stamped"
  /\ pc[p] \in {"looked", "copied", "unstamping"} => cur[p] \in todo[p]
  /\ pc[p] = "looked" /\ sawNew[p] => new[cur[p]] # "none"
  /\ pc[p] = "copied" => new[cur[p]] # "none"

Hands == \A p \in Procs : Hand(p)

\* Nobody else has them in hand.
Apart == \A p, q \in Procs : p # q => todo[p] \cap todo[q] = {}

\* A process that migrates has still to apply what is not applied.
Missing == \A p \in Procs : pc[p] = "migrating" => Files \ applied \subseteq missing[p]

IInv ==
  /\ TypeOK
  /\ Missing
  /\ MigratedOnce
  /\ Hands
  /\ Apart
  /\ StampedIsMoved

-----------------------------------------------------------------------------
(* Types                                                                   *)

LEMMA InitTypeOK == Init => TypeOK
BY FilesAssumption, BoundsAssumption DEF Init, TypeOK, Files, Moving

\* The two ways a row's rename ends or breaks off keep the types.
LEMMA NextRowTypeOK ==
  ASSUME TypeOK, NEW p \in Procs, NextRow(p)
  PROVE  /\ todo' \in [Procs -> SUBSET Renames]
         /\ pc' \in [Procs -> {"down", "migrating", "stamping", "serving"} \cup Moving]
BY DEF TypeOK, NextRow, Moving

LEMMA NextTypeOK == TypeOK /\ [Next]_vars => TypeOK'
<1> SUFFICES ASSUME TypeOK, [Next]_vars PROVE TypeOK'
  OBVIOUS
<1> USE DEF TypeOK, Moving, migrations, store, loop
<1>1. ASSUME NEW p \in Procs, Start(p) PROVE TypeOK'
  BY <1>1, BoundsAssumption DEF Start
<1>2. ASSUME NEW p \in Procs, NEW f \in Files, Migrate(p, f) PROVE TypeOK'
  BY <1>2 DEF Migrate, Recorded
<1>3. ASSUME NEW p \in Procs, NEW f \in Files, MigrateRaises(p, f) PROVE TypeOK'
  BY <1>3 DEF MigrateRaises
<1>4. ASSUME NEW p \in Procs, NEW rows \in SUBSET Renames, SelectRenames(p, rows)
      PROVE  TypeOK'
  BY <1>4 DEF SelectRenames
<1>5. ASSUME NEW p \in Procs, CommitStamps(p) PROVE TypeOK'
  BY <1>5 DEF CommitStamps
<1>6. ASSUME NEW p \in Procs, ClaimRaises(p) PROVE TypeOK'
  BY <1>6 DEF ClaimRaises
<1>7. ASSUME NEW p \in Procs, OpenStore(p) PROVE TypeOK'
  BY <1>7 DEF OpenStore
<1>8. ASSUME NEW p \in Procs, BreakOff(p) PROVE TypeOK'
  BY <1>8 DEF BreakOff
<1>9. ASSUME NEW p \in Procs, NEW r \in Renames, Look(p, r) PROVE TypeOK'
  <2>1. CASE backend = "qdrant" /\ r \notin old
    BY <1>9, <2>1, NextRowTypeOK DEF Look, NewThere
  <2>2. CASE ~(backend = "qdrant" /\ r \notin old)
    BY <1>9, <2>2 DEF Look, NewThere
  <2> QED BY <2>1, <2>2
<1>10. ASSUME NEW p \in Procs, Copy(p) PROVE TypeOK'
  BY <1>10 DEF Copy
<1>11. ASSUME NEW p \in Procs, DeleteOld(p) PROVE TypeOK'
  BY <1>11, NextRowTypeOK DEF DeleteOld
<1>12. ASSUME NEW p \in Procs, MoveRow(p) PROVE TypeOK'
  BY <1>12, NextRowTypeOK DEF MoveRow
<1>13. ASSUME NEW p \in Procs, NEW r \in Renames, RenameRaises(p, r) PROVE TypeOK'
  BY <1>13 DEF RenameRaises
<1>14. ASSUME NEW p \in Procs, Unstamp(p) PROVE TypeOK'
  BY <1>14, NextRowTypeOK DEF Unstamp
<1>15. ASSUME NEW p \in Procs, LoopEnds(p) PROVE TypeOK'
  BY <1>15 DEF LoopEnds
<1>16. ASSUME NEW p \in Procs, NEW r \in Renames, Remember(p, r) PROVE TypeOK'
  BY <1>16 DEF Remember
<1>17. ASSUME NEW p \in Procs, Stop(p) PROVE TypeOK'
  BY <1>17 DEF Stop
<1>18. CASE UNCHANGED vars
  BY <1>18 DEF vars
<1> QED
  BY <1>1, <1>2, <1>3, <1>4, <1>5, <1>6, <1>7, <1>8, <1>9, <1>10, <1>11, <1>12, <1>13,
     <1>14, <1>15, <1>16, <1>17, <1>18
  DEF Next, Rename, OpenRaises, UnstampRaises

-----------------------------------------------------------------------------
(* A step of one process                                                   *)

Late == {"serving", "stamping"} \cup Moving

\* What every step of process p after the migrations has in common: the other
\* processes are where they were, their renames keep their rows, points under
\* new ids do not vanish, and p gives no stamped rename away unmoved.
Elsewhere(p) ==
  /\ \A q \in Procs : q # p => /\ pc'[q] = pc[q] /\ todo'[q] = todo[q]
                                /\ cur'[q] = cur[q] /\ sawNew'[q] = sawNew[q]
                                /\ missing'[q] = missing[q]
  /\ applied' = applied /\ ran' = ran
  /\ pc'[p] = "migrating" => Files \ applied \subseteq missing'[p]
  /\ pc'[p] \in Late => applied = Files
  /\ \A r \in Renames : r \notin todo[p] => row'[r] = row[r]
  /\ \A r \in Renames : new[r] # "none" => new'[r] # "none"
  /\ \A q \in Procs : q # p => todo'[p] \cap todo[q] = {}
  /\ old' \subseteq old
  /\ abandoned \subseteq abandoned'
  /\ \A r \in old' : r \in todo[p] /\ row'[r] = "stamped"
                       => r \in todo'[p] \/ r \in abandoned'

LEMMA StepKeeps ==
  ASSUME IInv, NEW p \in Procs, Elsewhere(p), Hand(p)'
  PROVE  Missing' /\ MigratedOnce' /\ Hands' /\ Apart' /\ StampedIsMoved'
<1> USE DEF IInv, Elsewhere
<1>1. Missing'
  BY DEF Missing
<1>2. MigratedOnce'
  BY DEF MigratedOnce, Late, Moving
<1>3. ASSUME NEW q \in Procs, q # p PROVE Hand(q)'
  <2>1. \A r \in todo[q] : r \in Renames /\ row'[r] = row[r]
    BY <1>3 DEF Apart, TypeOK
  <2>2. Hand(q)
    BY DEF Hands
  <2>3. pc[q] \in {"looked", "copied"} => cur[q] \in Renames
    BY <2>1, <2>2 DEF Hand
  <2> QED BY <1>3, <2>1, <2>2, <2>3 DEF Hand
<1>4. Apart'
  BY DEF Apart
<1>5. ASSUME NEW r \in old', row'[r] = "stamped"
      PROVE  r \in abandoned' \/ \E q \in Procs : r \in todo'[q]
  <2>1. CASE r \in todo[p]
    BY <1>5, <2>1
  <2>2. CASE r \notin todo[p]
    <3>1. r \in old /\ row[r] = "stamped"
      BY <1>5, <2>2 DEF TypeOK
    <3>2. r \in abandoned \/ \E q \in Procs : q # p /\ r \in todo[q]
      BY <2>2, <3>1 DEF StampedIsMoved
    <3> QED BY <3>2
  <2> QED BY <2>1, <2>2
<1> QED
  BY <1>1, <1>2, <1>3, <1>4, <1>5 DEF Hands, StampedIsMoved

LEMMA NextIInv == IInv /\ [Next]_vars => IInv'
<1> SUFFICES ASSUME IInv, [Next]_vars
             PROVE  Missing' /\ MigratedOnce' /\ Hands' /\ Apart' /\ StampedIsMoved'
  BY NextTypeOK DEF IInv
<1>0. /\ TypeOK /\ Missing /\ MigratedOnce /\ Hands /\ Apart /\ StampedIsMoved
      /\ \A p \in Procs : Hand(p)
  BY DEF IInv, Hands
<1> USE DEF migrations, store, loop
<1>1. ASSUME NEW p \in Procs, Start(p) PROVE Elsewhere(p) /\ Hand(p)'
  <2>1. /\ pc'[p] = "migrating" /\ missing'[p] = Files \ applied /\ todo[p] = {}
        /\ UNCHANGED <<applied, ran, row, old, new, todo, cur, sawNew, abandoned>>
        /\ \A q \in Procs : q # p => pc'[q] = pc[q] /\ missing'[q] = missing[q]
    BY <1>0, <1>1 DEF Start, TypeOK, Hand
  <2> QED BY <2>1 DEF Elsewhere, Hand, Late, Moving
<1>2. ASSUME NEW p \in Procs, NEW f \in Files, Migrate(p, f)
      PROVE  Missing' /\ MigratedOnce' /\ Hands' /\ Apart' /\ StampedIsMoved'
  <2>1. /\ pc[p] = "migrating" /\ f \notin applied /\ applied' = applied \cup {f}
        /\ f \in missing[p] /\ \A g \in missing[p] : f <= g
        /\ missing' = [missing EXCEPT ![p] = @ \ {f}]
        /\ ran' = [ran EXCEPT ![f] = @ + 1]
        /\ UNCHANGED <<old, new, pc, todo, cur, sawNew, abandoned>>
        /\ row' = IF f = Renaming THEN [r \in Renames |-> "pending"] ELSE row
    BY <1>2 DEF Migrate, IsNext, Conflict, Recorded
  <2>2. \A q \in Procs : pc[q] \notin Late
    BY <1>0, <2>1 DEF MigratedOnce, Late
  <2>3. \A q \in Procs : todo[q] = {}
    BY <1>0, <2>2 DEF Hand, Late, TypeOK
  <2>4. Hands' /\ Apart'
    BY <2>1, <2>2, <2>3 DEF Hands, Apart, Hand, Late, Moving
  <2>5. Missing'
    BY <1>0, <2>1 DEF Missing, TypeOK
  <2>6. MigratedOnce'
    <3>1. \A g \in Files : ran'[g] = IF g \in applied' THEN 1 ELSE 0
      BY <1>0, <2>1 DEF MigratedOnce, TypeOK
    <3>2. \A g \in Files : g < f => g \in applied
      <4>1. Files \ applied \subseteq missing[p]
        BY <1>0, <2>1 DEF Missing
      <4> QED BY <2>1, <4>1 DEF Files
    <3>3. \A g \in applied', h \in Files : h < g => h \in applied'
      BY <1>0, <2>1, <3>2 DEF MigratedOnce
    <3> QED BY <2>1, <2>2, <3>1, <3>3 DEF MigratedOnce, Late
  <2>7. StampedIsMoved'
    <3>1. ASSUME NEW r \in old, row'[r] = "stamped" PROVE row[r] = "stamped"
      BY <1>0, <2>1, <3>1 DEF TypeOK
    <3> QED BY <1>0, <2>1, <3>1 DEF StampedIsMoved
  <2> QED BY <2>4, <2>5, <2>6, <2>7
<1>3. ASSUME NEW p \in Procs, NEW f \in Files, MigrateRaises(p, f)
      PROVE  Elsewhere(p) /\ Hand(p)'
  <2>1. /\ pc'[p] = "down" /\ todo[p] = {}
        /\ UNCHANGED <<applied, ran, row, old, new, missing, todo, cur, sawNew, abandoned>>
        /\ \A q \in Procs : q # p => pc'[q] = pc[q]
    BY <1>0, <1>3 DEF MigrateRaises, TypeOK, Hand
  <2> QED BY <2>1 DEF Elsewhere, Hand, Late, Moving
<1>4. ASSUME NEW p \in Procs, NEW rows \in SUBSET Renames, SelectRenames(p, rows)
      PROVE  Elsewhere(p) /\ Hand(p)'
  <2>1. /\ pc[p] = "migrating" /\ missing[p] = {} /\ todo[p] = {}
        /\ pc'[p] = IF rows = {} THEN "serving" ELSE "stamping"
        /\ todo'[p] = rows
        /\ UNCHANGED <<applied, ran, row, old, new, missing, cur, sawNew, abandoned>>
        /\ \A q \in Procs : q # p => pc'[q] = pc[q] /\ todo'[q] = todo[q]
    BY <1>0, <1>4 DEF SelectRenames, TypeOK, Hand
  <2>2. \A r \in rows : row[r] = "pending"
    BY <1>4 DEF SelectRenames, Claimable
  <2>3. ASSUME NEW q \in Procs, q # p PROVE rows \cap todo[q] = {}
    <3>1. CASE pc[q] = "stamping"
      BY <1>4, <3>1 DEF SelectRenames, Claimable
    <3>2. CASE pc[q] # "stamping"
      BY <1>0, <2>2, <3>2 DEF Hand, TypeOK
    <3> QED BY <3>1, <3>2
  <2>4. applied = Files
    BY <1>0, <2>1 DEF Missing, TypeOK
  <2>5. Elsewhere(p)
    BY <2>1, <2>3, <2>4 DEF Elsewhere
  <2> QED BY <2>1, <2>2, <2>5 DEF Hand, Moving
<1>5. ASSUME NEW p \in Procs, CommitStamps(p) PROVE Elsewhere(p) /\ Hand(p)'
  <2>1. /\ pc[p] = "stamping" /\ pc'[p] = "opening" /\ applied = Files
        /\ UNCHANGED <<applied, ran, old, new, missing, todo, cur, sawNew, abandoned>>
        /\ \A q \in Procs : q # p => pc'[q] = pc[q]
        /\ row' = [r \in Renames |-> IF r \in todo[p] THEN "stamped" ELSE row[r]]
        /\ todo[p] \subseteq Renames
    BY <1>0, <1>5 DEF CommitStamps, TypeOK, MigratedOnce
  <2>2. \A q \in Procs : q # p => todo'[p] \cap todo[q] = {}
    BY <1>0, <2>1 DEF Apart
  <2> QED BY <2>1, <2>2 DEF Elsewhere, Hand, Moving
<1>6. ASSUME NEW p \in Procs, ClaimRaises(p) PROVE Elsewhere(p) /\ Hand(p)'
  <2>1. /\ pc[p] \in {"stamping", "migrating"} /\ missing[p] = {}
        /\ pc'[p] = "serving" /\ todo'[p] = {}
        /\ UNCHANGED <<applied, ran, row, old, new, missing, cur, sawNew, abandoned>>
        /\ \A q \in Procs : q # p => pc'[q] = pc[q] /\ todo'[q] = todo[q]
    BY <1>0, <1>6 DEF ClaimRaises, TypeOK
  <2>2. applied = Files
    BY <1>0, <2>1 DEF Missing, MigratedOnce, TypeOK
  <2>3. \A r \in todo[p] : row[r] = "pending"
    BY <1>0, <2>1 DEF Hand
  <2> QED BY <2>1, <2>2, <2>3 DEF Elsewhere, Hand, Moving
<1>7. ASSUME NEW p \in Procs, OpenStore(p) PROVE Elsewhere(p) /\ Hand(p)'
  <2>1. /\ pc[p] = "opening" /\ pc'[p] = "moving" /\ applied = Files
        /\ UNCHANGED <<applied, ran, row, old, new, missing, todo, cur, sawNew, abandoned>>
        /\ \A q \in Procs : q # p => pc'[q] = pc[q]
    BY <1>0, <1>7 DEF OpenStore, TypeOK, MigratedOnce, Moving
  <2>2. \A q \in Procs : q # p => todo'[p] \cap todo[q] = {}
    BY <1>0, <2>1 DEF Apart
  <2> QED BY <1>0, <2>1, <2>2 DEF Elsewhere, Hand, Moving
<1>8. ASSUME NEW p \in Procs, BreakOff(p), pc[p] \in {"opening", "unstamping"}
      PROVE  Elsewhere(p) /\ Hand(p)'
  <2>1. /\ pc'[p] = "serving" /\ applied = Files
        /\ todo'[p] = {} /\ abandoned' = abandoned \cup todo[p]
        /\ UNCHANGED <<applied, ran, row, old, new, missing, cur, sawNew>>
        /\ \A q \in Procs : q # p => pc'[q] = pc[q] /\ todo'[q] = todo[q]
    BY <1>0, <1>8 DEF BreakOff, TypeOK, MigratedOnce, Moving
  <2> QED BY <2>1 DEF Elsewhere, Hand, Moving
<1>9. ASSUME NEW p \in Procs, NEW r \in Renames, Look(p, r) PROVE Elsewhere(p) /\ Hand(p)'
  <2>1. /\ pc[p] = "moving" /\ r \in todo[p] /\ applied = Files
        /\ cur'[p] = r /\ (sawNew'[p] <=> new[r] # "none")
        /\ UNCHANGED <<applied, ran, row, old, new, missing, abandoned>>
        /\ \A q \in Procs : q # p => /\ pc'[q] = pc[q] /\ todo'[q] = todo[q]
                                     /\ cur'[q] = cur[q] /\ sawNew'[q] = sawNew[q]
    BY <1>0, <1>9 DEF Look, NewThere, NextRow, TypeOK, MigratedOnce, Moving
  <2>2. \A s \in todo[p] : row[s] = "stamped"
    BY <1>0, <2>1 DEF Hand, Moving
  <2>3. \/ pc'[p] = "moving" /\ todo'[p] = todo[p] \ {r} /\ r \notin old
        \/ pc'[p] = "looked" /\ todo'[p] = todo[p]
    BY <1>0, <1>9, <2>1 DEF Look, NextRow, TypeOK
  <2>4. \A q \in Procs : q # p => todo'[p] \cap todo[q] = {}
    BY <1>0, <2>3 DEF Apart
  <2>5. Elsewhere(p)
    BY <2>1, <2>3, <2>4 DEF Elsewhere
  <2> QED BY <2>1, <2>2, <2>3, <2>5 DEF Hand
<1>10. ASSUME NEW p \in Procs, Copy(p) PROVE Elsewhere(p) /\ Hand(p)'
  <2>1. /\ pc[p] = "looked" /\ pc'[p] = "copied" /\ applied = Files
        /\ UNCHANGED <<applied, ran, row, old, missing, todo, cur, sawNew, abandoned>>
        /\ \A q \in Procs : q # p => pc'[q] = pc[q]
        /\ new' = IF sawNew[p] THEN new ELSE [new EXCEPT ![cur[p]] = "moved"]
    BY <1>0, <1>10 DEF Copy, TypeOK, MigratedOnce, Moving
  <2>2. cur[p] \in todo[p] /\ cur[p] \in Renames /\ (sawNew[p] => new[cur[p]] # "none")
    BY <1>0, <2>1 DEF Hand, TypeOK
  <2>3. \A s \in todo[p] : row[s] = "stamped"
    BY <1>0, <2>1 DEF Hand, Moving
  <2>4. new'[cur[p]] # "none" /\ \A r \in Renames : new[r] # "none" => new'[r] # "none"
    BY <1>0, <2>1, <2>2 DEF TypeOK
  <2>5. \A q \in Procs : q # p => todo'[p] \cap todo[q] = {}
    BY <1>0, <2>1 DEF Apart
  <2>6. Elsewhere(p)
    BY <2>1, <2>4, <2>5 DEF Elsewhere
  <2> QED BY <2>1, <2>2, <2>3, <2>4, <2>6 DEF Hand
<1>11. ASSUME NEW p \in Procs, DeleteOld(p) \/ MoveRow(p) PROVE Elsewhere(p) /\ Hand(p)'
  <2>1. /\ pc[p] \in {"copied", "looked"} /\ pc'[p] = "moving" /\ applied = Files
        /\ todo'[p] = todo[p] \ {cur[p]} /\ old' = old \ {cur[p]}
        /\ UNCHANGED <<applied, ran, row, missing, cur, sawNew, abandoned>>
        /\ \A q \in Procs : q # p => pc'[q] = pc[q] /\ todo'[q] = todo[q]
    BY <1>0, <1>11 DEF DeleteOld, MoveRow, NextRow, TypeOK, MigratedOnce, Moving
  <2>2. \A r \in Renames : new[r] # "none" => new'[r] # "none"
    BY <1>0, <1>11 DEF DeleteOld, MoveRow, TypeOK
  <2>3. \A s \in todo[p] : row[s] = "stamped"
    BY <1>0, <2>1 DEF Hand, Moving
  <2>4. \A q \in Procs : q # p => todo'[p] \cap todo[q] = {}
    BY <1>0, <2>1 DEF Apart
  <2>5. Elsewhere(p)
    BY <2>1, <2>2, <2>4 DEF Elsewhere
  <2> QED BY <2>1, <2>3, <2>5 DEF Hand
<1>12. ASSUME NEW p \in Procs, NEW r \in Renames, RenameRaises(p, r)
       PROVE  Elsewhere(p) /\ Hand(p)'
  <2>1. /\ pc[p] \in {"moving", "looked", "copied"} /\ pc'[p] = "unstamping"
        /\ applied = Files /\ cur'[p] = r
        /\ UNCHANGED <<applied, ran, row, old, new, missing, todo, sawNew, abandoned>>
        /\ \A q \in Procs : q # p => pc'[q] = pc[q] /\ cur'[q] = cur[q]
    BY <1>0, <1>12 DEF RenameRaises, TypeOK, MigratedOnce, Moving
  <2>2. r \in todo[p] /\ \A s \in todo[p] : row[s] = "stamped"
    BY <1>0, <1>12, <2>1 DEF RenameRaises, Hand, Moving
  <2>3. \A q \in Procs : q # p => todo'[p] \cap todo[q] = {}
    BY <1>0, <2>1 DEF Apart
  <2>4. Elsewhere(p)
    BY <2>1, <2>3 DEF Elsewhere
  <2> QED BY <2>1, <2>2, <2>4 DEF Hand
<1>13. ASSUME NEW p \in Procs, Unstamp(p) PROVE Elsewhere(p) /\ Hand(p)'
  <2>1. /\ pc[p] = "unstamping" /\ pc'[p] = "moving" /\ applied = Files
        /\ todo'[p] = todo[p] \ {cur[p]}
        /\ UNCHANGED <<applied, ran, old, new, missing, cur, sawNew, abandoned>>
        /\ row' = [row EXCEPT ![cur[p]] = "pending"]
        /\ \A q \in Procs : q # p => pc'[q] = pc[q] /\ todo'[q] = todo[q]
    BY <1>0, <1>13 DEF Unstamp, NextRow, TypeOK, MigratedOnce, Moving
  <2>2. cur[p] \in todo[p] /\ todo[p] \subseteq Renames
        /\ \A s \in todo[p] : row[s] = "stamped"
    BY <1>0, <2>1 DEF Hand, Moving, TypeOK
  <2>3. /\ row'[cur[p]] = "pending"
        /\ \A r \in Renames : r # cur[p] => row'[r] = row[r]
    BY <1>0, <2>1, <2>2 DEF TypeOK
  <2>4. \A q \in Procs : q # p => todo'[p] \cap todo[q] = {}
    BY <1>0, <2>1 DEF Apart
  <2>5. Elsewhere(p)
    BY <2>1, <2>2, <2>3, <2>4 DEF Elsewhere
  <2> QED BY <2>1, <2>2, <2>3, <2>5 DEF Hand
<1>14. ASSUME NEW p \in Procs, LoopEnds(p) PROVE Elsewhere(p) /\ Hand(p)'
  <2>1. /\ pc[p] = "moving" /\ pc'[p] = "serving" /\ todo[p] = {} /\ applied = Files
        /\ UNCHANGED <<applied, ran, row, old, new, missing, todo, cur, sawNew, abandoned>>
        /\ \A q \in Procs : q # p => pc'[q] = pc[q]
    BY <1>0, <1>14 DEF LoopEnds, TypeOK, MigratedOnce, Moving
  <2> QED BY <2>1 DEF Elsewhere, Hand, Moving
<1>15. ASSUME NEW p \in Procs, NEW r \in Renames, Remember(p, r)
       PROVE  Elsewhere(p) /\ Hand(p)'
  <2>1. /\ pc[p] = "serving" /\ todo[p] = {} /\ applied = Files
        /\ UNCHANGED <<applied, ran, row, old, missing, pc, todo, cur, sawNew, abandoned>>
        /\ new' = [new EXCEPT ![r] = "fresh"]
    BY <1>0, <1>15 DEF Remember, Hand, MigratedOnce
  <2>2. \A s \in Renames : new[s] # "none" => new'[s] # "none"
    BY <1>0, <2>1 DEF TypeOK
  <2> QED BY <2>1, <2>2 DEF Elsewhere, Hand, Moving
<1>16. ASSUME NEW p \in Procs, Stop(p) PROVE Elsewhere(p) /\ Hand(p)'
  <2>1. /\ pc'[p] = "down" /\ todo'[p] = {} /\ abandoned \subseteq abandoned'
        /\ pc[p] \in Moving => todo[p] \subseteq abandoned'
        /\ UNCHANGED <<applied, ran, row, old, new, missing, cur, sawNew>>
        /\ \A q \in Procs : q # p => pc'[q] = pc[q] /\ todo'[q] = todo[q]
    BY <1>0, <1>16 DEF Stop, TypeOK
  <2>2. pc[p] \notin Moving => \A r \in todo[p] : row[r] # "stamped"
    BY <1>0 DEF Hand, TypeOK
  <2> QED BY <2>1, <2>2 DEF Elsewhere, Hand, Late, Moving
<1>17. CASE UNCHANGED vars
  BY <1>0, <1>17
  DEF vars, Missing, MigratedOnce, Hands, Hand, Apart, StampedIsMoved
<1> QED
  BY <1>1, <1>2, <1>3, <1>4, <1>5, <1>6, <1>7, <1>8, <1>9, <1>10, <1>11, <1>12, <1>13,
     <1>14, <1>15, <1>16, <1>17, StepKeeps
  DEF Next, Rename, OpenRaises, UnstampRaises

LEMMA InitIInv == Init => IInv
<1> SUFFICES ASSUME Init PROVE IInv
  OBVIOUS
<1>1. PICK n \in 0..(Renaming - 1) : applied = 1..n
  BY DEF Init
<1>2. MigratedOnce
  BY <1>1, FilesAssumption DEF Init, MigratedOnce, Files, Moving
<1> QED
  BY <1>2, InitTypeOK DEF Init, IInv, Missing, Hands, Hand, Apart, StampedIsMoved, Moving

LEMMA Invariance == Spec => []IInv
  BY InitIInv, NextIInv, PTL DEF Spec

-----------------------------------------------------------------------------
(* The theorems                                                            *)

\* Every variable keeps its type, in whatever order processes boot and die.
THEOREM TypeCorrect == Spec => []TypeOK
<1>1. IInv => TypeOK
  BY DEF IInv
<1> QED
  BY <1>1, Invariance, PTL

\* Each migration takes effect once and in order.
THEOREM MigratesOnce == Spec => []MigratedOnce
<1>1. IInv => MigratedOnce
  BY DEF IInv
<1> QED
  BY <1>1, Invariance, PTL

\* No rename is in the hands of two processes.
THEOREM OneMovesIt == Spec => []OneMover
<1>1. IInv => OneMover
  BY DEF IInv, Hands, Hand, Apart, OneMover, TypeOK
<1> QED
  BY <1>1, Invariance, PTL

\* A stamped rename in nobody's hands was moved, but for a death or a break.
THEOREM StampsAreMoves == Spec => []StampedIsMoved
<1>1. IInv => StampedIsMoved
  BY DEF IInv
<1> QED
  BY <1>1, Invariance, PTL

-----------------------------------------------------------------------------
(* What a step does to the store                                           *)

\* Only a rename, and a process that serves, touch the store.
LEMMA StoreSteps ==
  ASSUME [Next]_vars
  PROVE  \/ UNCHANGED store
         \/ \E p \in Procs : \/ Copy(p) \/ DeleteOld(p) \/ MoveRow(p)
                              \/ \E r \in Renames : Remember(p, r)
BY DEF Next, Rename, vars, store, Start, Migrate, MigrateRaises, SelectRenames, CommitStamps,
       ClaimRaises, OpenStore, OpenRaises, BreakOff, Look, RenameRaises, Unstamp,
       UnstampRaises, LoopEnds, Stop

\* What could be found can still be found after any step.
THEOREM StaysFindable == Spec => NeverUnfindable
<1> DEFINE A == \A r \in Renames : r \in old \/ new[r] # "none"
                                     => r \in old' \/ new'[r] # "none"
<1>1. IInv /\ [Next]_vars => [A]_vars
  <2> SUFFICES ASSUME IInv, [Next]_vars, NEW r \in Renames, r \in old \/ new[r] # "none"
               PROVE  r \in old' \/ new'[r] # "none"
    OBVIOUS
  <2>0. TypeOK /\ \A p \in Procs : Hand(p)
    BY DEF IInv, Hands
  <2>1. ASSUME NEW p \in Procs, Copy(p) PROVE r \in old' \/ new'[r] # "none"
    BY <2>0, <2>1 DEF Copy, TypeOK
  <2>2. ASSUME NEW p \in Procs, DeleteOld(p) PROVE r \in old' \/ new'[r] # "none"
    BY <2>0, <2>2 DEF DeleteOld, Hand
  <2>3. ASSUME NEW p \in Procs, MoveRow(p) PROVE r \in old' \/ new'[r] # "none"
    BY <2>0, <2>3 DEF MoveRow, Hand, TypeOK
  <2>4. ASSUME NEW p \in Procs, NEW s \in Renames, Remember(p, s)
        PROVE  r \in old' \/ new'[r] # "none"
    BY <2>0, <2>4 DEF Remember, TypeOK
  <2> QED
    BY <2>1, <2>2, <2>3, <2>4, StoreSteps DEF store
<1> QED
  BY <1>1, Invariance, PTL DEF Spec, NeverUnfindable

\* A text written under the new name stays, in pgvector always.
THEOREM FreshTextStays == Spec => FreshStays
<1> DEFINE A == \A r \in Renames :
                  new[r] = "fresh" /\ new'[r] # "fresh" =>
                    /\ backend = "qdrant"
                    /\ \E p \in Procs : pc[p] = "looked" /\ cur[p] = r /\ ~sawNew[p]
<1>1. IInv /\ [Next]_vars => [A]_vars
  <2> SUFFICES ASSUME IInv, [Next]_vars, NEW r \in Renames,
                      new[r] = "fresh", new'[r] # "fresh"
               PROVE  /\ backend = "qdrant"
                      /\ \E p \in Procs : pc[p] = "looked" /\ cur[p] = r /\ ~sawNew[p]
    OBVIOUS
  <2>0. TypeOK
    BY DEF IInv
  <2>1. ASSUME NEW p \in Procs, Copy(p)
        PROVE  backend = "qdrant" /\ pc[p] = "looked" /\ cur[p] = r /\ ~sawNew[p]
    BY <2>0, <2>1 DEF Copy, TypeOK
  <2>2. ASSUME NEW p \in Procs, DeleteOld(p) PROVE FALSE
    BY <2>2 DEF DeleteOld
  <2>3. ASSUME NEW p \in Procs, MoveRow(p) PROVE FALSE
    BY <2>0, <2>3 DEF MoveRow, Collides, TypeOK
  <2>4. ASSUME NEW p \in Procs, NEW s \in Renames, Remember(p, s) PROVE FALSE
    BY <2>0, <2>4 DEF Remember, TypeOK
  <2> QED
    BY <2>1, <2>2, <2>3, <2>4, StoreSteps DEF store
<1> QED
  BY <1>1, Invariance, PTL DEF Spec, FreshStays
=============================================================================
