---------------------------- MODULE ServerProofs ------------------------------
(***************************************************************************)
(* Theorems about the server around the bots: how a deployment is brought  *)
(* back and comes up (Restore, Startup), and the three services it runs    *)
(* beside the commands (Broadcast, Budgets, Traffic).                      *)
(*                                                                         *)
(* Whatever fails or dies in a restore, a bot that can be started has the  *)
(* state that belongs to its configuration.  RestoredWhole is not          *)
(* inductive.  What is missing is why the three steps of a restore may be  *)
(* taken apart: from the moment the row is overwritten until it is         *)
(* promoted it is behind its fence and owned by the restore, nothing lives *)
(* that could save, and what the restore is about to install is what the   *)
(* row has by then.  A process that starts is beyond the locks alone, so   *)
(* what it has seen to in the database and on the disk, step by step in    *)
(* the order of the migrations, is still so when it serves.                *)
(*                                                                         *)
(* The services keep tables of rows, and their invariants say what the     *)
(* rows of a table have to do with each other: a group is told once        *)
(* because one target of a broadcast has it and posts only while in hand;  *)
(* a refused caller is let in when promised because no window grows        *)
(* between; the counters agree because the rows of the tables are          *)
(* disjoint parts of what the service counted.                             *)
(***************************************************************************)
EXTENDS Restore, Startup, BackupTimer, Broadcast, Budgets, Traffic, DataLemmas, Integers, TLAPS

-----------------------------------------------------------------------------
(***************************************************************************)
(* Restore and Startup.                                                    *)
(***************************************************************************)
Startable(u) == Present(u) /\ record[u].status # "recovery_required"

\* The pair of one bot, as RestoredWhole has it.
Whole(u) ==
  /\ Startable(u) => stateFile[u] \in {NoFile, record[u].cfg}
  /\ live[u] \in {NoFile, record[u].cfg}
  /\ granted[u] \subseteq {record[u].revision}

\* A row that is not there yet has nothing.
Untouched(u) ==
  record[u].status = "absent" => stateFile[u] = NoFile /\ live[u] = NoFile /\ granted[u] = {}

\* Who constructs an instance owns the transition of a bot that may be started.
Constructs(u) ==
  /\ request[u] = "construct" <=> lifecycle[u] = "admin"
  /\ lifecycle[u] = "admin" => Startable(u)

AtStep(steps) == restorer.at \in steps

\* What a restore may rely on at each of its steps.
RowInHand ==
  LET u == restorer.uuid
      a == restorer.archive IN
  /\ AtStep({"preflight", "own", "drain", "overwrite"}) => record[u].revision < MaxRevision
  /\ AtStep({"drain", "overwrite", "install", "promote", "fence"}) => lifecycle[u] = "restore"
  /\ AtStep({"insert"}) => record[u].status = "absent"
  /\ AtStep({"overwrite", "ownNew", "install", "promote"}) => live[u] = NoFile
  /\ AtStep({"ownNew", "install", "promote"}) => ~Startable(u) /\ record[u].cfg = a.cfg
  /\ AtStep({"ownNew", "install", "promote"}) => record[u].status # "absent"
  /\ AtStep({"drain", "overwrite"}) => record[u].status # "absent"
  /\ AtStep({"drain", "overwrite", "ownNew", "install", "promote"}) /\ ~a.hasState =>
       record[u].cfg = a.cfg /\ stateFile[u] \in {NoFile, a.cfg}
  /\ AtStep({"promote"}) => stateFile[u] \in {NoFile, a.cfg}

RestoresInv ==
  /\ RestoreTypeOK
  /\ \A u \in Restorable : Whole(u) /\ Untouched(u) /\ Constructs(u)
  /\ restorer # NoRestore => RowInHand


InProgress == [at : RestoreSteps \ {"idle"}, uuid : Restorable, archive : Archives]

-------------------------------------------------------------------------------
(* A restore that moves on keeps its bot and its archive. *)
LEMMA RestoreMovesOn ==
  ASSUME NEW step \in RestoreSteps \ {"idle"}, restorer \in InProgress, MoveTo(step)
  PROVE  /\ restorer' \in InProgress
         /\ restorer' # NoRestore
         /\ restorer'.at = step
         /\ restorer'.uuid = restorer.uuid
         /\ restorer'.archive = restorer.archive
BY DEF InProgress, MoveTo, NoRestore, RestoreSteps

(* While a step of the restore is to be taken there is a restore. *)
LEMMA RestoreBusy ==
  ASSUME RestoresInv, restorer.at # "idle"
  PROVE  restorer \in InProgress /\ restorer # NoRestore /\ RowInHand
BY DEF RestoresInv, RestoreTypeOK, InProgress, NoRestore

LEMMA InitRInv == RestoreInit => RestoresInv
BY RestoreAssumption DEF RestoreInit, RestoresInv, RestoreTypeOK, Whole, Untouched, Constructs, Startable,
   Present, NoRestore, Rows, RowStatuses

LEMMA BeginRestoreRInv == RestoresInv /\ BeginRestore => RestoresInv'
<1> SUFFICES ASSUME RestoresInv, BeginRestore PROVE RestoresInv'
  OBVIOUS
<1>1. RestoreTypeOK'
  BY DEF RestoresInv, RestoreTypeOK, BeginRestore, RestoreSteps
<1>2. ASSUME NEW u \in Restorable PROVE Whole(u)' /\ Untouched(u)' /\ Constructs(u)'
  BY DEF RestoresInv, Whole, Untouched, Constructs, Startable, Present, BeginRestore
<1>3. RowInHand'
  BY DEF RowInHand, AtStep, BeginRestore
<1> QED
  BY <1>1, <1>2, <1>3 DEF RestoresInv

(* A bot that is skipped is left as it is, and owned by nobody. *)
LEMMA SkipRInv ==
  ASSUME RestoresInv, SkipBot(restorer.uuid), UNCHANGED << record, stateFile, live, granted, request >>
  PROVE  RestoresInv'
<1>1. RestoreTypeOK'
  BY DEF RestoresInv, RestoreTypeOK, SkipBot, Disown
<1>2. ASSUME NEW u \in Restorable PROVE Whole(u)' /\ Untouched(u)' /\ Constructs(u)'
  BY DEF RestoresInv, RestoreTypeOK, Whole, Untouched, Constructs, Startable, Present, SkipBot, Disown
<1> QED
  BY <1>1, <1>2 DEF RestoresInv, SkipBot

(* A restore that moves on without touching a bot needs its own part only. *)
LEMMA MoveRInv ==
  ASSUME RestoresInv, restorer' \in InProgress, RowInHand',
         UNCHANGED << record, stateFile, live, lifecycle, granted, request >>
  PROVE  RestoresInv'
BY DEF RestoresInv, RestoreTypeOK, InProgress, Whole, Untouched, Constructs, Startable, Present

LEMMA PreflightRInv == RestoresInv /\ Preflight => RestoresInv'
<1> SUFFICES ASSUME RestoresInv, Preflight PROVE RestoresInv'
  OBVIOUS
<1>0. restorer \in InProgress /\ restorer # NoRestore /\ RowInHand
  BY RestoreBusy DEF Preflight
<1>1. UNCHANGED << record, stateFile, live, granted, request >>
  BY DEF Preflight
<1>2. CASE SkipBot(restorer.uuid)
  BY <1>1, <1>2, SkipRInv
<1>3. CASE MoveTo("own") /\ UNCHANGED lifecycle
  <2>1. restorer' \in InProgress /\ restorer'.at = "own" /\ restorer'.uuid = restorer.uuid
    BY <1>0, <1>3, RestoreMovesOn DEF RestoreSteps
  <2>2. RowInHand'
    BY <1>0, <1>1, <1>3, <2>1 DEF RowInHand, AtStep, Preflight
  <2> QED
    BY <1>1, <1>3, <2>1, <2>2, MoveRInv
<1>4. CASE record[restorer.uuid].status = "absent" /\ MoveTo("insert") /\ UNCHANGED lifecycle
  <2>1. restorer' \in InProgress /\ restorer'.at = "insert" /\ restorer'.uuid = restorer.uuid
    BY <1>0, <1>4, RestoreMovesOn DEF RestoreSteps
  <2>2. RowInHand'
    BY <1>0, <1>1, <1>4, <2>1 DEF RowInHand, AtStep
  <2> QED
    BY <1>1, <1>4, <2>1, <2>2, MoveRInv
<1> QED
  BY <1>2, <1>3, <1>4 DEF Preflight

LEMMA OwnTargetRInv == RestoresInv /\ OwnTarget => RestoresInv'
<1> SUFFICES ASSUME RestoresInv, OwnTarget PROVE RestoresInv'
  OBVIOUS
<1> DEFINE u == restorer.uuid
<1>0. restorer \in InProgress /\ restorer # NoRestore /\ RowInHand /\ restorer.at = "own" /\ u \in Restorable
  BY RestoreBusy DEF OwnTarget, InProgress
<1>1. UNCHANGED << record, stateFile, live, granted, request >>
  BY DEF OwnTarget
<1>2. CASE SkipBot(u)
  BY <1>1, <1>2, SkipRInv
<1>3. CASE /\ Own(u, "restore") /\ MoveTo("drain") /\ Present(u)
           /\ \/ restorer.archive.hasState
              \/ record[u].status # "recovery_required" /\ record[u].cfg = restorer.archive.cfg
  <2>1. /\ restorer' \in InProgress /\ restorer'.at = "drain" /\ restorer' # NoRestore
        /\ restorer'.uuid = u /\ restorer'.archive = restorer.archive
    BY <1>0, <1>3, RestoreMovesOn DEF RestoreSteps
  <2>2. RestoreTypeOK'
    BY <1>0, <1>1, <1>3, <2>1 DEF RestoresInv, RestoreTypeOK, InProgress, Own
  <2>3. ASSUME NEW v \in Restorable PROVE Whole(v)' /\ Untouched(v)' /\ Constructs(v)'
    BY <1>0, <1>1, <1>3 DEF RestoresInv, RestoreTypeOK, Whole, Untouched, Constructs, Startable, Present, Own
  <2>4. lifecycle'[u] = "restore"
    BY <1>0, <1>3 DEF RestoresInv, RestoreTypeOK, Own
  <2>5. Whole(u)
    BY <1>0 DEF RestoresInv
  <2>6. RowInHand'
    BY <1>0, <1>1, <1>3, <2>1, <2>4, <2>5 DEF RowInHand, AtStep, Whole, Startable, Present
  <2> QED
    BY <2>2, <2>3, <2>6 DEF RestoresInv
<1> QED
  BY <1>0, <1>2, <1>3 DEF OwnTarget

LEMMA DrainTargetRInv == RestoresInv /\ DrainTarget => RestoresInv'
<1> SUFFICES ASSUME RestoresInv, DrainTarget PROVE RestoresInv'
  OBVIOUS
<1> DEFINE u == restorer.uuid
<1>0. restorer \in InProgress /\ restorer # NoRestore /\ RowInHand /\ restorer.at = "drain" /\ u \in Restorable
  BY RestoreBusy DEF DrainTarget, InProgress
<1>1. UNCHANGED << record, stateFile, granted, request >>
  BY DEF DrainTarget
<1>2. CASE SkipBot(u) /\ UNCHANGED live
  BY <1>1, <1>2, SkipRInv
<1>3. CASE live' = [live EXCEPT ![u] = NoFile] /\ MoveTo("overwrite") /\ UNCHANGED lifecycle
  <2>1. /\ restorer' \in InProgress /\ restorer'.at = "overwrite"
        /\ restorer'.uuid = u /\ restorer'.archive = restorer.archive
    BY <1>0, <1>3, RestoreMovesOn DEF RestoreSteps
  <2>2. RestoreTypeOK'
    BY <1>0, <1>1, <1>3, <2>1 DEF RestoresInv, RestoreTypeOK, InProgress
  <2>3. ASSUME NEW v \in Restorable PROVE Whole(v)' /\ Untouched(v)' /\ Constructs(v)'
    BY <1>1, <1>3 DEF RestoresInv, RestoreTypeOK, Whole, Untouched, Constructs, Startable, Present
  <2>4. live'[u] = NoFile
    BY <1>0, <1>3 DEF RestoresInv, RestoreTypeOK
  <2>5. RowInHand'
    BY <1>0, <1>1, <1>3, <2>1, <2>4 DEF RowInHand, AtStep
  <2> QED
    BY <2>2, <2>3, <2>5 DEF RestoresInv
<1> QED
  BY <1>2, <1>3 DEF DrainTarget

LEMMA OverwriteRowRInv == RestoresInv /\ OverwriteRow => RestoresInv'
<1> SUFFICES ASSUME RestoresInv, OverwriteRow PROVE RestoresInv'
  OBVIOUS
<1> DEFINE u == restorer.uuid
<1>0. restorer \in InProgress /\ restorer # NoRestore /\ RowInHand /\ restorer.at = "overwrite" /\ u \in Restorable
  BY RestoreBusy DEF OverwriteRow, InProgress
<1> DEFINE Overwritten == /\ record' = [record EXCEPT ![u].status = "recovery_required",
                                                  ![u].cfg = restorer.archive.cfg,
                                                  ![u].revision = @ + 1]
                       /\ granted' = [granted EXCEPT ![u] = {}]
<1>1. UNCHANGED << stateFile, live, request >>
  BY DEF OverwriteRow
<1>2. ASSUME Overwritten, UNCHANGED lifecycle, NEW step \in {"install", "fence"}, MoveTo(step)
      PROVE  RestoresInv'
  <2>1. /\ restorer' \in InProgress /\ restorer'.at = step
        /\ restorer'.uuid = u /\ restorer'.archive = restorer.archive
    BY <1>0, <1>2, RestoreMovesOn DEF RestoreSteps
  <2>2. record' \in [Restorable -> Rows] /\ granted' \in [Restorable -> SUBSET (0..MaxRevision)]
    BY <1>0, <1>2, RestoreAssumption
    DEF RestoresInv, RestoreTypeOK, RowInHand, AtStep, Rows, RowStatuses, InProgress, Archives
  <2>3. RestoreTypeOK'
    BY <1>1, <1>2, <2>1, <2>2 DEF RestoresInv, RestoreTypeOK, InProgress
  <2>4. record'[u].status = "recovery_required" /\ record'[u].cfg = restorer.archive.cfg /\ granted'[u] = {}
    BY <1>0, <1>2 DEF RestoresInv, RestoreTypeOK, Rows
  <2>5. \A v \in Restorable \ {u} : record'[v] = record[v] /\ granted'[v] = granted[v]
    BY <1>0, <1>2 DEF RestoresInv, RestoreTypeOK
  <2>6. ASSUME NEW v \in Restorable PROVE Whole(v)' /\ Untouched(v)' /\ Constructs(v)'
    <3>1. CASE v = u
      BY <1>0, <1>1, <1>2, <2>4, <3>1
      DEF RestoresInv, Whole, Untouched, Constructs, Startable, Present, RowInHand, AtStep
    <3>2. CASE v # u
      BY <1>1, <1>2, <2>5, <3>2 DEF RestoresInv, Whole, Untouched, Constructs, Startable, Present
    <3> QED
      BY <3>1, <3>2
  <2>7. RowInHand'
    BY <1>0, <1>1, <1>2, <2>1, <2>4 DEF RowInHand, AtStep, Startable, Present
  <2> QED
    BY <2>3, <2>6, <2>7 DEF RestoresInv
<1>3. CASE MoveTo("fence") /\ UNCHANGED << record, granted, lifecycle >>
  <2>1. /\ restorer' \in InProgress /\ restorer'.at = "fence"
        /\ restorer'.uuid = u /\ restorer'.archive = restorer.archive
    BY <1>0, <1>3, RestoreMovesOn DEF RestoreSteps
  <2>2. RowInHand'
    BY <1>0, <1>1, <1>3, <2>1 DEF RowInHand, AtStep
  <2> QED
    BY <1>1, <1>3, <2>1, <2>2, MoveRInv
<1>4. CASE SkipBot(u) /\ UNCHANGED << record, granted >>
  BY <1>1, <1>4, SkipRInv
<1> QED
  BY <1>2, <1>3, <1>4 DEF OverwriteRow

LEMMA InsertRowRInv == RestoresInv /\ InsertRow => RestoresInv'
<1> SUFFICES ASSUME RestoresInv, InsertRow PROVE RestoresInv'
  OBVIOUS
<1> DEFINE u == restorer.uuid
<1>0. restorer \in InProgress /\ restorer # NoRestore /\ RowInHand /\ restorer.at = "insert" /\ u \in Restorable
  BY RestoreBusy DEF InsertRow, InProgress
<1> DEFINE inserted == [status |-> "recovery_required", deleted |-> FALSE,
                       cfg |-> restorer.archive.cfg, revision |-> 0]
<1>1. UNCHANGED << stateFile, live, granted, request >>
  BY DEF InsertRow
<1>2. CASE record' = [record EXCEPT ![u] = inserted] /\ MoveTo("ownNew") /\ UNCHANGED lifecycle
  <2>1. /\ restorer' \in InProgress /\ restorer'.at = "ownNew"
        /\ restorer'.uuid = u /\ restorer'.archive = restorer.archive
    BY <1>0, <1>2, RestoreMovesOn DEF RestoreSteps
  <2>2. RestoreTypeOK'
    BY <1>0, <1>1, <1>2, <2>1, RestoreAssumption
    DEF RestoresInv, RestoreTypeOK, InProgress, Rows, RowStatuses, Archives
  <2>3. stateFile[u] = NoFile /\ live[u] = NoFile /\ granted[u] = {} /\ lifecycle[u] # "admin"
    BY <1>0 DEF RestoresInv, RowInHand, AtStep, Untouched, Constructs, Startable, Present
  <2>4. ASSUME NEW v \in Restorable PROVE Whole(v)' /\ Untouched(v)' /\ Constructs(v)'
    BY <1>0, <1>1, <1>2, <2>3 DEF RestoresInv, RestoreTypeOK, Whole, Untouched, Constructs, Startable, Present
  <2>5. RowInHand'
    BY <1>0, <1>1, <1>2, <2>1, <2>3 DEF RestoresInv, RestoreTypeOK, RowInHand, AtStep, Startable, Present
  <2> QED
    BY <2>2, <2>4, <2>5 DEF RestoresInv
<1>3. CASE SkipBot(u) /\ UNCHANGED record
  BY <1>1, <1>3, SkipRInv
<1> QED
  BY <1>2, <1>3 DEF InsertRow


LEMMA OwnNewRInv == RestoresInv /\ OwnNew => RestoresInv'
<1> SUFFICES ASSUME RestoresInv, OwnNew PROVE RestoresInv'
  OBVIOUS
<1> DEFINE u == restorer.uuid
<1>0. restorer \in InProgress /\ restorer # NoRestore /\ RowInHand /\ restorer.at = "ownNew" /\ u \in Restorable
  BY RestoreBusy DEF OwnNew, InProgress
<1>1. UNCHANGED << record, stateFile, live, granted, request >>
  BY DEF OwnNew
<1>2. CASE Own(u, "restore") /\ MoveTo("install")
  <2>1. /\ restorer' \in InProgress /\ restorer'.at = "install"
        /\ restorer'.uuid = u /\ restorer'.archive = restorer.archive
    BY <1>0, <1>2, RestoreMovesOn DEF RestoreSteps
  <2>2. RestoreTypeOK'
    BY <1>0, <1>1, <1>2, <2>1 DEF RestoresInv, RestoreTypeOK, InProgress, Own
  <2>3. ASSUME NEW v \in Restorable PROVE Whole(v)' /\ Untouched(v)' /\ Constructs(v)'
    BY <1>0, <1>1, <1>2 DEF RestoresInv, RestoreTypeOK, Whole, Untouched, Constructs, Startable, Present, Own
  <2>4. RowInHand'
    BY <1>0, <1>1, <1>2, <2>1 DEF RestoresInv, RestoreTypeOK, RowInHand, AtStep, Startable, Present, Own
  <2> QED
    BY <2>2, <2>3, <2>4 DEF RestoresInv
<1>3. CASE lifecycle[u] # "nobody" /\ MoveTo("fence") /\ UNCHANGED lifecycle
  <2>1. /\ restorer' \in InProgress /\ restorer'.at = "fence"
        /\ restorer'.uuid = u /\ restorer'.archive = restorer.archive
    BY <1>0, <1>3, RestoreMovesOn DEF RestoreSteps
  <2>2. lifecycle[u] = "restore"
    BY <1>0, <1>3 DEF RestoresInv, RestoreTypeOK, Constructs, RowInHand, AtStep
  <2>3. RowInHand'
    BY <1>1, <1>3, <2>1, <2>2 DEF RowInHand, AtStep
  <2> QED
    BY <1>1, <1>3, <2>1, <2>3, MoveRInv
<1> QED
  BY <1>2, <1>3 DEF OwnNew

LEMMA InstallStateRInv == RestoresInv /\ InstallState => RestoresInv'
<1> SUFFICES ASSUME RestoresInv, InstallState PROVE RestoresInv'
  OBVIOUS
<1> DEFINE u == restorer.uuid
<1>0. restorer \in InProgress /\ restorer # NoRestore /\ RowInHand /\ restorer.at = "install" /\ u \in Restorable
  BY RestoreBusy DEF InstallState, InProgress
<1>1. UNCHANGED << record, live, lifecycle, granted, request >>
  BY DEF InstallState
<1>2. CASE /\ stateFile' = IF restorer.archive.hasState
                           THEN [stateFile EXCEPT ![u] = restorer.archive.cfg] ELSE stateFile
           /\ MoveTo("promote")
  <2>1. /\ restorer' \in InProgress /\ restorer'.at = "promote"
        /\ restorer'.uuid = u /\ restorer'.archive = restorer.archive
    BY <1>0, <1>2, RestoreMovesOn DEF RestoreSteps
  <2>2. RestoreTypeOK'
    BY <1>0, <1>1, <1>2, <2>1 DEF RestoresInv, RestoreTypeOK, InProgress, Archives
  <2>3. stateFile'[u] \in {NoFile, restorer.archive.cfg} /\ ~Startable(u)
    BY <1>0, <1>2 DEF RestoresInv, RestoreTypeOK, RowInHand, AtStep
  <2>4. ASSUME NEW v \in Restorable PROVE Whole(v)' /\ Untouched(v)' /\ Constructs(v)'
    BY <1>0, <1>1, <1>2, <2>3
    DEF RestoresInv, RestoreTypeOK, Whole, Untouched, Constructs, Startable, Present, RowInHand, AtStep
  <2>5. RowInHand'
    BY <1>0, <1>1, <2>1, <2>3 DEF RowInHand, AtStep, Startable, Present
  <2> QED
    BY <2>2, <2>4, <2>5 DEF RestoresInv
<1>3. CASE MoveTo("fence") /\ UNCHANGED stateFile
  <2>1. /\ restorer' \in InProgress /\ restorer'.at = "fence"
        /\ restorer'.uuid = u /\ restorer'.archive = restorer.archive
    BY <1>0, <1>3, RestoreMovesOn DEF RestoreSteps
  <2>2. RowInHand'
    BY <1>0, <1>1, <1>3, <2>1 DEF RowInHand, AtStep
  <2> QED
    BY <1>1, <1>3, <2>1, <2>2, MoveRInv
<1> QED
  BY <1>2, <1>3 DEF InstallState

LEMMA PromoteRowRInv == RestoresInv /\ PromoteRow => RestoresInv'
<1> SUFFICES ASSUME RestoresInv, PromoteRow PROVE RestoresInv'
  OBVIOUS
<1> DEFINE u == restorer.uuid
<1>0. restorer \in InProgress /\ restorer # NoRestore /\ RowInHand /\ restorer.at = "promote" /\ u \in Restorable
  BY RestoreBusy DEF PromoteRow, InProgress
<1>1. UNCHANGED << stateFile, live, granted, request >>
  BY DEF PromoteRow
<1>2. CASE record' = [record EXCEPT ![u].status = "stopped"] /\ SkipBot(u)
  <2>1. RestoreTypeOK'
    BY <1>0, <1>1, <1>2 DEF RestoresInv, RestoreTypeOK, Rows, RowStatuses, SkipBot, Disown
  <2>2. /\ record'[u].cfg = record[u].cfg /\ record'[u].revision = record[u].revision
        /\ record'[u].status = "stopped"
        /\ \A v \in Restorable \ {u} : record'[v] = record[v]
    BY <1>0, <1>2 DEF RestoresInv, RestoreTypeOK, Rows
  <2>3. lifecycle[u] = "restore" /\ lifecycle'[u] = "nobody" /\ live[u] = NoFile
    BY <1>0, <1>2 DEF RestoresInv, RestoreTypeOK, RowInHand, AtStep, SkipBot, Disown
  <2>4. stateFile[u] \in {NoFile, record[u].cfg}
    BY <1>0 DEF RowInHand, AtStep
  <2>5. ASSUME NEW v \in Restorable PROVE Whole(v)' /\ Untouched(v)' /\ Constructs(v)'
    <3>1. CASE v = u
      BY <1>1, <2>2, <2>3, <2>4, <3>1 DEF RestoresInv, Whole, Untouched, Constructs
    <3>2. CASE v # u
      <4>1. lifecycle'[v] = "admin" <=> lifecycle[v] = "admin"
        BY <1>2, <3>2 DEF RestoresInv, RestoreTypeOK, SkipBot, Disown
      <4> QED
        BY <1>1, <2>2, <3>2, <4>1 DEF RestoresInv, Whole, Untouched, Constructs, Startable, Present
    <3> QED
      BY <3>1, <3>2
  <2> QED
    BY <1>2, <2>1, <2>5 DEF RestoresInv, SkipBot
<1>3. CASE MoveTo("fence") /\ UNCHANGED << record, lifecycle >>
  <2>1. /\ restorer' \in InProgress /\ restorer'.at = "fence"
        /\ restorer'.uuid = u /\ restorer'.archive = restorer.archive
    BY <1>0, <1>3, RestoreMovesOn DEF RestoreSteps
  <2>2. RowInHand'
    BY <1>0, <1>1, <1>3, <2>1 DEF RowInHand, AtStep
  <2> QED
    BY <1>1, <1>3, <2>1, <2>2, MoveRInv
<1> QED
  BY <1>2, <1>3 DEF PromoteRow

LEMMA FenceRowRInv == RestoresInv /\ FenceRow => RestoresInv'
<1> SUFFICES ASSUME RestoresInv, FenceRow PROVE RestoresInv'
  OBVIOUS
<1> DEFINE u == restorer.uuid
<1>0. restorer \in InProgress /\ restorer # NoRestore /\ RowInHand /\ restorer.at = "fence" /\ u \in Restorable
  BY RestoreBusy DEF FenceRow, InProgress
<1>1. UNCHANGED << stateFile, live, granted, request >> /\ SkipBot(u)
  BY DEF FenceRow
<1>2. CASE UNCHANGED record
  BY <1>1, <1>2, SkipRInv
<1>3. CASE Present(u) /\ record' = [record EXCEPT ![u].status = "recovery_required"]
  <2>1. RestoreTypeOK'
    BY <1>0, <1>1, <1>3 DEF RestoresInv, RestoreTypeOK, Rows, RowStatuses, SkipBot, Disown
  <2>2. /\ record'[u].cfg = record[u].cfg /\ record'[u].revision = record[u].revision
        /\ record'[u].status = "recovery_required"
        /\ \A v \in Restorable \ {u} : record'[v] = record[v]
    BY <1>0, <1>3 DEF RestoresInv, RestoreTypeOK, Rows
  <2>3. lifecycle[u] = "restore" /\ lifecycle'[u] = "nobody"
    BY <1>0, <1>1 DEF RestoresInv, RestoreTypeOK, RowInHand, AtStep, SkipBot, Disown
  <2>4. ASSUME NEW v \in Restorable PROVE Whole(v)' /\ Untouched(v)' /\ Constructs(v)'
    <3>1. CASE v = u
      BY <1>0, <1>1, <2>2, <2>3, <3>1 DEF RestoresInv, Whole, Untouched, Constructs, Startable
    <3>2. CASE v # u
      <4>1. lifecycle'[v] = "admin" <=> lifecycle[v] = "admin"
        BY <1>1, <3>2 DEF RestoresInv, RestoreTypeOK, SkipBot, Disown
      <4> QED
        BY <1>1, <2>2, <3>2, <4>1 DEF RestoresInv, Whole, Untouched, Constructs, Startable, Present
    <3> QED
      BY <3>1, <3>2
  <2> QED
    BY <1>1, <2>1, <2>4 DEF RestoresInv, SkipBot
<1> QED
  BY <1>2, <1>3 DEF FenceRow


LEMMA BeginStartRInv == ASSUME NEW w \in Restorable PROVE RestoresInv /\ BeginStart(w) => RestoresInv'
<1> SUFFICES ASSUME RestoresInv, BeginStart(w) PROVE RestoresInv'
  OBVIOUS
<1>1. RestoreTypeOK'
  BY DEF RestoresInv, RestoreTypeOK, BeginStart, Own
<1>2. ASSUME NEW v \in Restorable PROVE Whole(v)' /\ Untouched(v)' /\ Constructs(v)'
  <2>1. CASE v = w
    BY <2>1 DEF RestoresInv, RestoreTypeOK, Whole, Untouched, Constructs, Startable, Present, BeginStart, Own
  <2>2. CASE v # w
    <3>1. Whole(v) /\ Untouched(v) /\ Constructs(v)
      BY DEF RestoresInv
    <3>2. /\ record'[v] = record[v] /\ stateFile'[v] = stateFile[v] /\ live'[v] = live[v]
          /\ lifecycle'[v] = lifecycle[v] /\ granted'[v] = granted[v] /\ request'[v] = request[v]
      BY <2>2 DEF RestoresInv, RestoreTypeOK, BeginStart, Own
    <3> QED
      BY <3>1, <3>2 DEF Whole, Untouched, Constructs, Startable, Present
  <2> QED
    BY <2>1, <2>2
<1>3. ASSUME restorer # NoRestore PROVE RowInHand'
  <2> DEFINE u == restorer.uuid
  <2>1. RowInHand /\ u \in Restorable /\ restorer' = restorer
    BY <1>3 DEF RestoresInv, RestoreTypeOK, BeginStart
  <2>2. CASE u = w
    BY <2>1, <2>2 DEF RestoresInv, RestoreTypeOK, Whole, Untouched, Constructs, Startable, Present, RowInHand, AtStep, BeginStart, Own
  <2>3. CASE u # w
    <3>1. /\ record'[u] = record[u] /\ stateFile'[u] = stateFile[u] /\ live'[u] = live[u]
          /\ lifecycle'[u] = lifecycle[u]
      BY <2>1, <2>3 DEF RestoresInv, RestoreTypeOK, BeginStart, Own
    <3> QED
      BY <2>1, <3>1 DEF RowInHand, AtStep, Startable, Present
  <2> QED
    BY <2>2, <2>3
<1> QED
  BY <1>1, <1>2, <1>3 DEF RestoresInv, BeginStart

LEMMA CommitStartRInv == ASSUME NEW w \in Restorable PROVE RestoresInv /\ CommitStart(w) => RestoresInv'
<1> SUFFICES ASSUME RestoresInv, CommitStart(w) PROVE RestoresInv'
  OBVIOUS
<1>1. RestoreTypeOK'
  <2>1. record \in [Restorable -> Rows] /\ record[w] \in Rows
    BY DEF RestoresInv, RestoreTypeOK
  <2>2. \A s \in {"running", "stopped"} : [record[w] EXCEPT !.status = s] \in Rows
    BY <2>1 DEF Rows, RowStatuses
  <2>3. record' \in [Restorable -> Rows]
    BY <2>1, <2>2 DEF CommitStart
  <2>4. live' \in [Restorable -> Versions \cup {NoFile}]
    BY <2>1 DEF RestoresInv, RestoreTypeOK, CommitStart, Rows
  <2> QED
    BY <2>3, <2>4 DEF RestoresInv, RestoreTypeOK, CommitStart, Disown
<1>2. ASSUME NEW v \in Restorable PROVE Whole(v)' /\ Untouched(v)' /\ Constructs(v)'
  <2>1. CASE v = w
    BY <2>1 DEF RestoresInv, RestoreTypeOK, Whole, Untouched, Constructs, Startable, Present, CommitStart, Disown, Rows, RowStatuses
  <2>2. CASE v # w
    <3>1. Whole(v) /\ Untouched(v) /\ Constructs(v)
      BY DEF RestoresInv
    <3>2. /\ record'[v] = record[v] /\ stateFile'[v] = stateFile[v] /\ live'[v] = live[v]
          /\ lifecycle'[v] = lifecycle[v] /\ granted'[v] = granted[v] /\ request'[v] = request[v]
      BY <2>2 DEF RestoresInv, RestoreTypeOK, CommitStart, Disown, Rows, RowStatuses
    <3> QED
      BY <3>1, <3>2 DEF Whole, Untouched, Constructs, Startable, Present
  <2> QED
    BY <2>1, <2>2
<1>3. ASSUME restorer # NoRestore PROVE RowInHand'
  <2> DEFINE u == restorer.uuid
  <2>1. RowInHand /\ u \in Restorable /\ restorer' = restorer
    BY <1>3 DEF RestoresInv, RestoreTypeOK, CommitStart
  <2>2. CASE u = w
    BY <2>1, <2>2 DEF RestoresInv, RestoreTypeOK, Whole, Untouched, Constructs, Startable, Present, RowInHand, AtStep, CommitStart, Disown, Rows, RowStatuses
  <2>3. CASE u # w
    <3>1. /\ record'[u] = record[u] /\ stateFile'[u] = stateFile[u] /\ live'[u] = live[u]
          /\ lifecycle'[u] = lifecycle[u]
      BY <2>1, <2>3 DEF RestoresInv, RestoreTypeOK, CommitStart, Disown, Rows, RowStatuses
    <3> QED
      BY <2>1, <3>1 DEF RowInHand, AtStep, Startable, Present
  <2> QED
    BY <2>2, <2>3
<1> QED
  BY <1>1, <1>2, <1>3 DEF RestoresInv, CommitStart

LEMMA StopRouteRInv == ASSUME NEW w \in Restorable PROVE RestoresInv /\ StopRoute(w) => RestoresInv'
<1> SUFFICES ASSUME RestoresInv, StopRoute(w) PROVE RestoresInv'
  OBVIOUS
<1>1. RestoreTypeOK'
  BY DEF RestoresInv, RestoreTypeOK, StopRoute, Rows, RowStatuses
<1>2. ASSUME NEW v \in Restorable PROVE Whole(v)' /\ Untouched(v)' /\ Constructs(v)'
  <2>1. CASE v = w
    BY <2>1 DEF RestoresInv, RestoreTypeOK, Whole, Untouched, Constructs, Startable, Present, StopRoute, Rows, RowStatuses
  <2>2. CASE v # w
    <3>1. Whole(v) /\ Untouched(v) /\ Constructs(v)
      BY DEF RestoresInv
    <3>2. /\ record'[v] = record[v] /\ stateFile'[v] = stateFile[v] /\ live'[v] = live[v]
          /\ lifecycle'[v] = lifecycle[v] /\ granted'[v] = granted[v] /\ request'[v] = request[v]
      BY <2>2 DEF RestoresInv, RestoreTypeOK, StopRoute, Rows, RowStatuses
    <3> QED
      BY <3>1, <3>2 DEF Whole, Untouched, Constructs, Startable, Present
  <2> QED
    BY <2>1, <2>2
<1>3. ASSUME restorer # NoRestore PROVE RowInHand'
  <2> DEFINE u == restorer.uuid
  <2>1. RowInHand /\ u \in Restorable /\ restorer' = restorer
    BY <1>3 DEF RestoresInv, RestoreTypeOK, StopRoute
  <2>2. CASE u = w
    BY <2>1, <2>2 DEF RestoresInv, RestoreTypeOK, Whole, Untouched, Constructs, Startable, Present, RowInHand, AtStep, StopRoute, Rows, RowStatuses
  <2>3. CASE u # w
    <3>1. /\ record'[u] = record[u] /\ stateFile'[u] = stateFile[u] /\ live'[u] = live[u]
          /\ lifecycle'[u] = lifecycle[u]
      BY <2>1, <2>3 DEF RestoresInv, RestoreTypeOK, StopRoute, Rows, RowStatuses
    <3> QED
      BY <2>1, <3>1 DEF RowInHand, AtStep, Startable, Present
  <2> QED
    BY <2>2, <2>3
<1> QED
  BY <1>1, <1>2, <1>3 DEF RestoresInv, StopRoute

LEMMA DeleteRouteRInv == ASSUME NEW w \in Restorable PROVE RestoresInv /\ DeleteRoute(w) => RestoresInv'
<1> SUFFICES ASSUME RestoresInv, DeleteRoute(w) PROVE RestoresInv'
  OBVIOUS
<1>1. RestoreTypeOK'
  <2>1. record \in [Restorable -> Rows] /\ record[w] \in Rows
    BY DEF RestoresInv, RestoreTypeOK
  <2>2. [record[w] EXCEPT !.status = "stopped", !.deleted = TRUE] \in Rows
    BY <2>1 DEF Rows, RowStatuses
  <2>3. record' \in [Restorable -> Rows]
    BY <2>1, <2>2 DEF DeleteRoute
  <2> QED
    BY <2>3 DEF RestoresInv, RestoreTypeOK, DeleteRoute
<1>2. ASSUME NEW v \in Restorable PROVE Whole(v)' /\ Untouched(v)' /\ Constructs(v)'
  <2>1. CASE v = w
    BY <2>1 DEF RestoresInv, RestoreTypeOK, Whole, Untouched, Constructs, Startable, Present, DeleteRoute, Rows, RowStatuses
  <2>2. CASE v # w
    <3>1. Whole(v) /\ Untouched(v) /\ Constructs(v)
      BY DEF RestoresInv
    <3>2. /\ record'[v] = record[v] /\ stateFile'[v] = stateFile[v] /\ live'[v] = live[v]
          /\ lifecycle'[v] = lifecycle[v] /\ granted'[v] = granted[v] /\ request'[v] = request[v]
      BY <2>2 DEF RestoresInv, RestoreTypeOK, DeleteRoute, Rows, RowStatuses
    <3> QED
      BY <3>1, <3>2 DEF Whole, Untouched, Constructs, Startable, Present
  <2> QED
    BY <2>1, <2>2
<1>3. ASSUME restorer # NoRestore PROVE RowInHand'
  <2> DEFINE u == restorer.uuid
  <2>1. RowInHand /\ u \in Restorable /\ restorer' = restorer
    BY <1>3 DEF RestoresInv, RestoreTypeOK, DeleteRoute
  <2>2. CASE u = w
    BY <2>1, <2>2 DEF RestoresInv, RestoreTypeOK, Whole, Untouched, Constructs, Startable, Present, RowInHand, AtStep, DeleteRoute, Rows, RowStatuses
  <2>3. CASE u # w
    <3>1. /\ record'[u] = record[u] /\ stateFile'[u] = stateFile[u] /\ live'[u] = live[u]
          /\ lifecycle'[u] = lifecycle[u]
      BY <2>1, <2>3 DEF RestoresInv, RestoreTypeOK, DeleteRoute, Rows, RowStatuses
    <3> QED
      BY <2>1, <3>1 DEF RowInHand, AtStep, Startable, Present
  <2> QED
    BY <2>2, <2>3
<1> QED
  BY <1>1, <1>2, <1>3 DEF RestoresInv, DeleteRoute

LEMMA WorkerSavesRInv == ASSUME NEW w \in Restorable PROVE RestoresInv /\ WorkerSaves(w) => RestoresInv'
<1> SUFFICES ASSUME RestoresInv, WorkerSaves(w) PROVE RestoresInv'
  OBVIOUS
<1>1. RestoreTypeOK'
  BY DEF RestoresInv, RestoreTypeOK, WorkerSaves
<1>2. ASSUME NEW v \in Restorable PROVE Whole(v)' /\ Untouched(v)' /\ Constructs(v)'
  <2>1. CASE v = w
    BY <2>1 DEF RestoresInv, RestoreTypeOK, Whole, Untouched, Constructs, Startable, Present, WorkerSaves
  <2>2. CASE v # w
    <3>1. Whole(v) /\ Untouched(v) /\ Constructs(v)
      BY DEF RestoresInv
    <3>2. /\ record'[v] = record[v] /\ stateFile'[v] = stateFile[v] /\ live'[v] = live[v]
          /\ lifecycle'[v] = lifecycle[v] /\ granted'[v] = granted[v] /\ request'[v] = request[v]
      BY <2>2 DEF RestoresInv, RestoreTypeOK, WorkerSaves
    <3> QED
      BY <3>1, <3>2 DEF Whole, Untouched, Constructs, Startable, Present
  <2> QED
    BY <2>1, <2>2
<1>3. ASSUME restorer # NoRestore PROVE RowInHand'
  <2> DEFINE u == restorer.uuid
  <2>1. RowInHand /\ u \in Restorable /\ restorer' = restorer
    BY <1>3 DEF RestoresInv, RestoreTypeOK, WorkerSaves
  <2>2. CASE u = w
    BY <2>1, <2>2 DEF RestoresInv, RestoreTypeOK, Whole, Untouched, Constructs, Startable, Present, RowInHand, AtStep, WorkerSaves
  <2>3. CASE u # w
    <3>1. /\ record'[u] = record[u] /\ stateFile'[u] = stateFile[u] /\ live'[u] = live[u]
          /\ lifecycle'[u] = lifecycle[u]
      BY <2>1, <2>3 DEF RestoresInv, RestoreTypeOK, WorkerSaves
    <3> QED
      BY <2>1, <3>1 DEF RowInHand, AtStep, Startable, Present
  <2> QED
    BY <2>2, <2>3
<1> QED
  BY <1>1, <1>2, <1>3 DEF RestoresInv, WorkerSaves

LEMMA BindRInv == ASSUME NEW w \in Restorable PROVE RestoresInv /\ Bind(w) => RestoresInv'
<1> SUFFICES ASSUME RestoresInv, Bind(w) PROVE RestoresInv'
  OBVIOUS
<1>1. RestoreTypeOK'
  BY DEF RestoresInv, RestoreTypeOK, Bind, Rows, RowStatuses
<1>2. ASSUME NEW v \in Restorable PROVE Whole(v)' /\ Untouched(v)' /\ Constructs(v)'
  <2>1. CASE v = w
    BY <2>1 DEF RestoresInv, RestoreTypeOK, Whole, Untouched, Constructs, Startable, Present, Bind, Rows, RowStatuses
  <2>2. CASE v # w
    <3>1. Whole(v) /\ Untouched(v) /\ Constructs(v)
      BY DEF RestoresInv
    <3>2. /\ record'[v] = record[v] /\ stateFile'[v] = stateFile[v] /\ live'[v] = live[v]
          /\ lifecycle'[v] = lifecycle[v] /\ granted'[v] = granted[v] /\ request'[v] = request[v]
      BY <2>2 DEF RestoresInv, RestoreTypeOK, Bind, Rows, RowStatuses
    <3> QED
      BY <3>1, <3>2 DEF Whole, Untouched, Constructs, Startable, Present
  <2> QED
    BY <2>1, <2>2
<1>3. ASSUME restorer # NoRestore PROVE RowInHand'
  <2> DEFINE u == restorer.uuid
  <2>1. RowInHand /\ u \in Restorable /\ restorer' = restorer
    BY <1>3 DEF RestoresInv, RestoreTypeOK, Bind
  <2>2. CASE u = w
    BY <2>1, <2>2 DEF RestoresInv, RestoreTypeOK, Whole, Untouched, Constructs, Startable, Present, RowInHand, AtStep, Bind, Rows, RowStatuses
  <2>3. CASE u # w
    <3>1. /\ record'[u] = record[u] /\ stateFile'[u] = stateFile[u] /\ live'[u] = live[u]
          /\ lifecycle'[u] = lifecycle[u]
      BY <2>1, <2>3 DEF RestoresInv, RestoreTypeOK, Bind, Rows, RowStatuses
    <3> QED
      BY <2>1, <3>1 DEF RowInHand, AtStep, Startable, Present
  <2> QED
    BY <2>2, <2>3
<1> QED
  BY <1>1, <1>2, <1>3 DEF RestoresInv, Bind

LEMMA ProcessDiesRInv == RestoresInv /\ ProcessDies => RestoresInv'
<1> SUFFICES ASSUME RestoresInv, ProcessDies PROVE RestoresInv'
  OBVIOUS
<1>1. RestoreTypeOK'
  BY DEF RestoresInv, RestoreTypeOK, ProcessDies
<1>2. ASSUME NEW v \in Restorable PROVE Whole(v)' /\ Untouched(v)' /\ Constructs(v)'
  BY DEF RestoresInv, Whole, Untouched, Constructs, Startable, Present, ProcessDies
<1> QED
  BY <1>1, <1>2 DEF RestoresInv, ProcessDies

LEMMA StutterRInv == RestoresInv /\ UNCHANGED restoreVars => RestoresInv'
BY DEF RestoresInv, RestoreTypeOK, Whole, Untouched, Constructs, Startable, Present, RowInHand, AtStep, restoreVars

-------------------------------------------------------------------------------
LEMMA StepRInv == RestoresInv /\ [RestoreNext]_restoreVars => RestoresInv'
<1> SUFFICES ASSUME RestoresInv, [RestoreNext]_restoreVars PROVE RestoresInv'
  OBVIOUS
<1>1. CASE BeginRestore
  BY <1>1, BeginRestoreRInv
<1>2. CASE RestoreStep
  BY <1>2, PreflightRInv, OwnTargetRInv, DrainTargetRInv, OverwriteRowRInv, InsertRowRInv, OwnNewRInv,
     InstallStateRInv, PromoteRowRInv, FenceRowRInv DEF RestoreStep
<1>3. ASSUME NEW w \in Restorable,
             BeginStart(w) \/ CommitStart(w) \/ StopRoute(w) \/ DeleteRoute(w) \/ WorkerSaves(w) \/ Bind(w)
      PROVE  RestoresInv'
  BY <1>3, BeginStartRInv, CommitStartRInv, StopRouteRInv, DeleteRouteRInv, WorkerSavesRInv, BindRInv
<1>4. CASE ProcessDies
  BY <1>4, ProcessDiesRInv
<1>5. CASE UNCHANGED restoreVars
  BY <1>5, StutterRInv
<1> QED
  BY <1>1, <1>2, <1>3, <1>4, <1>5 DEF RestoreNext

(* RestoreInv: the argument of this module is an invariant of every behaviour. *)
THEOREM RestoreInv == RestoreSpec => []RestoresInv
<1>1. RestoreInit => RestoresInv
  BY InitRInv
<1>2. RestoresInv /\ [RestoreNext]_restoreVars => RestoresInv'
  BY StepRInv
<1> QED
  BY <1>1, <1>2, PTL DEF RestoreSpec

(* RestoreTyped: the state of a restore has its type (backup/service.py). *)
THEOREM RestoreTyped == RestoreSpec => []RestoreTypeOK
<1>1. RestoresInv => RestoreTypeOK
  BY DEF RestoresInv
<1> QED
  BY <1>1, RestoreInv, PTL

(* RestoredIsWhole: whatever step of a restore fails or dies, and whatever
   starts, stops, deletions, saves and bindings come between, a bot that can be
   started has a state file of its configuration's origin or none, its instance
   runs its configuration, and no credential outlives a change of its identity
   (backup/service.py: restore_apply). *)
THEOREM RestoredIsWhole == RestoreSpec => []RestoredWhole
<1>1. RestoresInv => RestoredWhole
  BY DEF RestoresInv, RestoredWhole, Whole, Startable
<1> QED
  BY <1>1, RestoreInv, PTL
-----------------------------------------------------------------------------
(* Startup *)

\* Where the steps stand in a startup; no two have the same name.
LEMMA OrderIs ==
  /\ DOMAIN Order = 1..29
  /\ \A i, j \in 1..29 : Order[i] = Order[j] => i = j
  /\ \A i \in 1..29 : Order[i] \notin {"down", "root", "unlink"}
  /\ Head(Order) = Order[1]
  /\ Order[25] = "inventory" /\ Order[26] = "move" /\ Order[29] = "serving"
<1>1. Len(Order) = 29
  BY DEF Order, Migrations, ReleaseColumns, AgentColumns, IdentityColumns, UuidSteps, Seeds
<1>2. DOMAIN Order = 1..29
  BY <1>1 DEF Order, Migrations, ReleaseColumns, AgentColumns, IdentityColumns, UuidSteps, Seeds
<1>3. \A i, j \in 1..29 : Order[i] = Order[j] => i = j
  BY SMTT(60) DEF Order, Migrations, ReleaseColumns, AgentColumns, IdentityColumns, UuidSteps, Seeds
<1>4. \A i \in 1..29 : Order[i] \notin {"down", "root", "unlink"}
  BY SMTT(60) DEF Order, Migrations, ReleaseColumns, AgentColumns, IdentityColumns, UuidSteps, Seeds
<1>5. Head(Order) = Order[1]
  BY <1>1, <1>2 DEF Order, Migrations, ReleaseColumns, AgentColumns, IdentityColumns, UuidSteps, Seeds
<1>6. Order[25] = "inventory" /\ Order[26] = "move" /\ Order[29] = "serving"
  BY DEF Order, Migrations, ReleaseColumns, AgentColumns, IdentityColumns, UuidSteps, Seeds
<1>7. QED BY <1>2, <1>3, <1>4, <1>5, <1>6

\* The migrations are the first 24 of them, the seeds the two before the last.
LEMMA MigrationsAre ==
  /\ ThisRelease = {Order[i] : i \in 1..24}
  /\ Range(Migrations \o Seeds) = {Order[i] : i \in (1..24) \cup {27, 28}}
  /\ Range(Order) = {Order[i] : i \in 1..29}
  /\ Indexes \subseteq ThisRelease
<1>1. Range(Order) = {Order[i] : i \in 1..29}
  BY OrderIs DEF Range
<1>2. DOMAIN Migrations = 1..24 /\ DOMAIN (Migrations \o Seeds) = 1..26
  BY DEF Migrations, ReleaseColumns, AgentColumns, IdentityColumns, UuidSteps, Seeds
<1>3. \A i \in 1..24 : Migrations[i] = Order[i]
  BY SMTT(60) DEF Order, Migrations, ReleaseColumns, AgentColumns, IdentityColumns, UuidSteps, Seeds
<1>4. \A i \in 1..24 : (Migrations \o Seeds)[i] = Order[i]
  BY SMTT(60) DEF Order, Migrations, ReleaseColumns, AgentColumns, IdentityColumns, UuidSteps, Seeds
<1>5. (Migrations \o Seeds)[25] = Order[27] /\ (Migrations \o Seeds)[26] = Order[28]
  BY SMTT(60) DEF Order, Migrations, ReleaseColumns, AgentColumns, IdentityColumns, UuidSteps, Seeds
<1>6. Order[12] = "uuid_index" /\ Order[24] = "binding_index"
  BY SMTT(60) DEF Order, Migrations, ReleaseColumns, AgentColumns, IdentityColumns, UuidSteps, Seeds
<1>7. ThisRelease = {Order[i] : i \in 1..24}
  BY <1>2, <1>3 DEF ThisRelease, Range
<1>8. Range(Migrations \o Seeds) = {Order[i] : i \in (1..24) \cup {27, 28}}
  <2> DEFINE s == Migrations \o Seeds
  <2>1. Range(s) = {s[i] : i \in 1..26}
    BY <1>2 DEF Range
  <2>2. /\ \A i \in 1..24 : s[i] = Order[i]
        /\ s[25] = Order[27] /\ s[26] = Order[28]
    BY <1>4, <1>5
  <2> HIDE DEF s
  <2>3. \A i \in 1..26 : i \in 1..24 \/ i = 25 \/ i = 26
    OBVIOUS
  <2>4. \A x \in Range(s) : x \in {Order[i] : i \in (1..24) \cup {27, 28}}
    BY <2>1, <2>2, <2>3
  <2>5. \A i \in 1..24 : Order[i] \in Range(s)
    BY <2>1, <2>2
  <2>6. Order[27] \in Range(s) /\ Order[28] \in Range(s)
    BY <2>1, <2>2
  <2>7. QED BY <2>4, <2>5, <2>6 DEF s
<1>9. QED BY <1>1, <1>6, <1>7, <1>8 DEF Indexes

LEMMA AfterIs == ASSUME NEW i \in 1..28 PROVE After(Order[i]) = Order[i + 1]
<1>1. (CHOOSE k \in DOMAIN Order : Order[k] = Order[i]) = i
  BY OrderIs
<1>2. After(Order[i]) = Order[1 + i]
  BY <1>1 DEF After
<1>3. QED BY <1>2

Beyond(p) == stage[p] \notin {"down", "root"}

\* How far a process is, and what it has seen to by then.
Migrated(p) ==
  /\ \A i \in 1..29, j \in 1..24 : stage[p] = Order[i] /\ j < i => Order[j] \in schema
  /\ stage[p] = "unlink" => ThisRelease \subseteq schema
NothingLeft(p) ==
  \A i \in 27..29 : stage[p] = Order[i] => \A b \in Stores : ~ NeedsMigration(files[rootOf[p]][b])
NoConflict(p) == stage[p] \in {"move", "unlink"} => \A b \in Stores : files[rootOf[p]][b] # "conflict"

UInv ==
  /\ rootOf \in [Processes -> Roots] /\ stage \in [Processes -> Stages]
  /\ files \in [Roots -> [Stores -> Layouts]]
  /\ \A p \in Processes : /\ Beyond(p) => dbLock = p
                          /\ Migrated(p) /\ NothingLeft(p) /\ NoConflict(p)

Disk == [Roots -> [Stores -> Layouts]]

\* The database lock lets one process beyond the locks.
LEMMA AloneBeyond ==
  ASSUME UInv, NEW p \in Processes, Beyond(p)
  PROVE  dbLock = p /\ \A q \in Processes : q # p => ~ Beyond(q)
BY DEF UInv

\* That process takes a step: whoever waits has seen to nothing yet.
LEMMA Moves ==
  ASSUME UInv, NEW p \in Processes, Beyond(p), NEW s \in Stages, s \notin {"down", "root"},
         GoTo(p, s), UNCHANGED << rootOf, dbLock >>, files' \in Disk,
         Migrated(p)', NothingLeft(p)', NoConflict(p)'
  PROVE  UInv'
<1>1. stage' \in [Processes -> Stages] /\ stage'[p] = s /\ \A q \in Processes : q # p => stage'[q] = stage[q]
  BY DEF GoTo, UInv
<1>2. ASSUME NEW q \in Processes, q # p
      PROVE  ~ Beyond(q)' /\ Migrated(q)' /\ NothingLeft(q)' /\ NoConflict(q)'
  <2>1. stage'[q] \in {"down", "root"}
    BY <1>1, <1>2, AloneBeyond DEF Beyond
  <2>2. stage'[q] \notin {"move", "unlink"} /\ \A i \in 1..29 : stage'[q] # Order[i]
    BY <2>1, OrderIs
  <2>3. QED BY <2>1, <2>2 DEF Beyond, Migrated, NothingLeft, NoConflict
<1>3. dbLock' = p
  BY AloneBeyond
<1>4. QED BY <1>1, <1>2, <1>3 DEF UInv, Disk

\* A process exits, and takes nobody else's lock with it.
LEMMA Exits ==
  ASSUME UInv, NEW p \in Processes, Exit(p), UNCHANGED schema,
         files' \in Disk, UNCHANGED files \/ Beyond(p)
  PROVE  UInv'
<1>1. /\ stage' = [stage EXCEPT ![p] = "down"] /\ UNCHANGED rootOf
      /\ dbLock' = IF dbLock = p THEN NoProcess ELSE dbLock
  BY DEF Exit, GoTo
<1>2. /\ stage' \in [Processes -> Stages] /\ stage'[p] = "down"
      /\ \A q \in Processes : q # p => stage'[q] = stage[q]
  BY <1>1 DEF UInv, Stages
<1>3. ~ Beyond(p)' /\ Migrated(p)' /\ NothingLeft(p)' /\ NoConflict(p)'
  BY <1>2, OrderIs DEF Beyond, Migrated, NothingLeft, NoConflict
<1>4. ASSUME NEW q \in Processes, q # p
      PROVE  (Beyond(q)' => dbLock' = q) /\ Migrated(q)' /\ NothingLeft(q)' /\ NoConflict(q)'
  <2>1. stage'[q] = stage[q] /\ (Beyond(q) => dbLock = q)
    BY <1>2, <1>4 DEF UInv
  <2>2. Beyond(q)' => dbLock' = q
    BY <1>1, <1>4, <2>1 DEF Beyond
  <2>3. CASE UNCHANGED files
    BY <1>1, <2>1, <2>2, <2>3 DEF UInv, Migrated, NothingLeft, NoConflict
  <2>4. CASE Beyond(p)
    <3>1. stage'[q] \in {"down", "root"}
      BY <1>4, <2>1, <2>4, AloneBeyond DEF Beyond
    <3>2. stage'[q] \notin {"move", "unlink"} /\ \A i \in 1..29 : stage'[q] # Order[i]
      BY <3>1, OrderIs
    <3>3. QED BY <2>2, <3>1, <3>2 DEF Migrated, NothingLeft, NoConflict
  <2>5. QED BY <2>3, <2>4
<1>5. QED BY <1>1, <1>2, <1>3, <1>4 DEF UInv, Disk

\* A process before the locks is at no step of the order, and has nothing to show.
LEMMA LocksUInv ==
  ASSUME UInv, NEW p \in Processes, AcquireStateStoreOwnership(p) \/ AcquireDatabaseOwnership(p)
  PROVE  UInv'
<1> DEFINE Moved(s) == GoTo(p, s) /\ UNCHANGED << rootOf, schema, files >>
<1>1. ~ Beyond(p) /\ stage[p] \in {"down", "root"}
  BY DEF AcquireStateStoreOwnership, AcquireDatabaseOwnership, Beyond
<1>2. ASSUME NEW s \in Stages, Moved(s) PROVE
        /\ stage' \in [Processes -> Stages] /\ stage'[p] = s
        /\ \A q \in Processes : q # p =>
             stage'[q] = stage[q] /\ Migrated(q)' /\ NothingLeft(q)' /\ NoConflict(q)'
  <2>1. stage' \in [Processes -> Stages] /\ stage'[p] = s /\ \A q \in Processes : q # p => stage'[q] = stage[q]
    BY <1>2 DEF GoTo, UInv
  <2>2. QED BY <1>2, <2>1 DEF UInv, Migrated, NothingLeft, NoConflict
<1>3. CASE AcquireStateStoreOwnership(p)
  <2>1. Moved("root") /\ "root" \in Stages /\ UNCHANGED dbLock
    BY <1>3 DEF AcquireStateStoreOwnership, Stages
  <2>2. stage'[p] = "root"
    BY <1>2, <2>1
  <2>3. ~ Beyond(p)' /\ Migrated(p)' /\ NothingLeft(p)' /\ NoConflict(p)'
    BY <2>2, OrderIs DEF Beyond, Migrated, NothingLeft, NoConflict
  <2>4. QED BY <1>2, <2>1, <2>3 DEF UInv, Beyond
<1>4. CASE AcquireDatabaseOwnership(p)
  <2>1. CASE Exit(p)
    BY <1>4, <2>1, Exits DEF AcquireDatabaseOwnership, UInv, Disk
  <2>2. CASE dbLock = NoProcess /\ dbLock' = p /\ GoTo(p, Head(Order)) /\ UNCHANGED rootOf
    <3>1. Head(Order) = Order[1] /\ Order[1] \in Stages /\ Moved(Order[1])
      BY <1>4, <2>2, OrderIs, MigrationsAre DEF AcquireDatabaseOwnership, Stages
    <3>2. \A q \in Processes : ~ Beyond(q)
      BY <2>2, StartupAssumption DEF UInv
    <3>3. stage'[p] = Order[1]
      BY <1>2, <3>1
    <3>4. Migrated(p)' /\ NothingLeft(p)' /\ NoConflict(p)'
      BY <3>3, OrderIs DEF Migrated, NothingLeft, NoConflict
    <3>5. QED BY <1>2, <2>2, <3>1, <3>2, <3>4 DEF UInv, Beyond
  <2>3. QED BY <1>4, <2>1, <2>2 DEF AcquireDatabaseOwnership
<1>5. QED BY <1>3, <1>4

\* A migration or a seed is done, or was done before, and the next step begins.
LEMMA NextStep ==
  ASSUME UInv, NEW p \in Processes, NEW k \in (1..24) \cup {27, 28}, stage[p] = Order[k],
         schema' = schema \cup {stage[p]}, GoTo(p, After(stage[p])), UNCHANGED << locks, files >>
  PROVE  UInv'
<1>1. After(stage[p]) = Order[k + 1] /\ k + 1 \in 1..29
  BY AfterIs
<1>2. Order[k + 1] \in Stages /\ Order[k + 1] \notin {"down", "root"} /\ Beyond(p)
  BY <1>1, OrderIs, MigrationsAre DEF Stages, Beyond
<1>3. stage'[p] = Order[k + 1]
  BY <1>1 DEF GoTo, UInv
<1>4. \A i \in 1..29 : stage'[p] = Order[i] => i = k + 1
  BY <1>1, <1>3, OrderIs
<1>5. \A j \in 1..24 : j < k + 1 => Order[j] \in schema'
  <2>1. \A j \in 1..24 : j < k => Order[j] \in schema
    BY DEF UInv, Migrated
  <2>2. Order[k] \in schema'
    OBVIOUS
  <2>3. QED BY <2>1, <2>2
<1>6. stage'[p] \notin {"move", "unlink"}
  BY <1>1, <1>3, <1>4, OrderIs
<1>7. Migrated(p)' /\ NoConflict(p)'
  BY <1>4, <1>5, <1>6 DEF Migrated, NoConflict
<1>8. NothingLeft(p)'
  <2>1. k + 1 \in 27..29 => k \in 27..29
    OBVIOUS
  <2>2. k \in 27..29 => \A b \in Stores : ~ NeedsMigration(files[rootOf[p]][b])
    BY DEF UInv, NothingLeft
  <2>3. QED BY <1>4, <2>1, <2>2 DEF NothingLeft, locks
<1>9. QED BY <1>1, <1>2, <1>7, <1>8, Moves DEF UInv, Disk, locks

LEMMA MigrateUInv ==
  ASSUME UInv, NEW p \in Processes, AddIfMissing(p) \/ BuildIndex(p) PROVE UInv'
<1>1. CASE AddIfMissing(p)
  <2>1. PICK k \in (1..24) \cup {27, 28} : stage[p] = Order[k]
    BY <1>1, MigrationsAre DEF AddIfMissing
  <2>2. QED BY <1>1, <2>1, NextStep DEF AddIfMissing
<1>2. CASE BuildIndex(p)
  <2>1. PICK k \in 1..24 : stage[p] = Order[k]
    BY <1>2, MigrationsAre DEF BuildIndex
  <2>2. CASE Exit(p) /\ UNCHANGED schema
    BY <1>2, <2>2, Exits DEF BuildIndex, UInv, Disk
  <2>3. CASE schema' = schema \cup {stage[p]} /\ GoTo(p, After(stage[p])) /\ UNCHANGED locks
    BY <1>2, <2>1, <2>3, NextStep DEF BuildIndex
  <2>4. QED BY <1>2, <2>2, <2>3 DEF BuildIndex
<1>3. QED BY <1>1, <1>2

\* Where the files are moved, all migrations are done.
LEMMA AtTheMove ==
  ASSUME UInv, NEW p \in Processes, stage[p] \in {"inventory", "move", "unlink"}
  PROVE  Beyond(p) /\ ThisRelease \subseteq schema
<1>1. CASE stage[p] = "unlink"
  BY <1>1 DEF UInv, Migrated, Beyond
<1>2. ASSUME NEW i \in {25, 26}, stage[p] = Order[i] PROVE Beyond(p) /\ ThisRelease \subseteq schema
  <2>1. \A j \in 1..24 : Order[j] \in schema
    BY <1>2 DEF UInv, Migrated
  <2>2. QED BY <1>2, <2>1, OrderIs, MigrationsAre DEF Beyond
<1>3. QED BY <1>1, <1>2, OrderIs

LEMMA BeginMove ==
  ASSUME UInv, NEW p \in Processes, NEW s \in {"move", "unlink"}, ThisRelease \subseteq schema, Beyond(p),
         GoTo(p, s), UNCHANGED << rootOf, dbLock, schema >>, files' \in Disk,
         \A b \in Stores : files'[rootOf[p]][b] # "conflict"
  PROVE  UInv'
<1>1. stage'[p] = s /\ s \in Stages /\ s \notin {"down", "root"}
  BY OrderIs, MigrationsAre DEF GoTo, UInv, Stages
<1>2. \A i \in 27..29 : stage'[p] # Order[i]
  BY <1>1, OrderIs
<1>3. \A j \in 1..24 : Order[j] \in schema
  BY MigrationsAre
<1>4. Migrated(p)' /\ NothingLeft(p)' /\ NoConflict(p)'
  BY <1>1, <1>2, <1>3 DEF Migrated, NothingLeft, NoConflict
<1>5. QED BY <1>1, <1>4, Moves

LEMMA InventoryUInv == ASSUME UInv, NEW p \in Processes, Inventory(p) PROVE UInv'
<1>1. Beyond(p) /\ ThisRelease \subseteq schema /\ files' \in Disk
  BY AtTheMove DEF Inventory, UInv, Disk
<1>2. CASE Exit(p)
  BY <1>1, <1>2, Exits DEF Inventory
<1>3. CASE /\ \A b \in {b \in Stores : NeedsMigration(files[rootOf[p]][b])} : Movable(files[rootOf[p]][b])
           /\ GoTo(p, "move") /\ UNCHANGED locks
  <2>1. \A b \in Stores : files[rootOf[p]][b] # "conflict"
    BY <1>3 DEF NeedsMigration, Movable
  <2>2. QED BY <1>1, <1>3, <2>1, BeginMove DEF Inventory, locks
<1>4. QED BY <1>2, <1>3 DEF Inventory

\* One bot's file is somewhere else, or under another name.
LEMMA OneFile ==
  ASSUME UInv, NEW p \in Processes, NEW b, NEW l \in Layouts,
         files' = [files EXCEPT ![rootOf[p]][b] = l]
  PROVE  /\ files' \in Disk /\ rootOf[p] \in Roots
         /\ \A r \in Roots, a \in Stores : files'[r][a] = files[r][a] \/ files'[r][a] = l
<1> DEFINE old == files[rootOf[p]]
           row == [old EXCEPT ![b] = l]
<1>1. rootOf[p] \in Roots /\ old \in [Stores -> Layouts]
  BY DEF UInv
<1>2. row \in [Stores -> Layouts] /\ \A a \in Stores : row[a] = old[a] \/ row[a] = l
  BY <1>1
<1>3. files' = [files EXCEPT ![rootOf[p]] = row]
  OBVIOUS
<1> HIDE DEF row, old
<1>4. files \in Disk
  BY DEF UInv, Disk
<1>5. /\ files' \in Disk /\ files'[rootOf[p]] = row
      /\ \A r \in Roots : r # rootOf[p] => files'[r] = files[r]
  BY <1>1, <1>2, <1>3, <1>4 DEF Disk
<1>6. \A r \in Roots, a \in Stores : files'[r][a] = files[r][a] \/ files'[r][a] = l
  BY <1>2, <1>5 DEF old
<1>7. QED BY <1>1, <1>5, <1>6

LEMMA MoveUInv == ASSUME UInv, NEW p \in Processes, Link(p) \/ Unlink(p) PROVE UInv'
<1>1. /\ Beyond(p) /\ ThisRelease \subseteq schema
      /\ \A b \in Stores : files[rootOf[p]][b] # "conflict"
  BY AtTheMove DEF Link, Unlink, UInv, NoConflict
<1>2. CASE Link(p)
  <2>1. CASE Exit(p) /\ UNCHANGED files
    BY <1>2, <2>1, Exits DEF Link, UInv, Disk
  <2>2. ASSUME NEW b, files' = [files EXCEPT ![rootOf[p]][b] = "copy"],
               GoTo(p, "unlink"), UNCHANGED locks
        PROVE  UInv'
    <3>1. "copy" \in Layouts
      BY DEF Layouts
    <3>2. /\ files' \in Disk /\ rootOf[p] \in Roots
          /\ \A r \in Roots, a \in Stores : files'[r][a] = files[r][a] \/ files'[r][a] = "copy"
      BY <2>2, <3>1, OneFile
    <3>3. \A a \in Stores : files'[rootOf[p]][a] # "conflict"
      BY <1>1, <3>2
    <3>4. QED BY <1>1, <1>2, <2>2, <3>2, <3>3, BeginMove DEF Link, locks
  <2>3. QED BY <1>1, <1>2, <2>1, <2>2 DEF Link
<1>3. CASE Unlink(p)
  <2>1. ASSUME NEW b, files' = [files EXCEPT ![rootOf[p]][b] = "legacy"], Exit(p) PROVE UInv'
    <3>1. "legacy" \in Layouts
      BY DEF Layouts
    <3>2. files' \in Disk
      BY <2>1, <3>1, OneFile
    <3>3. QED BY <1>1, <1>3, <2>1, <3>2, Exits DEF Unlink
  <2>2. ASSUME NEW b, files' = [files EXCEPT ![rootOf[p]][b] = "canonical"],
               GoTo(p, "move"), UNCHANGED locks
        PROVE  UInv'
    <3>1. "canonical" \in Layouts
      BY DEF Layouts
    <3>2. /\ files' \in Disk /\ rootOf[p] \in Roots
          /\ \A r \in Roots, a \in Stores : files'[r][a] = files[r][a] \/ files'[r][a] = "canonical"
      BY <2>2, <3>1, OneFile
    <3>3. \A a \in Stores : files'[rootOf[p]][a] # "conflict"
      BY <1>1, <3>2
    <3>4. QED BY <1>1, <1>3, <2>2, <3>2, <3>3, BeginMove DEF Unlink, locks
  <2>3. QED BY <1>1, <1>3, <2>1, <2>2 DEF Unlink
<1>4. QED BY <1>2, <1>3

LEMMA ReadyUInv == ASSUME UInv, NEW p \in Processes, AssertStateStoreReady(p) PROVE UInv'
<1>1. Beyond(p) /\ ThisRelease \subseteq schema /\ files' \in Disk /\ stage[p] = Order[26]
  BY AtTheMove, OrderIs DEF AssertStateStoreReady, UInv, Disk
<1>2. CASE Exit(p)
  BY <1>1, <1>2, Exits DEF AssertStateStoreReady
<1>3. CASE /\ \A b \in Stores : ~ NeedsMigration(files[rootOf[p]][b])
           /\ GoTo(p, After("move")) /\ UNCHANGED locks
  <2>1. After("move") = Order[27]
    BY OrderIs, AfterIs
  <2>2. stage'[p] = Order[27] /\ Order[27] \in Stages /\ Order[27] \notin {"down", "root", "move", "unlink"}
    BY <1>3, <2>1, OrderIs, MigrationsAre DEF GoTo, UInv, Stages
  <2>3. \A j \in 1..24 : Order[j] \in schema
    BY <1>1, MigrationsAre
  <2>4. Migrated(p)' /\ NothingLeft(p)' /\ NoConflict(p)'
    BY <1>3, <2>2, <2>3 DEF AssertStateStoreReady, Migrated, NothingLeft, NoConflict, locks
  <2>5. QED BY <1>1, <1>3, <2>1, <2>2, <2>4, Moves DEF locks
<1>4. QED BY <1>2, <1>3 DEF AssertStateStoreReady

LEMMA SaveUInv == ASSUME UInv, NEW p \in Processes, Save(p) PROVE UInv'
<1>1. PICK b \in Stores : files' = [files EXCEPT ![rootOf[p]][b] = "canonical"]
  BY DEF Save
<1>2. /\ stage[p] = Order[29] /\ Beyond(p) /\ stage[p] \in Stages
      /\ stage[p] \notin {"down", "root", "move", "unlink"}
      /\ \A a \in Stores : ~ NeedsMigration(files[rootOf[p]][a])
  BY OrderIs DEF Save, Beyond, UInv, NothingLeft
<1>3. UNCHANGED << rootOf, dbLock, stage, schema >> /\ GoTo(p, stage[p])
  BY DEF Save, locks, GoTo, UInv
<1>4. /\ files' \in Disk
      /\ \A a \in Stores : ~ NeedsMigration(files'[rootOf[p]][a])
  <2>1. "canonical" \in Layouts /\ ~ NeedsMigration("canonical")
    BY DEF Layouts, NeedsMigration
  <2>2. /\ files' \in Disk /\ rootOf[p] \in Roots
        /\ \A r \in Roots, a \in Stores : files'[r][a] = files[r][a] \/ files'[r][a] = "canonical"
    BY <1>1, <2>1, OneFile
  <2>3. QED BY <1>2, <2>1, <2>2
<1>5. Migrated(p)' /\ NothingLeft(p)' /\ NoConflict(p)'
  BY <1>2, <1>3, <1>4 DEF UInv, Migrated, NothingLeft, NoConflict
<1>6. QED BY <1>2, <1>3, <1>4, <1>5, Moves

LEMMA StepUInv == UInv /\ [StartupNext]_startupVars => UInv'
<1> SUFFICES ASSUME UInv, [StartupNext]_startupVars PROVE UInv'
  OBVIOUS
<1>1. CASE UNCHANGED startupVars
  BY <1>1 DEF startupVars, UInv, Beyond, Migrated, NothingLeft, NoConflict
<1>2. ASSUME NEW p \in Processes, Die(p) PROVE UInv'
  BY <1>2, Exits DEF Die, UInv, Disk
<1>3. ASSUME NEW p \in Processes,
             \/ AcquireStateStoreOwnership(p) \/ AcquireDatabaseOwnership(p)
             \/ AddIfMissing(p) \/ BuildIndex(p) \/ Inventory(p) \/ Link(p) \/ Unlink(p)
             \/ AssertStateStoreReady(p) \/ Save(p)
      PROVE  UInv'
  BY <1>3, LocksUInv, MigrateUInv, InventoryUInv, MoveUInv, ReadyUInv, SaveUInv
<1>4. QED BY <1>1, <1>2, <1>3 DEF StartupNext

\* A file is moved, or saved, but not taken away.
LEMMA StepKeepsState ==
  ASSUME UInv, [StartupNext]_startupVars, NEW r \in Roots, NEW b \in Stores, files[r][b] # "none"
  PROVE  files'[r][b] # "none"
<1>1. CASE UNCHANGED files
  BY <1>1
<1>2. ASSUME NEW p \in Processes, NEW a, NEW l \in {"copy", "canonical", "legacy"},
             files' = [files EXCEPT ![rootOf[p]][a] = l]
      PROVE  files'[r][b] # "none"
  BY <1>2, OneFile DEF Layouts
<1>3. ASSUME NEW p \in Processes, Link(p) \/ Unlink(p) PROVE files'[r][b] # "none"
  BY <1>1, <1>2, <1>3 DEF Link, Unlink
<1>4. ASSUME NEW p \in Processes, Save(p) PROVE files'[r][b] # "none"
  BY <1>2, <1>4 DEF Save
<1>5. ASSUME NEW p \in Processes,
             \/ AcquireStateStoreOwnership(p) \/ AcquireDatabaseOwnership(p)
             \/ AddIfMissing(p) \/ BuildIndex(p) \/ Inventory(p) \/ AssertStateStoreReady(p) \/ Die(p)
      PROVE  UNCHANGED files
  BY <1>5 DEF AcquireStateStoreOwnership, AcquireDatabaseOwnership, AddIfMissing, BuildIndex, Inventory,
     AssertStateStoreReady, Die
<1>6. QED BY <1>1, <1>3, <1>4, <1>5 DEF StartupNext, startupVars

LEMMA InitUInv == StartupInit => UInv
<1> SUFFICES ASSUME StartupInit PROVE UInv
  OBVIOUS
<1>1. /\ \A p \in Processes : stage[p] = "down"
      /\ stage \in [Processes -> Stages] /\ files \in [Roots -> [Stores -> Layouts]]
      /\ rootOf \in [Processes -> Roots]
  BY StartupAssumption DEF StartupInit, Stages
<1>2. \A p \in Processes : ~ Beyond(p) /\ Migrated(p) /\ NothingLeft(p) /\ NoConflict(p)
  BY <1>1, OrderIs DEF Beyond, Migrated, NothingLeft, NoConflict
<1>3. QED BY <1>1, <1>2 DEF UInv

LEMMA AllServeAlone == UInv => \A p \in Processes : ServesAlone(p)
<1> SUFFICES ASSUME UInv, NEW p \in Processes PROVE ServesAlone(p)
  OBVIOUS
<1>1. ASSUME stage[p] = "serving" PROVE
        /\ ThisRelease \subseteq schema
        /\ \A b \in Stores : ~ NeedsMigration(files[rootOf[p]][b])
        /\ \A q \in Processes \ {p} : stage[q] \in {"down", "root"}
  <2>1. stage[p] = Order[29] /\ Beyond(p)
    BY <1>1, OrderIs DEF Beyond
  <2>2. \A j \in 1..24 : Order[j] \in schema
    BY <2>1 DEF UInv, Migrated
  <2>3. QED BY <2>1, <2>2, MigrationsAre, AloneBeyond DEF UInv, NothingLeft, Beyond
<1>2. stage[p] \in {"move", "unlink"} => \A b \in Stores : files[rootOf[p]][b] # "conflict"
  BY DEF UInv, NoConflict
<1>3. QED BY <1>1, <1>2 DEF ServesAlone

(* StartupIsSafe: however many processes are started over one database, on
   whatever release and layouts they find it, and wherever they die, a process
   that serves is alone with its database, on the whole schema of this release,
   with no saved state under another name; no file is moved in a deployment that
   has a conflict; and no bot's saved state is ever gone (main.py: lifespan;
   state_ownership.py; state_migration.py). *)
THEOREM StartupIsSafe == StartupSpec => StartsSafely
<1> DEFINE A == \A r \in Roots, b \in Stores : files[r][b] # "none" => files'[r][b] # "none"
           O == \A p \in Processes : ServesAlone(p)
<1>1. StartupInit => UInv
  BY InitUInv
<1>2. UInv /\ [StartupNext]_startupVars => UInv'
  BY StepUInv
<1>3. UInv => O
  BY AllServeAlone
<1>4. UInv /\ [StartupNext]_startupVars => [A]_startupVars
  BY StepKeepsState
<1> HIDE DEF A, O
<1>5. StartupSpec => []UInv
  BY <1>1, <1>2, PTL DEF StartupSpec
<1>6. StartupSpec => [][A]_startupVars
  BY <1>4, <1>5, PTL DEF StartupSpec
<1>7. StartupSpec => SavedStateKept
  BY <1>6 DEF SavedStateKept, A
<1>8. StartupSpec => []O
  BY <1>3, <1>5, PTL
<1> QED
  BY <1>7, <1>8 DEF StartsSafely, O

\* What the typing adds to UInv: the locks, what is left to move, and the schema.
LocksTyped ==
  /\ rootLock \in [Roots -> Processes \cup {NoProcess}]
  /\ dbLock \in Processes \cup {NoProcess}
  /\ plan \in [Processes -> SUBSET Stores]
  /\ schema \subseteq Range(Migrations \o Seeds)
  /\ unfit \subseteq Indexes

LEMMA InitLocksTyped == ASSUME StartupInit PROVE LocksTyped
<1>1. schema \subseteq Range(Migrations \o Seeds)
  BY StartupAssumption, MigrationsAre DEF StartupInit
<1>2. QED BY <1>1 DEF StartupInit, LocksTyped

LEMMA ExitLocksTyped ==
  ASSUME LocksTyped, NEW p \in Processes, Exit(p), UNCHANGED << schema, unfit >>
  PROVE  LocksTyped'
<1>1. rootLock' \in [Roots -> Processes \cup {NoProcess}]
  BY DEF Exit, LocksTyped
<1>2. plan' \in [Processes -> SUBSET Stores]
  BY DEF Exit, LocksTyped
<1>3. dbLock' \in Processes \cup {NoProcess}
  BY DEF Exit, LocksTyped
<1>4. QED BY <1>1, <1>2, <1>3 DEF LocksTyped

LEMMA StepLocksTyped ==
  ASSUME UInv, LocksTyped, [StartupNext]_startupVars
  PROVE  LocksTyped'
<1>1. CASE UNCHANGED startupVars
  BY <1>1 DEF startupVars, LocksTyped
<1>2. ASSUME NEW p \in Processes, AcquireStateStoreOwnership(p) PROVE LocksTyped'
  BY <1>2 DEF AcquireStateStoreOwnership, LocksTyped
<1>3. ASSUME NEW p \in Processes, AcquireDatabaseOwnership(p) PROVE LocksTyped'
  BY <1>3, ExitLocksTyped DEF AcquireDatabaseOwnership, LocksTyped
<1>4. ASSUME NEW p \in Processes, AddIfMissing(p) PROVE LocksTyped'
  BY <1>4 DEF AddIfMissing, locks, LocksTyped
<1>5. ASSUME NEW p \in Processes, BuildIndex(p) PROVE LocksTyped'
  <2>1. CASE stage[p] \in unfit
    BY <1>5, <2>1, ExitLocksTyped DEF BuildIndex
  <2>2. CASE stage[p] \notin unfit
    <3>1. \A i \in Indexes : i \in Range(Migrations \o Seeds)
      BY MigrationsAre
    <3>2. schema' \subseteq Range(Migrations \o Seeds)
      BY <1>5, <2>2, <3>1 DEF BuildIndex, LocksTyped
    <3>3. QED BY <1>5, <2>2, <3>2 DEF BuildIndex, locks, LocksTyped
  <2>3. QED BY <2>1, <2>2
<1>6. ASSUME NEW p \in Processes, Inventory(p) PROVE LocksTyped'
  BY <1>6, ExitLocksTyped DEF Inventory, locks, LocksTyped
<1>7. ASSUME NEW p \in Processes, Link(p) PROVE LocksTyped'
  BY <1>7, ExitLocksTyped DEF Link, locks, LocksTyped
<1>8. ASSUME NEW p \in Processes, Unlink(p) PROVE LocksTyped'
  <2>1. PICK b \in plan[p] :
          \/ plan' = [plan EXCEPT ![p] = @ \ {b}] /\ UNCHANGED locks
          \/ Exit(p)
    BY <1>8 DEF Unlink
  <2>2. UNCHANGED << schema, unfit >>
    BY <1>8 DEF Unlink
  <2>3. QED BY <2>1, <2>2, ExitLocksTyped DEF locks, LocksTyped
<1>9. ASSUME NEW p \in Processes, AssertStateStoreReady(p) \/ Save(p) \/ Die(p) PROVE LocksTyped'
  BY <1>9, ExitLocksTyped DEF AssertStateStoreReady, Save, Die, locks, LocksTyped
<1>10. QED BY <1>1, <1>2, <1>3, <1>4, <1>5, <1>6, <1>7, <1>8, <1>9 DEF StartupNext

(***************************************************************************)
(* StartupTyped: locks, steps, plans, schema and files have their types    *)
(* through every startup, failure and death (main.py, state_ownership.py). *)
(***************************************************************************)
THEOREM StartupTyped == StartupSpec => []StartupTypeOK
<1>1. StartupInit => UInv /\ LocksTyped
  BY InitUInv, InitLocksTyped
<1>2. UInv /\ LocksTyped /\ [StartupNext]_startupVars => (UInv /\ LocksTyped)'
  BY StepUInv, StepLocksTyped
<1>3. UInv /\ LocksTyped => StartupTypeOK
  BY DEF UInv, LocksTyped, StartupTypeOK
<1>4. QED BY <1>1, <1>2, <1>3, PTL DEF StartupSpec

LEMMA UntilNextBounded ==
  ASSUME TimerTypeOK PROVE UntilNext \in 0..24
<1>1. settings.auto \in BOOLEAN /\ settings.at \in 0..23 /\ hour \in 0..23
  BY BackupTimerAssumption DEF TimerTypeOK, Settings
<1>2. (settings.at - hour) % 24 \in 0..23
  BY <1>1
<1>3. QED BY <1>1, <1>2 DEF UntilNext

(* The backup thread sleeps for a day at most, and what it and the admins     *)
(* write has its type (backup/scheduler.py).                                  *)
THEOREM TimerTyped == TimerSpec => []TimerTypeOK
<1>1. TimerInit => TimerTypeOK
  <2> SUFFICES ASSUME TimerInit PROVE TimerTypeOK
    OBVIOUS
  <2>1. hour \in 0..23 /\ edits \in 0..MaxSettings /\ MaxAge \in 0..MaxAge
    BY BackupTimerAssumption DEF TimerInit
  <2>2. timer \in Waits
    BY DEF TimerInit, Waits
  <2>3. QED BY <2>1, <2>2 DEF TimerInit, TimerTypeOK
<1>2. TimerTypeOK /\ [TimerNext]_timerVars => TimerTypeOK'
  <2> SUFFICES ASSUME TimerTypeOK, [TimerNext]_timerVars PROVE TimerTypeOK'
    OBVIOUS
  <2>1. CASE Decide
    BY <2>1, UntilNextBounded DEF Decide, TimerTypeOK, Waits
  <2>2. CASE WakeUp \/ Skip
    <3>1. timer' \in Waits
      BY <2>2 DEF WakeUp, Skip, Waits
    <3>2. reloaded' \in BOOLEAN
      BY <2>2 DEF WakeUp, Skip, TimerTypeOK
    <3>3. QED BY <2>2, <3>1, <3>2 DEF WakeUp, Skip, TimerTypeOK
  <2>3. CASE Attempt \/ TriggerBackup
    <3>1. lastRun' \in [status : {"never", "success", "failed"}, age : 0..MaxAge]
      BY <2>3, BackupTimerAssumption DEF Attempt, TriggerBackup, RunBackup, TimerTypeOK
    <3>2. edits' \in 0..MaxSettings
      BY <2>3, BackupTimerAssumption DEF Attempt, TriggerBackup, TimerTypeOK
    <3>3. QED BY <2>3, <3>1, <3>2 DEF Attempt, TriggerBackup, TimerTypeOK, Waits
  <2>4. CASE UpdateSettings
    BY <2>4, BackupTimerAssumption DEF UpdateSettings, TimerTypeOK
  <2>5. CASE HourPasses
    <3>1. hour' \in 0..23
      BY <2>5 DEF HourPasses, TimerTypeOK
    <3>2. lastRun' \in [status : {"never", "success", "failed"}, age : 0..MaxAge]
      BY <2>5, BackupTimerAssumption DEF HourPasses, TimerTypeOK
    <3>3. timer.at = "asleep" /\ timer' \in Waits
      BY <2>5 DEF HourPasses, TimerTypeOK, Waits
    <3>4. QED BY <2>5, <3>1, <3>2, <3>3 DEF HourPasses, TimerTypeOK
  <2>6. CASE UNCHANGED timerVars
    BY <2>6 DEF timerVars, TimerTypeOK
  <2>7. QED BY <2>1, <2>2, <2>3, <2>4, <2>5, <2>6 DEF TimerNext
<1>3. QED BY <1>1, <1>2, PTL DEF TimerSpec

-----------------------------------------------------------------------------
(***************************************************************************)
(* Broadcasts.                                                             *)
(***************************************************************************)
SeenRows == [bot : Casters, group : Audience, revision : Nat]
TargetRows == [bot : Casters, group : Audience, revision : Nat, status : TargetStatus]
PostRows == [job : Jobs, group : Audience, by : Casters \X Nat]

BroadcastTyped ==
  /\ revision \in [Casters -> Nat]
  /\ activity \in Seq(SeenRows)
  /\ status \in [Jobs -> {"none", "draft", "queued", "running", "completed"}]
  /\ queue \in Seq(Jobs)
  /\ targets \in [Jobs -> Seq(TargetRows)]
  /\ attempt = NoWork \/ attempt \in Attempts
  /\ posts \in Seq(PostRows)

\* The posts of a broadcast to a group.
PostsOf(j, g) == {i \in DOMAIN posts : posts[i].job = j /\ posts[i].group = g}
AtMostOne(P) == \A p, q \in P : p = q
ExactlyOne(P) == \E p : P = {p}

\* What the status of a recipient says of its posts.
TrueOf(s, P) ==
  /\ s \in {"pending", "skipped"} => P = {}
  /\ s = "accepted" => ExactlyOne(P)
  /\ AtMostOne(P)

\* The rows of a broadcast are of different groups, and each is true; there are none
\* before the preview.
RowsSound ==
  \A j \in Jobs :
    /\ status[j] = "none" => targets[j] = << >>
    /\ \A i, k \in DOMAIN targets[j] : targets[j][i].group = targets[j][k].group => i = k
    /\ \A i \in DOMAIN targets[j] : TrueOf(targets[j][i].status, PostsOf(j, targets[j][i].group))

\* The recipient in hand is marked, nothing was posted to it before the post, and
\* its outcome is true of it.
AttemptSound ==
  attempt # NoWork =>
    /\ attempt.target \in DOMAIN targets[attempt.job]
    /\ InHand.status = "sending"
    /\ attempt.at \in {"marked", "leased"} => PostsOf(attempt.job, InHand.group) = {}
    /\ attempt.at = "leased" => revision[InHand.bot] = InHand.revision
    /\ attempt.at = "attempted" => /\ attempt.outcome # "none"
                                   /\ TrueOf(attempt.outcome, PostsOf(attempt.job, InHand.group))

\* Each post is to a recipient, by the bot that the preview named.
PostsSound ==
  \A i \in DOMAIN posts : \E k \in DOMAIN targets[posts[i].job] :
    /\ targets[posts[i].job][k].group = posts[i].group
    /\ posts[i].by = << targets[posts[i].job][k].bot, targets[posts[i].job][k].revision >>

BroadcastInv == BroadcastTyped /\ RowsSound /\ AttemptSound /\ PostsSound

LEMMA BroadcastInitTrue == BroadcastInit => BroadcastInv
<1> SUFFICES ASSUME BroadcastInit PROVE BroadcastInv
  OBVIOUS
<1>1. BroadcastTyped
  BY DEF BroadcastInit, BroadcastTyped
<1>2. RowsSound
  BY DEF BroadcastInit, RowsSound
<1>3. AttemptSound /\ PostsSound
  BY DEF BroadcastInit, AttemptSound, PostsSound
<1>4. QED BY <1>1, <1>2, <1>3 DEF BroadcastInv

LEMMA InHandTyped ==
  ASSUME BroadcastInv, attempt # NoWork
  PROVE  /\ attempt \in Attempts /\ attempt.job \in Jobs
         /\ attempt.target \in DOMAIN targets[attempt.job]
         /\ InHand \in TargetRows
<1>1. attempt \in Attempts
  BY DEF BroadcastInv, BroadcastTyped
<1>2. attempt.job \in Jobs
  BY <1>1 DEF Attempts
<1>3. attempt.target \in DOMAIN targets[attempt.job]
  BY DEF BroadcastInv, AttemptSound
<1>4. targets[attempt.job] \in Seq(TargetRows)
  BY <1>2 DEF BroadcastInv, BroadcastTyped
<1>5. QED BY <1>1, <1>2, <1>3, <1>4 DEF InHand

\* Steps that neither send nor touch a broadcast, and keep the bot in hand.
LEMMA BotsChange ==
  ASSUME BroadcastInv, UNCHANGED << status, queue, targets, attempt, posts >>,
         activity' \in Seq(SeenRows), revision' \in [Casters -> Nat],
         \A b \in Casters : HeldByWorker(b) => revision'[b] = revision[b]
  PROVE  BroadcastInv'
<1>1. BroadcastTyped'
  BY DEF BroadcastInv, BroadcastTyped
<1>0. \A j, g : PostsOf(j, g)' = PostsOf(j, g)
  BY DEF PostsOf
<1>2. RowsSound'
  BY <1>0 DEF BroadcastInv, RowsSound
<1>3. PostsSound'
  BY DEF BroadcastInv, PostsSound
<1>4. AttemptSound'
  <2> SUFFICES ASSUME attempt # NoWork PROVE AttemptSound'
    BY DEF AttemptSound
  <2>1. attempt.job \in Jobs /\ attempt.target \in DOMAIN targets[attempt.job]
    BY InHandTyped
  <2>2. InHand \in TargetRows /\ InHand' = InHand
    BY <2>1 DEF BroadcastInv, BroadcastTyped, InHand
  <2>3. PostsOf(attempt.job, InHand.group)' = PostsOf(attempt.job, InHand.group)
    BY <2>2 DEF PostsOf
  <2>4. attempt.at = "leased" => revision'[InHand.bot] = InHand.revision
    BY <2>2 DEF HeldByWorker, BroadcastInv, AttemptSound, TargetRows
  <2>5. QED BY <2>2, <2>3, <2>4 DEF BroadcastInv, AttemptSound
<1>5. QED BY <1>1, <1>2, <1>3, <1>4 DEF BroadcastInv

LEMMA ActivityTrue ==
  ASSUME BroadcastInv, NEW b \in Casters, NEW g \in Audience, RecordGroupActivity(b, g)
  PROVE  BroadcastInv'
<1> DEFINE I == {i \in DOMAIN activity : activity[i].bot # b \/ activity[i].group # g}
           new == [bot |-> b, group |-> g, revision |-> revision[b]]
<1>1. activity \in Seq(SeenRows) /\ revision \in [Casters -> Nat]
  BY DEF BroadcastInv, BroadcastTyped
<1>2. Picked(activity, I) \in Seq(SeenRows)
  <2>1. I \in SUBSET (1..Len(activity))
    BY <1>1
  <2> HIDE DEF I
  <2>2. QED BY <1>1, <2>1, PickedFollows
<1>3. << new >> \in Seq(SeenRows)
  BY <1>1 DEF SeenRows
<1>4. activity' \in Seq(SeenRows)
  <2>1. activity' = << new >> \o Picked(activity, I)
    BY DEF RecordGroupActivity
  <2> HIDE DEF I, new
  <2>2. QED BY <1>2, <1>3, <2>1
<1>5. QED BY <1>1, <1>4, BotsChange DEF RecordGroupActivity

LEMMA CastersTrue ==
  ASSUME BroadcastInv, NEW b \in Casters, CasterChanges(b) \/ StopOrStart(b)
  PROVE  BroadcastInv'
<1>1. revision \in [Casters -> Nat] /\ activity \in Seq(SeenRows)
  BY DEF BroadcastInv, BroadcastTyped
<1>2. CASE CasterChanges(b)
  <2>1. revision' \in [Casters -> Nat]
    BY <1>1, <1>2 DEF CasterChanges
  <2>2. \A c \in Casters : HeldByWorker(c) => revision'[c] = revision[c]
    BY <1>1, <1>2 DEF CasterChanges
  <2>3. QED BY <1>1, <1>2, <2>1, <2>2, BotsChange DEF CasterChanges
<1>3. CASE StopOrStart(b)
  BY <1>1, <1>3, BotsChange DEF StopOrStart
<1>4. QED BY <1>2, <1>3

LEMMA DemoteTrue ==
  ASSUME BroadcastInv, Demote
  PROVE  BroadcastInv'
<1>1. revision \in [Casters -> Nat] /\ activity \in Seq(SeenRows)
  BY DEF BroadcastInv, BroadcastTyped
<1>2. QED BY <1>1, BotsChange DEF Demote

\* The rows of a preview: pending, and of different groups.
LEMMA RecentTargetsSound ==
  ASSUME BroadcastInv
  PROVE  /\ RecentTargets \in Seq(TargetRows)
         /\ \A i \in DOMAIN RecentTargets : RecentTargets[i].status = "pending"
         /\ \A i, k \in DOMAIN RecentTargets : RecentTargets[i].group = RecentTargets[k].group => i = k
<1> DEFINE seen == SeenByServing
           kept == Picked(seen, FirstOfGroup(seen))
<1>1. activity \in Seq(SeenRows)
  BY DEF BroadcastInv, BroadcastTyped
<1>2. seen \in Seq(SeenRows)
  <2> DEFINE I == {i \in DOMAIN activity : Serving(activity[i])}
  <2>1. I \in SUBSET (1..Len(activity))
    BY <1>1
  <2>2. seen = Picked(activity, I)
    BY DEF SeenByServing
  <2> HIDE DEF I, seen
  <2>3. QED BY <1>1, <2>1, <2>2, PickedFollows
<1>3. RecentTargets = [i \in DOMAIN kept |-> [bot |-> kept[i].bot, group |-> kept[i].group,
                                              revision |-> kept[i].revision, status |-> "pending"]]
  BY DEF RecentTargets
<1> HIDE DEF seen
<1>4. FirstOfGroup(seen) \in SUBSET (1..Len(seen))
  BY <1>2 DEF FirstOfGroup
<1>5. kept \in Seq(SeenRows) /\ \E f : Follows(kept, seen, FirstOfGroup(seen), f)
  BY <1>2, <1>4, PickedFollows
<1> HIDE DEF kept
<1>6. PICK f : Follows(kept, seen, FirstOfGroup(seen), f)
  BY <1>5
<1>7. ASSUME NEW i \in 1..Len(kept), NEW k \in 1..Len(kept), kept[i].group = kept[k].group, i < k PROVE FALSE
  <2>1. f[i] \in FirstOfGroup(seen) /\ f[k] \in FirstOfGroup(seen) /\ f[i] < f[k]
    BY <1>6, <1>7 DEF Follows
  <2>2. kept[i] = seen[f[i]] /\ kept[k] = seen[f[k]]
    BY <1>6 DEF Follows
  <2>3. f[i] \in 1..(f[k] - 1)
    BY <1>2, <1>4, <2>1
  <2>4. QED BY <1>7, <2>1, <2>2, <2>3 DEF FirstOfGroup
<1>8. \A i, k \in 1..Len(kept) : kept[i].group = kept[k].group => i = k
  BY <1>5, <1>7
<1>9. DOMAIN kept = 1..Len(kept) /\ DOMAIN RecentTargets = 1..Len(kept)
  BY <1>3, <1>5
<1>10. \A i \in 1..Len(kept) : RecentTargets[i] \in TargetRows
  <2> SUFFICES ASSUME NEW i \in 1..Len(kept) PROVE RecentTargets[i] \in TargetRows
    OBVIOUS
  <2>1. kept[i] \in SeenRows
    BY <1>5
  <2>2. RecentTargets[i] = [bot |-> kept[i].bot, group |-> kept[i].group,
                            revision |-> kept[i].revision, status |-> "pending"]
    BY <1>3, <1>9
  <2>3. QED BY <2>1, <2>2 DEF SeenRows, TargetRows, TargetStatus
<1>11. RecentTargets \in Seq(TargetRows)
  <2>1. RecentTargets \in [1..Len(kept) -> TargetRows] /\ Len(kept) \in Nat
    BY <1>3, <1>5, <1>9, <1>10
  <2>2. QED BY <2>1
<1>12. \A i \in 1..Len(kept) : RecentTargets[i].status = "pending" /\ RecentTargets[i].group = kept[i].group
  BY <1>3, <1>9
<1>13. QED BY <1>8, <1>9, <1>11, <1>12

LEMMA PreviewTrue ==
  ASSUME BroadcastInv, NEW j \in Jobs, Preview(j)
  PROVE  BroadcastInv'
<1> DEFINE rows == RecentTargets
<1>1. /\ rows \in Seq(TargetRows)
      /\ \A i \in DOMAIN rows : rows[i].status = "pending"
      /\ \A i, k \in DOMAIN rows : rows[i].group = rows[k].group => i = k
  BY RecentTargetsSound
<1>2. /\ targets' = [targets EXCEPT ![j] = rows] /\ status' = [status EXCEPT ![j] = "draft"]
      /\ UNCHANGED << revision, activity, queue, attempt, posts >> /\ status[j] = "none"
  BY DEF Preview, casterVars
<1> HIDE DEF rows
<1>3. targets \in [Jobs -> Seq(TargetRows)] /\ targets[j] = << >>
  BY <1>2 DEF BroadcastInv, BroadcastTyped, RowsSound
<1>4. BroadcastTyped'
  BY <1>1, <1>2 DEF BroadcastInv, BroadcastTyped
<1>5. \A i \in DOMAIN posts : posts[i].job \in Jobs /\ posts[i].job # j
  <2>0. posts \in Seq(PostRows)
    BY DEF BroadcastInv, BroadcastTyped
  <2>1. \A i \in DOMAIN posts : posts[i].job \in Jobs
    <3>1. \A i \in DOMAIN posts : posts[i] \in PostRows
      BY <2>0
    <3>2. QED BY <3>1 DEF PostRows
  <2>2. QED BY <1>3, <2>1 DEF BroadcastInv, PostsSound
<1>6. \A i \in Jobs : i # j => targets'[i] = targets[i]
  BY <1>2, <1>3
<1>7. targets'[j] = rows
  BY <1>2, <1>3
<1>8. \A i, g : PostsOf(i, g)' = PostsOf(i, g)
  BY <1>2 DEF PostsOf
<1>9. \A g : PostsOf(j, g) = {}
  BY <1>5 DEF PostsOf
<1>10. RowsSound'
  <2> SUFFICES ASSUME NEW i \in Jobs
               PROVE  /\ status'[i] = "none" => targets'[i] = << >>
                      /\ \A m, k \in DOMAIN targets'[i] : targets'[i][m].group = targets'[i][k].group => m = k
                      /\ \A m \in DOMAIN targets'[i] : TrueOf(targets'[i][m].status, PostsOf(i, targets'[i][m].group))
    BY <1>8 DEF RowsSound
  <2>1. CASE i = j
    <3>1. status'[j] # "none"
      BY <1>2 DEF BroadcastInv, BroadcastTyped
    <3>2. \A m \in DOMAIN rows : TrueOf(rows[m].status, PostsOf(j, rows[m].group))
      BY <1>1, <1>9 DEF TrueOf, AtMostOne
    <3>3. QED BY <1>1, <1>7, <2>1, <3>1, <3>2
  <2>2. CASE i # j
    <3>1. status'[i] = status[i]
      BY <1>2, <2>2 DEF BroadcastInv, BroadcastTyped
    <3>2. QED BY <1>6, <2>2, <3>1 DEF BroadcastInv, RowsSound
  <2>3. QED BY <2>1, <2>2
<1>11. PostsSound'
  BY <1>2, <1>5, <1>6 DEF BroadcastInv, PostsSound
<1>12. AttemptSound'
  <2> SUFFICES ASSUME attempt # NoWork PROVE AttemptSound'
    BY <1>2 DEF AttemptSound
  <2>1. attempt.job \in Jobs /\ attempt.job # j
    BY <1>3, InHandTyped
  <2>2. targets'[attempt.job] = targets[attempt.job]
    BY <1>6, <2>1
  <2>3. InHand' = InHand
    BY <1>2, <2>2 DEF InHand
  <2>4. QED BY <1>2, <1>8, <2>2, <2>3 DEF BroadcastInv, AttemptSound
<1>13. QED BY <1>4, <1>10, <1>11, <1>12 DEF BroadcastInv

LEMMA SubmitTrue ==
  ASSUME BroadcastInv, NEW j \in Jobs, Submit(j)
  PROVE  BroadcastInv'
<1>1. /\ status' = [status EXCEPT ![j] = "queued"] /\ queue' = Append(queue, j)
      /\ UNCHANGED << revision, activity, targets, attempt, posts >>
  BY DEF Submit, casterVars
<1>2. BroadcastTyped'
  BY <1>1 DEF BroadcastInv, BroadcastTyped
<1>3. \A i \in Jobs : status'[i] = "none" => status[i] = "none"
  BY <1>1 DEF BroadcastInv, BroadcastTyped
<1>4. RowsSound'
  <2>1. \A i, g : PostsOf(i, g)' = PostsOf(i, g)
    BY <1>1 DEF PostsOf
  <2>2. QED BY <1>1, <1>3, <2>1 DEF BroadcastInv, RowsSound
<1>5. PostsSound'
  BY <1>1 DEF BroadcastInv, PostsSound
<1>6. AttemptSound'
  BY <1>1 DEF BroadcastInv, AttemptSound, InHand, PostsOf
<1>7. QED BY <1>2, <1>4, <1>5, <1>6 DEF BroadcastInv

-----------------------------------------------------------------------------
LEMMA SubmittedIn ==
  ASSUME BroadcastInv, Submitted # << >>
  PROVE  Head(Submitted) \in Jobs
<1> DEFINE I == {i \in DOMAIN queue : status[queue[i]] \in {"queued", "running"}}
<1>1. queue \in Seq(Jobs)
  BY DEF BroadcastInv, BroadcastTyped
<1>2. I \in SUBSET (1..Len(queue))
  BY <1>1
<1>3. Submitted = Picked(queue, I)
  BY DEF Submitted
<1> HIDE DEF I
<1>4. Submitted \in Seq(Jobs)
  BY <1>1, <1>2, <1>3, PickedFollows
<1>5. QED BY <1>4

\* Statuses of rows that change together, to what is as true of the posts.
LEMMA RowsChange ==
  ASSUME BroadcastInv, attempt' = NoWork, UNCHANGED << revision, activity, queue, posts >>,
         status' \in [Jobs -> {"none", "draft", "queued", "running", "completed"}],
         \A j \in Jobs : status'[j] = "none" => status[j] = "none",
         targets' \in [Jobs -> Seq(TargetRows)],
         \A j \in Jobs : DOMAIN targets'[j] = DOMAIN targets[j],
         \A j \in Jobs : \A i \in DOMAIN targets[j] :
           /\ targets'[j][i].group = targets[j][i].group
           /\ targets'[j][i].bot = targets[j][i].bot
           /\ targets'[j][i].revision = targets[j][i].revision
           /\ TrueOf(targets'[j][i].status, PostsOf(j, targets[j][i].group))
  PROVE  BroadcastInv'
<1>1. BroadcastTyped'
  BY DEF BroadcastInv, BroadcastTyped
<1>2. \A j, g : PostsOf(j, g)' = PostsOf(j, g)
  BY DEF PostsOf
<1>3. \A j \in Jobs : targets[j] = << >> => targets'[j] = << >>
  <2> SUFFICES ASSUME NEW j \in Jobs, targets[j] = << >> PROVE targets'[j] = << >>
    OBVIOUS
  <2>1. targets'[j] \in Seq(TargetRows) /\ DOMAIN targets'[j] = {}
    OBVIOUS
  <2>2. QED BY <2>1
<1>4. RowsSound'
  <2> SUFFICES ASSUME NEW j \in Jobs
               PROVE  /\ status'[j] = "none" => targets'[j] = << >>
                      /\ \A m, k \in DOMAIN targets'[j] : targets'[j][m].group = targets'[j][k].group => m = k
                      /\ \A m \in DOMAIN targets'[j] : TrueOf(targets'[j][m].status, PostsOf(j, targets'[j][m].group))
    BY <1>2 DEF RowsSound
  <2>1. status[j] = "none" => targets[j] = << >>
    BY DEF BroadcastInv, RowsSound
  <2>2. \A m, k \in DOMAIN targets[j] : targets[j][m].group = targets[j][k].group => m = k
    BY DEF BroadcastInv, RowsSound
  <2>3. DOMAIN targets'[j] = DOMAIN targets[j] /\ \A m \in DOMAIN targets[j] : targets'[j][m].group = targets[j][m].group
    OBVIOUS
  <2>4. \A m, k \in DOMAIN targets'[j] : targets'[j][m].group = targets'[j][k].group => m = k
    BY ONLY <2>2, <2>3
  <2>5. \A m \in DOMAIN targets'[j] : TrueOf(targets'[j][m].status, PostsOf(j, targets'[j][m].group))
    BY <2>3
  <2>6. QED BY <1>3, <2>1, <2>4, <2>5
<1>5. AttemptSound'
  BY DEF AttemptSound
<1>6. \A i \in DOMAIN posts : posts[i].job \in Jobs
  <2>1. posts \in Seq(PostRows)
    BY DEF BroadcastInv, BroadcastTyped
  <2>2. \A i \in DOMAIN posts : posts[i] \in PostRows
    BY <2>1
  <2>3. QED BY <2>2 DEF PostRows
<1>7. PostsSound'
  <2> SUFFICES ASSUME NEW i \in DOMAIN posts
               PROVE  \E k \in DOMAIN targets'[posts[i].job] :
                        /\ targets'[posts[i].job][k].group = posts[i].group
                        /\ posts[i].by = << targets'[posts[i].job][k].bot, targets'[posts[i].job][k].revision >>
    BY DEF PostsSound
  <2>1. PICK k \in DOMAIN targets[posts[i].job] :
          /\ targets[posts[i].job][k].group = posts[i].group
          /\ posts[i].by = << targets[posts[i].job][k].bot, targets[posts[i].job][k].revision >>
    BY DEF BroadcastInv, PostsSound
  <2>2. posts[i].job \in Jobs
    BY <1>6
  <2>3. /\ k \in DOMAIN targets'[posts[i].job]
        /\ targets'[posts[i].job][k].group = targets[posts[i].job][k].group
        /\ targets'[posts[i].job][k].bot = targets[posts[i].job][k].bot
        /\ targets'[posts[i].job][k].revision = targets[posts[i].job][k].revision
    BY <2>1, <2>2
  <2>4. QED BY <2>1, <2>3
<1>8. QED BY <1>1, <1>4, <1>5, <1>7 DEF BroadcastInv

LEMMA MarkedRows ==
  ASSUME NEW rows \in Seq(TargetRows), NEW from, NEW to \in TargetStatus
  PROVE  /\ Marked(rows, from, to) \in Seq(TargetRows)
         /\ DOMAIN Marked(rows, from, to) = DOMAIN rows
         /\ \A i \in DOMAIN rows :
              /\ Marked(rows, from, to)[i].group = rows[i].group
              /\ Marked(rows, from, to)[i].bot = rows[i].bot
              /\ Marked(rows, from, to)[i].revision = rows[i].revision
              /\ Marked(rows, from, to)[i].status = IF rows[i].status = from THEN to ELSE rows[i].status
<1> DEFINE marked == Marked(rows, from, to)
<1>1. marked = [i \in DOMAIN rows |-> IF rows[i].status = from THEN [rows[i] EXCEPT !.status = to] ELSE rows[i]]
  BY DEF Marked
<1>2. DOMAIN rows = 1..Len(rows) /\ Len(rows) \in Nat
  OBVIOUS
<1> HIDE DEF marked
<1>3. ASSUME NEW i \in DOMAIN rows
      PROVE  /\ marked[i] \in TargetRows
             /\ marked[i].group = rows[i].group /\ marked[i].bot = rows[i].bot
             /\ marked[i].revision = rows[i].revision
             /\ marked[i].status = IF rows[i].status = from THEN to ELSE rows[i].status
  <2>1. rows[i] \in TargetRows
    BY <1>2
  <2>2. marked[i] = IF rows[i].status = from THEN [rows[i] EXCEPT !.status = to] ELSE rows[i]
    BY <1>1
  <2>3. QED BY <2>1, <2>2 DEF TargetRows
<1>4. marked \in Seq(TargetRows)
  <2>1. marked \in [1..Len(rows) -> TargetRows]
    BY <1>1, <1>2, <1>3
  <2>2. QED BY <1>2, <2>1
<1>5. QED BY <1>1, <1>3, <1>4 DEF marked

LEMMA FinishTrue ==
  ASSUME BroadcastInv, attempt = NoWork, NEW j \in Jobs,
         \/ Finish(j, Marked(targets[j], "sending", "unknown"))
         \/ Finish(j, Marked(targets[j], "pending", "skipped")),
         UNCHANGED << casterVars, queue, posts, deaths >>
  PROVE  BroadcastInv'
<1>0. PICK from \in TargetStatus, to \in TargetStatus :
        /\ \/ from = "sending" /\ to = "unknown"
           \/ from = "pending" /\ to = "skipped"
        /\ Finish(j, Marked(targets[j], from, to))
  BY DEF TargetStatus
<1> DEFINE rows == Marked(targets[j], from, to)
<1>1. targets \in [Jobs -> Seq(TargetRows)]
  BY DEF BroadcastInv, BroadcastTyped
<1>2. /\ rows \in Seq(TargetRows) /\ DOMAIN rows = DOMAIN targets[j]
      /\ \A i \in DOMAIN targets[j] :
           /\ rows[i].group = targets[j][i].group /\ rows[i].bot = targets[j][i].bot
           /\ rows[i].revision = targets[j][i].revision
           /\ rows[i].status = IF targets[j][i].status = from THEN to ELSE targets[j][i].status
  BY <1>1, <1>0, MarkedRows
<1>3. /\ targets' = [targets EXCEPT ![j] = rows] /\ status' = [status EXCEPT ![j] = "completed"]
      /\ attempt' = NoWork /\ UNCHANGED << revision, activity, queue, posts >>
  BY <1>0 DEF Finish, casterVars
<1> HIDE DEF rows
<1>4. status' \in [Jobs -> {"none", "draft", "queued", "running", "completed"}]
  BY <1>3 DEF BroadcastInv, BroadcastTyped
<1>5. \A i \in Jobs : status'[i] = "none" => status[i] = "none"
  BY <1>3 DEF BroadcastInv, BroadcastTyped
<1>6. targets' \in [Jobs -> Seq(TargetRows)]
  BY <1>1, <1>2, <1>3
<1>7. targets'[j] = rows /\ \A i \in Jobs : i # j => targets'[i] = targets[i]
  BY <1>1, <1>3
<1>8. \A i \in Jobs : \A k \in DOMAIN targets[i] :
        TrueOf(targets[i][k].status, PostsOf(i, targets[i][k].group))
  BY DEF BroadcastInv, RowsSound
<1>9. \A k \in DOMAIN rows : TrueOf(rows[k].status, PostsOf(j, targets[j][k].group))
  <2> SUFFICES ASSUME NEW k \in DOMAIN targets[j]
               PROVE  TrueOf(rows[k].status, PostsOf(j, targets[j][k].group))
    BY <1>2
  <2>1. TrueOf(targets[j][k].status, PostsOf(j, targets[j][k].group))
    BY <1>8
  <2>2. rows[k].status = IF targets[j][k].status = from THEN to ELSE targets[j][k].status
    BY <1>2
  <2>3. QED BY <1>0, <2>1, <2>2 DEF TrueOf
<1>10. QED BY <1>2, <1>3, <1>4, <1>5, <1>6, <1>7, <1>8, <1>9, RowsChange

LEMMA RestartTrue ==
  ASSUME BroadcastInv, Restart
  PROVE  BroadcastInv'
<1>1. targets \in [Jobs -> Seq(TargetRows)]
  BY DEF BroadcastInv, BroadcastTyped
<1>2. /\ targets' = [j \in Jobs |-> Marked(targets[j], "sending", "unknown")]
      /\ attempt' = NoWork /\ UNCHANGED << revision, activity, status, queue, posts >>
  BY DEF Restart, casterVars
<1>3. "unknown" \in TargetStatus
  BY DEF TargetStatus
<1>4. ASSUME NEW j \in Jobs
      PROVE  /\ targets'[j] \in Seq(TargetRows) /\ DOMAIN targets'[j] = DOMAIN targets[j]
             /\ \A i \in DOMAIN targets[j] :
                  /\ targets'[j][i].group = targets[j][i].group
                  /\ targets'[j][i].bot = targets[j][i].bot
                  /\ targets'[j][i].revision = targets[j][i].revision
                  /\ targets'[j][i].status =
                       IF targets[j][i].status = "sending" THEN "unknown" ELSE targets[j][i].status
  <2>1. targets'[j] = Marked(targets[j], "sending", "unknown") /\ targets[j] \in Seq(TargetRows)
    BY <1>1, <1>2
  <2>2. QED BY <1>3, <2>1, MarkedRows
<1>5. targets' \in [Jobs -> Seq(TargetRows)]
  BY <1>2, <1>4
<1>6. \A j \in Jobs : \A i \in DOMAIN targets[j] :
        TrueOf(targets'[j][i].status, PostsOf(j, targets[j][i].group))
  <2> SUFFICES ASSUME NEW j \in Jobs, NEW i \in DOMAIN targets[j]
               PROVE  TrueOf(targets'[j][i].status, PostsOf(j, targets[j][i].group))
    OBVIOUS
  <2>1. TrueOf(targets[j][i].status, PostsOf(j, targets[j][i].group))
    BY DEF BroadcastInv, RowsSound
  <2>2. targets'[j][i].status =
          IF targets[j][i].status = "sending" THEN "unknown" ELSE targets[j][i].status
    BY <1>4
  <2>3. QED BY <2>1, <2>2 DEF TrueOf
<1>7. status \in [Jobs -> {"none", "draft", "queued", "running", "completed"}]
  BY DEF BroadcastInv, BroadcastTyped
<1>8. QED BY <1>2, <1>4, <1>5, <1>6, <1>7, RowsChange

\* The worker takes the first recipient that is left.
LEMMA MarkTrue ==
  ASSUME BroadcastInv, attempt = NoWork, NEW j \in Jobs, Pending(j) # {},
         NEW i, i = CHOOSE m \in Pending(j) : \A k \in Pending(j) : m <= k,
         targets' = [targets EXCEPT ![j][i].status = "sending"],
         attempt' = [job |-> j, target |-> i, at |-> "marked", outcome |-> "none"],
         status' = [status EXCEPT ![j] = "running"],
         UNCHANGED << casterVars, queue, posts, deaths >>
  PROVE  BroadcastInv'
<1>1. /\ targets \in [Jobs -> Seq(TargetRows)] /\ posts \in Seq(PostRows)
      /\ status \in [Jobs -> {"none", "draft", "queued", "running", "completed"}]
  BY DEF BroadcastInv, BroadcastTyped
<1>2. targets[j] \in Seq(TargetRows) /\ DOMAIN targets[j] = 1..Len(targets[j]) /\ Len(targets[j]) \in Nat
  BY <1>1
<1>3. i \in Pending(j)
  <2>1. Pending(j) \in SUBSET Nat
    BY <1>2 DEF Pending
  <2>2. \E m \in Pending(j) : \A k \in Pending(j) : m <= k
    BY <2>1, LeastOf
  <2>3. QED BY <2>2
<1>4. i \in DOMAIN targets[j] /\ targets[j][i].status = "pending" /\ i \in Nat
  BY <1>2, <1>3 DEF Pending
<1> DEFINE row == [targets[j][i] EXCEPT !.status = "sending"]
           rows == [targets[j] EXCEPT ![i] = row]
<1>5. targets[j][i] \in TargetRows
  BY <1>2, <1>4
<1>6. row \in TargetRows /\ row.status = "sending" /\ row.group = targets[j][i].group
      /\ row.bot = targets[j][i].bot /\ row.revision = targets[j][i].revision
  BY <1>5 DEF TargetRows, TargetStatus
<1>7. targets' = [targets EXCEPT ![j] = rows]
  OBVIOUS
<1> HIDE DEF row
<1>8. /\ rows \in Seq(TargetRows) /\ DOMAIN rows = DOMAIN targets[j] /\ rows[i] = row
      /\ \A k \in DOMAIN rows : k # i => rows[k] = targets[j][k]
  BY <1>2, <1>4, <1>6
<1> HIDE DEF rows
<1>9. targets'[j] = rows /\ \A m \in Jobs : m # j => targets'[m] = targets[m]
  BY <1>1, <1>7
<1>10. targets' \in [Jobs -> Seq(TargetRows)]
  BY <1>1, <1>7, <1>8
<1>11. \A m, g : PostsOf(m, g)' = PostsOf(m, g)
  BY DEF PostsOf
<1>12. PostsOf(j, targets[j][i].group) = {}
  BY <1>4 DEF BroadcastInv, RowsSound, TrueOf
<1>13. BroadcastTyped'
  <2>1. attempt' \in Attempts
    BY <1>4 DEF Attempts
  <2>2. status' \in [Jobs -> {"none", "draft", "queued", "running", "completed"}]
    BY <1>1
  <2>3. QED BY <1>10, <2>1, <2>2 DEF BroadcastInv, BroadcastTyped, casterVars
<1>14. \A k \in DOMAIN rows : rows[k].group = targets[j][k].group /\ rows[k].bot = targets[j][k].bot
                              /\ rows[k].revision = targets[j][k].revision
  BY <1>6, <1>8
<1>15. RowsSound'
  <2>0. DOMAIN targets' = Jobs
    BY <1>10
  <2>1. ASSUME NEW m \in Jobs
             PROVE  /\ status'[m] = "none" => targets'[m] = << >>
                    /\ \A n, k \in DOMAIN targets'[m] : targets'[m][n].group = targets'[m][k].group => n = k
                    /\ \A n \in DOMAIN targets'[m] : TrueOf(targets'[m][n].status, PostsOf(m, targets'[m][n].group))
    <3>1. /\ status[m] = "none" => targets[m] = << >>
          /\ \A n, k \in DOMAIN targets[m] : targets[m][n].group = targets[m][k].group => n = k
          /\ \A n \in DOMAIN targets[m] : TrueOf(targets[m][n].status, PostsOf(m, targets[m][n].group))
      BY DEF BroadcastInv, RowsSound
    <3>2. CASE m = j
      <4>1. status'[j] # "none"
        BY <1>1
      <4>2. \A n, k \in DOMAIN rows : rows[n].group = rows[k].group => n = k
        BY <1>8, <1>14, <3>1, <3>2
      <4>3. \A n \in DOMAIN rows : TrueOf(rows[n].status, PostsOf(j, rows[n].group))
        <5> SUFFICES ASSUME NEW n \in DOMAIN rows PROVE TrueOf(rows[n].status, PostsOf(j, rows[n].group))
          OBVIOUS
        <5>1. CASE n = i
          BY <1>6, <1>8, <1>12, <5>1 DEF TrueOf, AtMostOne
        <5>2. CASE n # i
          BY <1>8, <3>1, <3>2, <5>2
        <5>3. QED BY <5>1, <5>2
      <4>4. QED BY ONLY <1>9, <3>2, <4>1, <4>2, <4>3
    <3>3. CASE m # j
      <4>1. status'[m] = status[m] /\ targets'[m] = targets[m]
        BY <1>1, <1>9, <3>3
      <4>2. QED BY <3>1, <4>1
    <3>4. QED BY <3>2, <3>3
  <2>2. QED BY ONLY <2>1, <2>0, <1>11 DEF RowsSound
<1>16. AttemptSound'
  <2>1. InHand' = row
    BY <1>8, <1>9 DEF InHand
  <2>2. PostsOf(attempt.job, InHand.group)' = PostsOf(j, targets[j][i].group)
    BY <1>6, <1>11, <2>1
  <2>3. /\ attempt'.target \in DOMAIN targets'[attempt'.job] /\ attempt'.at = "marked"
    BY <1>4, <1>8, <1>9
  <2>4. QED BY <1>6, <1>12, <2>1, <2>2, <2>3 DEF AttemptSound
<1>17. PostsSound'
  <2>0. posts' = posts
    OBVIOUS
  <2>1. ASSUME NEW n \in DOMAIN posts
             PROVE  \E k \in DOMAIN targets'[posts[n].job] :
                      /\ targets'[posts[n].job][k].group = posts[n].group
                      /\ posts[n].by = << targets'[posts[n].job][k].bot, targets'[posts[n].job][k].revision >>
    <3>1. PICK k \in DOMAIN targets[posts[n].job] :
            /\ targets[posts[n].job][k].group = posts[n].group
            /\ posts[n].by = << targets[posts[n].job][k].bot, targets[posts[n].job][k].revision >>
      BY DEF BroadcastInv, PostsSound
    <3>2. posts[n] \in PostRows
      BY <1>1
    <3>3. posts[n].job \in Jobs
      BY <3>2 DEF PostRows
    <3>4. CASE posts[n].job = j
      <4>1. k \in DOMAIN rows /\ targets'[posts[n].job] = rows
        BY <1>8, <1>9, <3>1, <3>4
      <4>2. rows[k].group = targets[posts[n].job][k].group /\ rows[k].bot = targets[posts[n].job][k].bot
            /\ rows[k].revision = targets[posts[n].job][k].revision
        BY <1>14, <3>4, <4>1
      <4>3. QED BY ONLY <3>1, <4>1, <4>2
    <3>5. CASE posts[n].job # j
      BY <1>9, <3>1, <3>3, <3>5
    <3>6. QED BY <3>4, <3>5
  <2>2. QED BY ONLY <2>1, <2>0 DEF PostsSound
<1>18. QED BY <1>13, <1>15, <1>16, <1>17 DEF BroadcastInv

LEMMA PickRecipientTrue ==
  ASSUME BroadcastInv, PickRecipient
  PROVE  BroadcastInv'
<1> DEFINE j == Head(Submitted)
<1>1. attempt = NoWork /\ Submitted # << >> /\ UNCHANGED << casterVars, queue, posts, deaths >>
  BY DEF PickRecipient
<1>2. j \in Jobs
  BY <1>1, SubmittedIn
<1>3. \/ Finish(j, Marked(targets[j], "sending", "unknown"))
      \/ Finish(j, Marked(targets[j], "pending", "skipped"))
      \/ /\ Pending(j) # {}
         /\ LET i == CHOOSE i \in Pending(j) : \A k \in Pending(j) : i <= k IN
              /\ targets' = [targets EXCEPT ![j][i].status = "sending"]
              /\ attempt' = [job |-> j, target |-> i, at |-> "marked", outcome |-> "none"]
         /\ status' = [status EXCEPT ![j] = "running"]
  BY DEF PickRecipient
<1> HIDE DEF j
<1>4. CASE \/ Finish(j, Marked(targets[j], "sending", "unknown"))
           \/ Finish(j, Marked(targets[j], "pending", "skipped"))
  BY <1>1, <1>2, <1>4, FinishTrue
<1>7. CASE /\ Pending(j) # {}
           /\ LET i == CHOOSE i \in Pending(j) : \A k \in Pending(j) : i <= k IN
                /\ targets' = [targets EXCEPT ![j][i].status = "sending"]
                /\ attempt' = [job |-> j, target |-> i, at |-> "marked", outcome |-> "none"]
           /\ status' = [status EXCEPT ![j] = "running"]
  BY <1>1, <1>2, <1>7, MarkTrue
<1>8. QED BY <1>3, <1>4, <1>7

\* Steps of the recipient in hand that leave its row.
LEMMA HandChanges ==
  ASSUME BroadcastInv, attempt # NoWork, UNCHANGED << casterVars, status, queue, targets >>,
         NEW at \in {"leased", "attempted"}, NEW outcome \in {"none", "accepted", "failed", "unknown", "skipped"},
         Takes(at, outcome), posts' \in Seq(PostRows), RowsSound', PostsSound',
         at = "leased" => /\ PostsOf(attempt.job, InHand.group)' = {}
                          /\ revision[InHand.bot] = InHand.revision,
         at = "attempted" => /\ outcome # "none"
                             /\ TrueOf(outcome, PostsOf(attempt.job, InHand.group)')
  PROVE  BroadcastInv'
<1>1. /\ attempt \in Attempts /\ attempt.job \in Jobs
      /\ attempt.target \in DOMAIN targets[attempt.job] /\ InHand \in TargetRows
  BY InHandTyped
<1>2. /\ attempt' \in Attempts /\ attempt'.job = attempt.job /\ attempt'.target = attempt.target
      /\ attempt'.at = at /\ attempt'.outcome = outcome
  BY <1>1 DEF Takes, Attempts
<1>3. BroadcastTyped'
  BY <1>2 DEF BroadcastInv, BroadcastTyped, casterVars
<1>4. InHand' = InHand
  BY <1>2 DEF InHand
<1>5. InHand.status = "sending"
  BY DEF BroadcastInv, AttemptSound
<1>7. AttemptSound'
  BY <1>1, <1>2, <1>4, <1>5 DEF AttemptSound, casterVars
<1>8. QED BY <1>3, <1>7 DEF BroadcastInv

LEMMA AdmitTrue ==
  ASSUME BroadcastInv, AdmitWorker
  PROVE  BroadcastInv'
<1>1. attempt # NoWork /\ attempt.at = "marked" /\ UNCHANGED << casterVars, status, queue, targets, posts, deaths >>
  BY DEF AdmitWorker
<1>2. PostsOf(attempt.job, InHand.group) = {}
  BY <1>1 DEF BroadcastInv, AttemptSound
<1>3. attempt \in Attempts
  BY <1>1, InHandTyped
<1>4. \A j, g : PostsOf(j, g)' = PostsOf(j, g)
  BY <1>1 DEF PostsOf
<1>5. RowsSound' /\ PostsSound'
  <2>1. UNCHANGED << status, targets, posts >>
    BY <1>1
  <2>2. QED BY ONLY <1>4, <2>1, BroadcastInv DEF BroadcastInv, RowsSound, PostsSound
<1>6. posts' \in Seq(PostRows)
  BY <1>1 DEF BroadcastInv, BroadcastTyped
<1>7. ASSUME NEW at, NEW outcome, Takes(at, outcome)
      PROVE  PostsOf(attempt.job, InHand.group)' = {}
  <2>1. attempt'.job = attempt.job /\ attempt'.target = attempt.target
    BY <1>3, <1>7 DEF Takes, Attempts
  <2>2. InHand' = InHand
    BY <1>1, <2>1 DEF InHand
  <2>3. QED BY <1>2, <1>4, <2>1, <2>2
<1>8. CASE /\ InHand.bot \in castable /\ revision[InHand.bot] = InHand.revision
           /\ Takes("leased", "none")
  <2>1. PostsOf(attempt.job, InHand.group)' = {} /\ revision[InHand.bot] = InHand.revision
    BY <1>7, <1>8
  <2>2. QED BY <1>1, <1>5, <1>6, <1>8, <2>1, HandChanges
<1>9. CASE Takes("attempted", "skipped")
  <2>1. PostsOf(attempt.job, InHand.group)' = {}
    BY <1>7, <1>9
  <2>2. TrueOf("skipped", PostsOf(attempt.job, InHand.group)')
    BY <2>1 DEF TrueOf, AtMostOne
  <2>3. QED BY <1>1, <1>5, <1>6, <1>9, <2>2, HandChanges
<1>10. QED BY <1>8, <1>9 DEF AdmitWorker

\* A post that fails or is lost before it arrived.
LEMMA NotPosted ==
  ASSUME BroadcastInv, attempt # NoWork, attempt.at = "leased",
         NEW outcome \in {"skipped", "failed", "unknown"}, Takes("attempted", outcome),
         UNCHANGED << casterVars, status, queue, targets, posts, deaths >>
  PROVE  BroadcastInv'
<1>1. PostsOf(attempt.job, InHand.group) = {} /\ attempt \in Attempts
  BY InHandTyped DEF BroadcastInv, AttemptSound
<1>2. \A j, g : PostsOf(j, g)' = PostsOf(j, g)
  BY DEF PostsOf
<1>3. RowsSound' /\ PostsSound'
  <2>1. UNCHANGED << status, targets, posts >>
    OBVIOUS
  <2>2. QED BY ONLY <1>2, <2>1, BroadcastInv DEF BroadcastInv, RowsSound, PostsSound
<1>4. posts' \in Seq(PostRows)
  BY DEF BroadcastInv, BroadcastTyped
<1>5. attempt'.job = attempt.job /\ attempt'.target = attempt.target
  BY <1>1 DEF Takes, Attempts
<1>6. InHand' = InHand
  BY <1>5 DEF InHand
<1>7. TrueOf(outcome, PostsOf(attempt.job, InHand.group)')
  <2>1. PostsOf(attempt.job, InHand.group)' = {}
    BY <1>1, <1>2, <1>5, <1>6
  <2>2. QED BY <2>1 DEF TrueOf, AtMostOne
<1>8. QED BY <1>3, <1>4, <1>7, HandChanges

\* A post that arrived is the only one to its recipient.
LEMMA Posted ==
  ASSUME BroadcastInv, attempt # NoWork, attempt.at = "leased",
         NEW outcome \in {"accepted", "failed", "unknown"}, Takes("attempted", outcome),
         posts' = Append(posts, [job |-> attempt.job, group |-> InHand.group,
                                 by |-> << InHand.bot, revision[InHand.bot] >>]),
         UNCHANGED << casterVars, status, queue, targets, deaths >>
  PROVE  BroadcastInv'
<1> DEFINE job == attempt.job
           group == InHand.group
           post == [job |-> job, group |-> group, by |-> << InHand.bot, revision[InHand.bot] >>]
           n == Len(posts) + 1
<1>1. /\ attempt \in Attempts /\ job \in Jobs /\ attempt.target \in DOMAIN targets[job]
      /\ InHand \in TargetRows
  BY InHandTyped
<1>2. /\ PostsOf(job, group) = {} /\ InHand.status = "sending"
      /\ revision[InHand.bot] = InHand.revision
  BY DEF BroadcastInv, AttemptSound
<1>3. posts \in Seq(PostRows) /\ revision \in [Casters -> Nat]
  BY DEF BroadcastInv, BroadcastTyped
<1>4. post \in PostRows /\ post.job = job /\ post.group = group
      /\ post.by = << InHand.bot, InHand.revision >>
  <2>1. << InHand.bot, revision[InHand.bot] >> \in Casters \X Nat
    BY <1>1, <1>3 DEF TargetRows
  <2>2. group \in Audience
    BY <1>1 DEF TargetRows
  <2>3. QED BY <1>1, <1>2, <2>1, <2>2 DEF PostRows
<1>5. posts' = Append(posts, post)
  OBVIOUS
<1> HIDE DEF post
<1>6. /\ posts' \in Seq(PostRows) /\ n \in Nat /\ DOMAIN posts' = DOMAIN posts \cup {n}
      /\ posts'[n] = post /\ n \notin DOMAIN posts
      /\ \A i \in DOMAIN posts : posts'[i] = posts[i]
  BY <1>3, <1>4, <1>5
<1> HIDE DEF n
<1>7a. {i \in DOMAIN posts' : posts'[i].job = job /\ posts'[i].group = group} = {n}
  <2>1. \A i \in DOMAIN posts : ~ (posts[i].job = job /\ posts[i].group = group)
    BY <1>2 DEF PostsOf
  <2>2. QED BY ONLY <1>4, <1>6, <2>1
<1>7. PostsOf(job, group)' = {n}
  <2>1. attempt'.job = attempt.job /\ attempt'.target = attempt.target
    BY <1>1 DEF Takes, Attempts
  <2>2. InHand' = InHand
    BY <2>1 DEF InHand
  <2>3. QED BY <1>7a, <2>1, <2>2 DEF PostsOf
<1>8. \A j, g : (j # job \/ g # group) => PostsOf(j, g)' = PostsOf(j, g)
  <2> SUFFICES ASSUME NEW j, NEW g, j # job \/ g # group
               PROVE  {i \in DOMAIN posts' : posts'[i].job = j /\ posts'[i].group = g}
                      = {i \in DOMAIN posts : posts[i].job = j /\ posts[i].group = g}
    BY DEF PostsOf
  <2>1. QED BY <1>4, <1>6
<1>9. UNCHANGED << status, targets >>
  OBVIOUS
<1>10. RowsSound'
  <2>1. ASSUME NEW j \in Jobs, NEW i \in DOMAIN targets[j]
        PROVE  TrueOf(targets[j][i].status, PostsOf(j, targets[j][i].group)')
    <3>1. TrueOf(targets[j][i].status, PostsOf(j, targets[j][i].group))
      BY DEF BroadcastInv, RowsSound
    <3>2. CASE j = job /\ targets[j][i].group = group
      <4>1. i = attempt.target
        BY <1>1, <3>2 DEF BroadcastInv, RowsSound, InHand
      <4>2. targets[j][i].status = "sending"
        BY <1>2, <3>2, <4>1 DEF InHand
      <4>3. PostsOf(j, targets[j][i].group)' = {n}
        <5>1. {k \in DOMAIN posts' : posts'[k].job = job /\ posts'[k].group = group} = {n}
          BY <1>7a
        <5>2. QED BY <1>9, <3>2, <5>1 DEF PostsOf
      <4>4. QED BY <4>2, <4>3 DEF TrueOf, AtMostOne
    <3>3. CASE ~ (j = job /\ targets[j][i].group = group)
      BY <1>8, <1>9, <3>1, <3>3
    <3>4. QED BY <3>2, <3>3
  <2>2. QED BY ONLY <1>9, <2>1, BroadcastInv DEF BroadcastInv, RowsSound
<1>11. PostsSound'
  <2>1. ASSUME NEW i \in DOMAIN posts'
        PROVE  \E k \in DOMAIN targets[posts'[i].job] :
                 /\ targets[posts'[i].job][k].group = posts'[i].group
                 /\ posts'[i].by = << targets[posts'[i].job][k].bot, targets[posts'[i].job][k].revision >>
    <3>1. CASE i \in DOMAIN posts
      BY <1>6, <3>1 DEF BroadcastInv, PostsSound
    <3>2. CASE i = n
      BY <1>1, <1>4, <1>6, <3>2 DEF InHand
    <3>3. QED BY <1>6, <3>1, <3>2
  <2>2. QED BY ONLY <1>9, <2>1 DEF PostsSound
<1>12. TrueOf(outcome, PostsOf(attempt.job, InHand.group)')
  BY <1>7 DEF TrueOf, AtMostOne, ExactlyOne
<1>13. UNCHANGED << casterVars, status, queue, targets >>
  OBVIOUS
<1>14. QED
  BY ONLY <1>6, <1>10, <1>11, <1>12, <1>13, BroadcastInv, attempt # NoWork, Takes("attempted", outcome),
          outcome \in {"accepted", "failed", "unknown"}, HandChanges

LEMMA PostTrue ==
  ASSUME BroadcastInv, PostBroadcast
  PROVE  BroadcastInv'
<1>1. /\ attempt # NoWork /\ attempt.at = "leased"
      /\ UNCHANGED << casterVars, status, queue, targets, deaths >>
      /\ \/ /\ posts' = Append(posts, [job |-> attempt.job, group |-> InHand.group,
                                       by |-> << InHand.bot, revision[InHand.bot] >>])
            /\ \E outcome \in {"accepted", "failed", "unknown"} : Takes("attempted", outcome)
         \/ /\ UNCHANGED posts
            /\ \E outcome \in {"skipped", "failed", "unknown"} : Takes("attempted", outcome)
  BY DEF PostBroadcast
<1>2. CASE /\ posts' = Append(posts, [job |-> attempt.job, group |-> InHand.group,
                                      by |-> << InHand.bot, revision[InHand.bot] >>])
           /\ \E outcome \in {"accepted", "failed", "unknown"} : Takes("attempted", outcome)
  BY <1>1, <1>2, Posted
<1>3. CASE UNCHANGED posts /\ \E outcome \in {"skipped", "failed", "unknown"} : Takes("attempted", outcome)
  BY <1>1, <1>3, NotPosted
<1>4. QED BY <1>1, <1>2, <1>3

LEMMA SettleTrue ==
  ASSUME BroadcastInv, SettleRecipient
  PROVE  BroadcastInv'
<1> DEFINE job == attempt.job
           target == attempt.target
           row == [targets[job][target] EXCEPT !.status = attempt.outcome]
           rows == [targets[job] EXCEPT ![target] = row]
<1>1. /\ attempt # NoWork /\ attempt.at = "attempted" /\ attempt' = NoWork
      /\ UNCHANGED << casterVars, status, queue, posts, deaths >>
      /\ targets' = [targets EXCEPT ![job] = rows] \/ UNCHANGED targets
  BY DEF SettleRecipient
<1>2. /\ attempt \in Attempts /\ job \in Jobs /\ target \in DOMAIN targets[job]
      /\ InHand \in TargetRows
  BY <1>1, InHandTyped
<1>3. /\ targets \in [Jobs -> Seq(TargetRows)] /\ posts \in Seq(PostRows)
      /\ status \in [Jobs -> {"none", "draft", "queued", "running", "completed"}]
  BY DEF BroadcastInv, BroadcastTyped
<1>4. attempt.outcome # "none" /\ TrueOf(attempt.outcome, PostsOf(job, InHand.group))
  BY <1>1 DEF BroadcastInv, AttemptSound
<1>5. /\ row \in TargetRows /\ row.group = targets[job][target].group /\ row.bot = targets[job][target].bot
      /\ row.revision = targets[job][target].revision /\ row.status = attempt.outcome
  <2>1. attempt.outcome \in TargetStatus
    BY <1>2, <1>4 DEF Attempts, TargetStatus
  <2>2. QED BY <1>2, <2>1 DEF InHand, TargetRows
<1>6. targets[job] \in Seq(TargetRows) /\ DOMAIN targets[job] = 1..Len(targets[job])
  BY <1>2, <1>3
<1>7. InHand = targets[job][target]
  BY DEF InHand
<1> HIDE DEF row
<1>8. /\ rows \in Seq(TargetRows) /\ DOMAIN rows = DOMAIN targets[job] /\ rows[target] = row
      /\ \A k \in DOMAIN rows : k # target => rows[k] = targets[job][k]
  BY <1>2, <1>5, <1>6
<1> HIDE DEF rows
<1> HIDE DEF job, target
<1>9. \A j \in Jobs : \A i \in DOMAIN targets[j] : TrueOf(targets[j][i].status, PostsOf(j, targets[j][i].group))
  BY DEF BroadcastInv, RowsSound
<1>10. \A k \in DOMAIN rows :
         /\ rows[k].group = targets[job][k].group /\ rows[k].bot = targets[job][k].bot
         /\ rows[k].revision = targets[job][k].revision
         /\ TrueOf(rows[k].status, PostsOf(job, targets[job][k].group))
  <2> SUFFICES ASSUME NEW k \in DOMAIN rows
               PROVE  /\ rows[k].group = targets[job][k].group /\ rows[k].bot = targets[job][k].bot
                      /\ rows[k].revision = targets[job][k].revision
                      /\ TrueOf(rows[k].status, PostsOf(job, targets[job][k].group))
    OBVIOUS
  <2>1. CASE k = target
    BY <1>4, <1>5, <1>7, <1>8, <2>1
  <2>2. CASE k # target
    BY <1>2, <1>8, <1>9, <2>2
  <2>3. QED BY <2>1, <2>2
<1>11. UNCHANGED << revision, activity, queue, posts >> /\ status' = status
  BY <1>1 DEF casterVars
<1>12. CASE targets' = [targets EXCEPT ![job] = rows]
  <2>1. targets' \in [Jobs -> Seq(TargetRows)]
    BY <1>3, <1>8, <1>12
  <2>2. targets'[job] = rows /\ \A j \in Jobs : j # job => targets'[j] = targets[j]
    BY <1>2, <1>3, <1>12
  <2>3. \A j \in Jobs : DOMAIN targets'[j] = DOMAIN targets[j]
    BY <1>8, <2>2
  <2>4. \A j \in Jobs : \A i \in DOMAIN targets[j] :
          /\ targets'[j][i].group = targets[j][i].group
          /\ targets'[j][i].bot = targets[j][i].bot
          /\ targets'[j][i].revision = targets[j][i].revision
          /\ TrueOf(targets'[j][i].status, PostsOf(j, targets[j][i].group))
    BY <1>8, <1>9, <1>10, <2>2
  <2>5. QED BY <1>1, <1>3, <1>11, <2>1, <2>3, <2>4, RowsChange
<1>13. CASE UNCHANGED targets
  BY <1>1, <1>3, <1>9, <1>11, <1>13, RowsChange
<1>14. QED BY <1>1, <1>12, <1>13

LEMMA BroadcastStepTrue ==
  ASSUME BroadcastInv, [BroadcastNext]_broadcastVars
  PROVE  BroadcastInv'
<1>1. CASE \E j \in Jobs : Preview(j) \/ Submit(j)
  BY <1>1, PreviewTrue, SubmitTrue
<1>2. CASE WorkerStep
  BY <1>2, PickRecipientTrue, AdmitTrue, PostTrue, SettleTrue DEF WorkerStep
<1>3. CASE Restart
  BY <1>3, RestartTrue
<1>4. CASE Demote
  BY <1>4, DemoteTrue
<1>5. CASE \E b \in Casters : CasterChanges(b) \/ StopOrStart(b)
  BY <1>5, CastersTrue
<1>6. CASE \E b \in Casters, g \in Audience : RecordGroupActivity(b, g)
  BY <1>6, ActivityTrue
<1>7. CASE UNCHANGED broadcastVars
  <2>1. activity \in Seq(SeenRows) /\ revision \in [Casters -> Nat]
    BY DEF BroadcastInv, BroadcastTyped
  <2>2. QED BY <1>7, <2>1, BotsChange DEF broadcastVars
<1>8. QED BY <1>1, <1>2, <1>3, <1>4, <1>5, <1>6, <1>7 DEF BroadcastNext

\* What the invariant says of one recipient is what the administrator reads of it.
LEMMA TrueIsTold ==
  ASSUME BroadcastInv
  PROVE  ToldOnce
<1>1. ASSUME NEW j \in Jobs, NEW i \in DOMAIN targets[j]
      PROVE  LET t == targets[j][i]
                 n == PostsTo(j, t.group)
             IN CASE t.status \in {"pending", "skipped"} -> n = 0
                  [] t.status = "accepted"               -> n = 1
                  [] OTHER                               -> n <= 1
  <2> DEFINE s == targets[j][i].status
             P == PostsOf(j, targets[j][i].group)
             n == Cardinality(P)
  <2>1. TrueOf(s, P)
    BY DEF BroadcastInv, RowsSound
  <2>2. PostsTo(j, targets[j][i].group) = n
    BY DEF PostsTo, PostsOf
  <2> HIDE DEF s, P
  <2>3. P = {} => n = 0
    BY FS_EmptySet
  <2>4. ExactlyOne(P) => n = 1
    <3>1. ASSUME NEW p, P = {p} PROVE n = 1
      BY <3>1, FS_Singleton
    <3>2. QED BY <3>1 DEF ExactlyOne
  <2>5. P = {} \/ ExactlyOne(P)
    <3>1. AtMostOne(P)
      BY <2>1 DEF TrueOf
    <3>2. ASSUME NEW p \in P PROVE P = {p}
      BY <3>1 DEF AtMostOne
    <3>3. QED BY <3>2 DEF ExactlyOne
  <2>6. n <= 1 /\ (s \in {"pending", "skipped"} => n = 0) /\ (s = "accepted" => n = 1)
    BY <2>1, <2>3, <2>4, <2>5 DEF TrueOf
  <2> HIDE DEF n
  <2>7. CASE s \in {"pending", "skipped"}
    BY <2>2, <2>6, <2>7 DEF s
  <2>8. CASE s = "accepted"
    BY <2>2, <2>6, <2>8 DEF s
  <2>9. CASE s \notin {"pending", "skipped", "accepted"}
    BY <2>2, <2>6, <2>9 DEF s
  <2>10. QED BY <2>7, <2>8, <2>9
<1>2. PostsSound
  BY DEF BroadcastInv
<1>3. QED BY <1>1, <1>2 DEF ToldOnce, PostsSound

THEOREM ToldAtMostOnce == BroadcastSpec => []ToldOnce
<1>1. BroadcastInit => BroadcastInv
  BY BroadcastInitTrue
<1>2. BroadcastInv /\ [BroadcastNext]_broadcastVars => BroadcastInv'
  BY BroadcastStepTrue
<1>3. BroadcastInv => ToldOnce
  BY TrueIsTold
<1>4. QED BY <1>1, <1>2, <1>3, PTL DEF BroadcastSpec

LEMMA DeathsBounded ==
  ASSUME deaths \in 0..MaxDeaths, [BroadcastNext]_broadcastVars
  PROVE  deaths' \in 0..MaxDeaths
<1>1. MaxDeaths \in Nat
  BY BroadcastAssumption
<1>2. CASE Restart
  BY <1>1, <1>2 DEF Restart
<1>3. CASE UNCHANGED deaths
  BY <1>3
<1>4. Restart \/ UNCHANGED deaths
  BY DEF BroadcastNext, broadcastVars, Preview, Submit, WorkerStep, PickRecipient, AdmitWorker,
         PostBroadcast, SettleRecipient, Demote, CasterChanges, StopOrStart, RecordGroupActivity
<1>5. QED BY <1>2, <1>3, <1>4

(***************************************************************************)
(* BroadcastsTyped: jobs and recipients have one of the states of their     *)
(* rows, and so has the recipient in hand (broadcast/service.py).          *)
(***************************************************************************)
THEOREM BroadcastsTyped == BroadcastSpec => []BroadcastTypeOK
<1> DEFINE D == deaths \in 0..MaxDeaths
<1>1. BroadcastInit => BroadcastInv /\ D
  BY BroadcastInitTrue, BroadcastAssumption DEF BroadcastInit
<1>2. BroadcastInv /\ D /\ [BroadcastNext]_broadcastVars => (BroadcastInv /\ D)'
  BY BroadcastStepTrue, DeathsBounded
<1>3. BroadcastInv /\ D => BroadcastTypeOK
  <2> SUFFICES ASSUME BroadcastInv, D PROVE BroadcastTypeOK
    OBVIOUS
  <2>1. ASSUME NEW j \in Jobs, NEW i \in DOMAIN targets[j] PROVE targets[j][i].status \in TargetStatus
    <3>1. targets[j] \in Seq(TargetRows)
      BY DEF BroadcastInv, BroadcastTyped
    <3>2. targets[j][i] \in TargetRows
      BY <3>1
    <3>3. QED BY <3>2 DEF TargetRows
  <2>2. QED BY <2>1 DEF BroadcastInv, BroadcastTyped, BroadcastTypeOK
<1>4. QED BY <1>1, <1>2, <1>3, PTL DEF BroadcastSpec

-----------------------------------------------------------------------------
(***************************************************************************)
(* Budgets.                                                                *)
(***************************************************************************)
Buckets == [level : Nat, at : Nat]
SourceRows == [source : Sources, bucket : Buckets]

BudgetsTyped ==
  /\ clock \in Nat
  /\ total = NoBucket \/ (total \in Buckets /\ total.at <= clock)
  /\ sources \in Seq(SourceRows)
  /\ hits \in [Sources -> Seq(Nat)]
  /\ tier \in [Sources -> [at : Nat, floor : Nat]]
  /\ promise \in [Sources -> [of : {"none", "ingress", "credential", "tier"}, at : Nat]]

OneEach(rows) == \A i, k \in DOMAIN rows : rows[i].source = rows[k].source => i = k

\* The table is within its bound, with one row to a source, none from the future;
\* and no window holds more hits than its limit.
TableSound ==
  /\ Len(sources) <= MaxSources /\ OneEach(sources)
  /\ \A i \in DOMAIN sources : sources[i].bucket.at <= clock
  /\ \A s \in Sources : Len(hits[s]) <= SourceLimit

\* A bucket that holds a token at p, if nothing is drawn from it before.
Refilled(bucket, limit, p) == bucket.level + (p - bucket.at) * limit >= Window

\* What a promise rests on, in the state of its budget as it is now.
IngressSound(s) ==
  promise[s].of = "ingress" =>
    /\ total # NoBucket => Refilled(total, GlobalLimit, promise[s].at)
    /\ \A i \in DOMAIN sources :
         sources[i].source = s => Refilled(sources[i].bucket, SourceLimit, promise[s].at)
    /\ \/ Len(sources) < MaxSources
       \/ \E i \in DOMAIN sources : sources[i].source = s
       \/ \A i \in DOMAIN sources : sources[i].bucket.at + Window <= promise[s].at

CredentialSound(s) ==
  promise[s].of = "credential" => hits[s] # << >> /\ Head(hits[s]) + Window <= promise[s].at

TierSound(s) ==
  promise[s].of = "tier" => promise[s].at - tier[s].at >= tier[s].floor

PromisesSound == \A s \in Sources : IngressSound(s) /\ CredentialSound(s) /\ TierSound(s)

BudgetsInv == BudgetsTyped /\ TableSound /\ PromisesSound

-----------------------------------------------------------------------------
LEMMA TimesMonotone ==
  ASSUME NEW x \in Int, NEW y \in Int, NEW c \in Nat, x <= y
  PROVE  x * c \in Int /\ y * c \in Int /\ x * c <= y * c
OBVIOUS

LEMMA CeilingCovers ==
  ASSUME NEW a \in Nat, NEW b \in Nat \ {0}
  PROVE  Ceiling(a, b) \in Nat /\ Ceiling(a, b) * b >= a
BY DEF Ceiling

LEMMA BudgetLimits ==
  /\ Window \in Nat /\ Window >= 1 /\ SourceLimit \in Nat /\ SourceLimit >= 1
  /\ GlobalLimit \in Nat /\ GlobalLimit >= 1 /\ MaxSources \in Nat /\ MaxSources >= 1
  /\ Floors \subseteq Nat /\ NoBucket \notin Buckets
BY BudgetsAssumption DEF Buckets

\* A bucket's level is between nothing and what has come in since it was drawn from,
\* and a whole token is there as soon as it has come in.
LEMMA Levels ==
  ASSUME clock \in Nat, NEW b \in Buckets, b.at <= clock, NEW limit \in Nat, limit >= 1
  PROVE  /\ Level(b, limit) \in Nat
         /\ Level(b, limit) <= b.level + (clock - b.at) * limit
         /\ Refilled(b, limit, clock) => Level(b, limit) >= Window
<1> DEFINE x == (clock - b.at) * limit
           y == limit * Window
<1>1. b # NoBucket /\ b.level \in Nat /\ b.at \in Nat /\ Window \in Nat
  BY BudgetLimits DEF Buckets
<1>2. x \in Nat
  BY <1>1
<1>3. y \in Nat /\ y >= Window
  BY <1>1
<1>4. Level(b, limit) = IF b.level + x > y THEN y ELSE b.level + x
  BY <1>1 DEF Level
<1>5. Refilled(b, limit, clock) => b.level + x >= Window
  BY DEF Refilled
<1> HIDE DEF x, y
<1>6. Level(b, limit) \in Nat /\ Level(b, limit) <= b.level + x
      /\ (Refilled(b, limit, clock) => Level(b, limit) >= Window)
  BY <1>1, <1>2, <1>3, <1>4, <1>5
<1>7. QED BY <1>6 DEF x

LEMMA UntouchedLevel ==
  ASSUME NEW limit \in Nat, limit >= 1
  PROVE  Level(NoBucket, limit) \in Nat /\ Level(NoBucket, limit) >= Window
<1>1. limit * Window \in Nat /\ limit * Window >= Window
  BY BudgetLimits
<1>2. QED BY <1>1 DEF Level

\* A bucket refills within the wait for what it misses.
LEMMA WaitRefills ==
  ASSUME clock \in Nat, NEW b \in Buckets, b.at <= clock, NEW limit \in Nat, limit >= 1,
         NEW wait \in Nat, Ceiling(Missing(Level(b, limit)), limit) <= wait
  PROVE  Refilled(b, limit, clock + wait)
<1> DEFINE m == Missing(Level(b, limit))
           c == Ceiling(m, limit)
           x == (clock - b.at) * limit
<1>1. /\ Level(b, limit) \in Nat /\ Level(b, limit) <= b.level + x
      /\ b.level \in Nat /\ b.at \in Nat /\ Window \in Nat
  BY Levels, BudgetLimits DEF Buckets
<1>2. m \in Nat /\ Level(b, limit) + m >= Window
  BY <1>1 DEF Missing
<1> HIDE DEF m
<1>3. c \in Nat /\ c * limit >= m
  BY <1>2, CeilingCovers
<1> HIDE DEF c
<1>4. c <= wait
  BY DEF c, m
<1>5. c * limit <= wait * limit
  BY <1>3, <1>4, TimesMonotone
<1>6. ((clock + wait) - b.at) * limit = x + wait * limit
  BY <1>1
<1>7. x \in Int /\ wait * limit \in Int /\ c * limit \in Int
  BY <1>1, <1>3
<1>8. b.level + (x + wait * limit) >= Window
  <2> DEFINE u == c * limit
             v == wait * limit
             level == Level(b, limit)
  <2>1. x \in Int /\ u \in Int /\ v \in Int /\ u >= m /\ u <= v
    BY <1>3, <1>5, <1>7
  <2>2. level \in Nat /\ level <= b.level + x /\ b.level \in Nat /\ Window \in Nat
        /\ m \in Nat /\ level + m >= Window
    BY <1>1, <1>2
  <2> HIDE DEF x, u, v, level
  <2>3. b.level + (x + v) >= Window
    BY ONLY <2>1, <2>2
  <2>4. QED BY <2>3 DEF v
<1> DEFINE w == ((clock + wait) - b.at) * limit
           y == x + wait * limit
<1>9. w = y /\ b.level + y >= Window
  BY <1>6, <1>8
<1> HIDE DEF y
<1>10. b.level + w >= Window
  <2> HIDE DEF w
  <2>1. QED BY ONLY <1>9
<1>11. QED BY ONLY <1>10, Zenon DEF Refilled

LEMMA WindowRefills ==
  ASSUME NEW b \in Buckets, NEW limit \in Nat, limit >= 1, NEW p \in Nat, b.at + Window <= p
  PROVE  Refilled(b, limit, p)
<1>1. b.level \in Nat /\ b.at \in Nat /\ Window \in Nat
  BY BudgetLimits DEF Buckets
<1>2. Window * limit <= (p - b.at) * limit /\ Window * limit \in Int /\ (p - b.at) * limit \in Int
  BY <1>1, TimesMonotone
<1>3. Window <= Window * limit
  BY <1>1
<1>4. QED BY <1>1, <1>2, <1>3 DEF Refilled

LEMMA RefilledLater ==
  ASSUME NEW b \in Buckets, NEW limit \in Nat, NEW p \in Nat, NEW q \in Nat, p <= q,
         Refilled(b, limit, p)
  PROVE  Refilled(b, limit, q)
<1>1. b.level \in Nat /\ b.at \in Nat /\ Window \in Nat
  BY BudgetLimits DEF Buckets
<1>2. /\ (p - b.at) * limit <= (q - b.at) * limit
      /\ (p - b.at) * limit \in Int /\ (q - b.at) * limit \in Int
  BY <1>1, TimesMonotone
<1>3. QED BY <1>1, <1>2 DEF Refilled

-----------------------------------------------------------------------------
LEMMA PickedOneEach ==
  ASSUME NEW A, NEW rows \in Seq(A), NEW I \in SUBSET (1..Len(rows)), OneEach(rows)
  PROVE  OneEach(Picked(rows, I))
<1> DEFINE r == Picked(rows, I)
<1>1. r \in Seq(A) /\ \E f : Follows(r, rows, I, f)
  BY PickedFollows
<1> HIDE DEF r
<1>2. PICK f : Follows(r, rows, I, f)
  BY <1>1
<1>3. ASSUME NEW i \in 1..Len(r), NEW k \in 1..Len(r), r[i].source = r[k].source, i < k PROVE FALSE
  <2>1. f[i] \in 1..Len(rows) /\ f[k] \in 1..Len(rows) /\ f[i] < f[k]
    BY <1>2, <1>3 DEF Follows
  <2>2. rows[f[i]].source = rows[f[k]].source
    BY <1>2, <1>3 DEF Follows
  <2>3. f[i] = f[k]
    BY <2>1, <2>2 DEF OneEach
  <2>4. QED BY <2>1, <2>3
<1>4. \A i, k \in 1..Len(r) : r[i].source = r[k].source => i = k
  BY <1>1, <1>3
<1>5. DOMAIN r = 1..Len(r)
  BY <1>1
<1>6. QED BY <1>4, <1>5 DEF OneEach, r

\* The rows that a check finds in the table.
LEMMA RememberedIs ==
  ASSUME BudgetsInv
  PROVE  /\ Remembered \in Seq(SourceRows) /\ OneEach(Remembered)
         /\ Len(Remembered) \in Nat /\ Len(Remembered) <= Len(sources)
         /\ \A i \in DOMAIN Remembered :
              \E k \in DOMAIN sources : Remembered[i] = sources[k] /\ sources[k].bucket.at > clock - Window
         /\ \A k \in DOMAIN sources :
              \/ \E i \in DOMAIN Remembered : Remembered[i] = sources[k]
              \/ Len(Remembered) < Len(sources)
<1> DEFINE I == {i \in DOMAIN sources : sources[i].bucket.at > clock - Window}
<1>1. sources \in Seq(SourceRows) /\ OneEach(sources)
  BY DEF BudgetsInv, BudgetsTyped, TableSound
<1>2. I \in SUBSET (1..Len(sources)) /\ DOMAIN sources = 1..Len(sources)
  BY <1>1
<1>3. Remembered = Picked(sources, I)
  BY DEF Remembered
<1>4. \A k \in I : k \in DOMAIN sources /\ sources[k].bucket.at > clock - Window
  OBVIOUS
<1> HIDE DEF I
<1>5. /\ Remembered \in Seq(SourceRows)
      /\ \A i \in DOMAIN Remembered : \E k \in I : Remembered[i] = sources[k]
      /\ \A k \in I : \E i \in DOMAIN Remembered : Remembered[i] = sources[k]
  BY <1>1, <1>2, <1>3, PickedRows
<1>6. OneEach(Remembered)
  BY <1>1, <1>2, <1>3, PickedOneEach
<1>7. /\ Len(Remembered) <= Len(sources)
      /\ \A n \in 1..Len(sources) : n \notin I => Len(Remembered) < Len(sources)
  BY <1>1, <1>2, <1>3, PickedLength
<1>8. Len(Remembered) \in Nat
  BY <1>5
<1>9. QED BY <1>2, <1>4, <1>5, <1>6, <1>7, <1>8

\* The bucket of a source is that of its one row, if it has a row.
LEMMA BucketOfIs ==
  ASSUME BudgetsInv, NEW s \in Sources
  PROVE  \/ /\ BucketOf(s) = NoBucket
            /\ \A i \in DOMAIN Remembered : Remembered[i].source # s
         \/ \E i \in DOMAIN Remembered :
              /\ Remembered[i].source = s /\ BucketOf(s) = Remembered[i].bucket
              /\ Remembered[i].bucket \in Buckets /\ Remembered[i].bucket.at <= clock
<1> DEFINE r == Remembered
<1>1. /\ r \in Seq(SourceRows) /\ OneEach(r)
      /\ \A i \in DOMAIN r : \E k \in DOMAIN sources : r[i] = sources[k]
  BY RememberedIs
<1>2. ToSet(r) = {r[i] : i \in DOMAIN r}
  BY DEF ToSet
<1>3. BucketOf(s) = IF \E e \in ToSet(r) : e.source = s
                    THEN (CHOOSE e \in ToSet(r) : e.source = s).bucket ELSE NoBucket
  BY DEF BucketOf
<1> HIDE DEF r
<1>4. CASE \E i \in DOMAIN r : r[i].source = s
  <2>1. \E e \in ToSet(r) : e.source = s
    BY <1>2, <1>4
  <2> DEFINE e == CHOOSE e \in ToSet(r) : e.source = s
  <2>2. e \in ToSet(r) /\ e.source = s
    BY <2>1
  <2> HIDE DEF e
  <2>3. PICK i \in DOMAIN r : e = r[i]
    BY <1>2, <2>2
  <2>4. BucketOf(s) = r[i].bucket /\ r[i].source = s
    BY <1>3, <2>1, <2>2, <2>3 DEF e
  <2>5. r[i] \in SourceRows
    BY <1>1
  <2>6. r[i].bucket \in Buckets
    BY <2>5 DEF SourceRows
  <2>7. r[i].bucket.at <= clock
    BY <1>1 DEF BudgetsInv, TableSound
  <2>8. QED BY <2>4, <2>6, <2>7 DEF r
<1>5. CASE ~ \E i \in DOMAIN r : r[i].source = s
  BY <1>2, <1>3, <1>5 DEF r
<1>6. QED BY <1>4, <1>5

-----------------------------------------------------------------------------
LEMMA BudgetsInitTrue == BudgetsInit => BudgetsInv
<1> SUFFICES ASSUME BudgetsInit PROVE BudgetsInv
  OBVIOUS
<1>1. BudgetsTyped
  BY DEF BudgetsInit, BudgetsTyped, NoPromise
<1>2. TableSound
  BY BudgetLimits DEF BudgetsInit, TableSound, OneEach
<1>3. PromisesSound
  BY DEF BudgetsInit, PromisesSound, IngressSound, CredentialSound, TierSound, NoPromise
<1>4. QED BY <1>1, <1>2, <1>3 DEF BudgetsInv

LEMMA TickTrue ==
  ASSUME BudgetsInv, ClockTicks
  PROVE  BudgetsInv'
<1>1. clock' = clock + 1 /\ UNCHANGED << kind, total, sources, hits, tier, actors, promise >>
  BY DEF ClockTicks
<1>2. BudgetsTyped'
  BY <1>1 DEF BudgetsInv, BudgetsTyped, Buckets
<1>3. TableSound'
  <2>1. \A i \in DOMAIN sources : sources[i].bucket.at \in Nat
    <3>1. \A i \in DOMAIN sources : sources[i] \in SourceRows
      BY DEF BudgetsInv, BudgetsTyped
    <3>2. QED BY <3>1 DEF SourceRows, Buckets
  <2>2. clock \in Nat
    BY DEF BudgetsInv, BudgetsTyped
  <2>3. \A i \in DOMAIN sources' : sources'[i].bucket.at <= clock'
    BY <1>1, <2>1, <2>2 DEF BudgetsInv, TableSound
  <2>4. QED BY <1>1, <2>3 DEF BudgetsInv, TableSound, OneEach
<1>4. PromisesSound'
  BY <1>1 DEF BudgetsInv, PromisesSound, IngressSound, CredentialSound, TierSound, Refilled
<1>5. QED BY <1>2, <1>3, <1>4 DEF BudgetsInv

LEMMA ClaimTrue ==
  ASSUME BudgetsInv, NEW s \in Sources, ClaimChat(s) \/ UNCHANGED budgetVars
  PROVE  BudgetsInv'
<1>1. UNCHANGED << clock, total, sources, hits, tier, promise >>
  BY DEF ClaimChat, budgetVars
<1>2. BudgetsTyped'
  BY <1>1 DEF BudgetsInv, BudgetsTyped
<1>3. TableSound'
  BY <1>1 DEF BudgetsInv, TableSound, OneEach
<1>4. PromisesSound'
  BY <1>1 DEF BudgetsInv, PromisesSound, IngressSound, CredentialSound, TierSound, Refilled
<1>5. QED BY <1>2, <1>3, <1>4 DEF BudgetsInv

\* A promise of one budget says nothing of the others.
LEMMA PromiseTyped ==
  ASSUME BudgetsInv, NEW s \in Sources, NEW budget \in {"ingress", "credential", "tier"},
         NEW wait \in Nat
  PROVE  /\ Promised(s, budget, wait) \in [Sources -> [of : {"none", "ingress", "credential", "tier"}, at : Nat]]
         /\ Promised(s, budget, wait)[s].of = budget /\ Promised(s, budget, wait)[s].at = clock + wait
         /\ \A t \in Sources : t # s => Promised(s, budget, wait)[t] = promise[t]
BY DEF BudgetsInv, BudgetsTyped, Promised

LEMMA BrokenTyped ==
  ASSUME BudgetsInv, NEW S, NEW budget
  PROVE  /\ Broken(S, budget) \in [Sources -> [of : {"none", "ingress", "credential", "tier"}, at : Nat]]
         /\ \A t \in Sources : Broken(S, budget)[t] = promise[t] \/ Broken(S, budget)[t].of = "none"
         /\ \A t \in Sources : t \in S => Broken(S, budget)[t].of # budget \/ budget = "none"
BY DEF BudgetsInv, BudgetsTyped, Broken, NoPromise

LEMMA TierTrue ==
  ASSUME BudgetsInv, NEW s \in Sources, CheckTier(s) \/ InvalidateTier(s)
  PROVE  BudgetsInv'
<1>1. UNCHANGED << clock, total, sources, hits >>
  BY DEF CheckTier, InvalidateTier
<1>2. /\ clock \in Nat /\ tier \in [Sources -> [at : Nat, floor : Nat]]
      /\ promise \in [Sources -> [of : {"none", "ingress", "credential", "tier"}, at : Nat]]
  BY DEF BudgetsInv, BudgetsTyped
<1>3. TableSound'
  BY <1>1 DEF BudgetsInv, TableSound, OneEach
<1>4. \A t \in Sources : tier[t].at \in Nat /\ tier[t].floor \in Nat /\ promise[t].at \in Nat /\ TierSound(t)
  BY <1>2 DEF BudgetsInv, PromisesSound
<1>5. /\ tier' \in [Sources -> [at : Nat, floor : Nat]]
      /\ promise' \in [Sources -> [of : {"none", "ingress", "credential", "tier"}, at : Nat]]
      /\ \A t \in Sources : promise'[t] = promise[t] \/ promise'[t].of \in {"none", "tier"}
      /\ \A t \in Sources : promise'[t].of = "tier" => promise'[t].at - tier'[t].at >= tier'[t].floor
  <2>1. CASE CheckTier(s) /\ TierAllows(s)
    <3>1. PICK floor \in Floors : /\ tier' = [tier EXCEPT ![s] = [at |-> clock, floor |-> floor]]
                                  /\ promise' = Broken({s}, "tier")
      BY <2>1 DEF CheckTier
    <3>2. floor \in Nat
      BY BudgetLimits
    <3>3. tier' \in [Sources -> [at : Nat, floor : Nat]] /\ \A t \in Sources : t # s => tier'[t] = tier[t]
      BY <1>2, <3>1, <3>2
    <3>4. /\ promise' \in [Sources -> [of : {"none", "ingress", "credential", "tier"}, at : Nat]]
          /\ \A t \in Sources : promise'[t] = promise[t] \/ promise'[t].of = "none"
          /\ promise'[s].of # "tier"
      BY <3>1, BrokenTyped
    <3>5. QED BY <1>4, <3>3, <3>4 DEF TierSound
  <2>2. CASE CheckTier(s) /\ ~ TierAllows(s)
    <3> DEFINE wait == AtLeastOne(tier[s].floor - (clock - tier[s].at) + 1)
    <3>1. promise' = Promised(s, "tier", wait) /\ tier' = tier
      BY <2>2 DEF CheckTier
    <3>2. wait \in Nat /\ clock + wait - tier[s].at >= tier[s].floor
      BY <1>2, <1>4 DEF AtLeastOne
    <3> HIDE DEF wait
    <3>3. /\ promise' \in [Sources -> [of : {"none", "ingress", "credential", "tier"}, at : Nat]]
          /\ promise'[s].of = "tier" /\ promise'[s].at = clock + wait
          /\ \A t \in Sources : t # s => promise'[t] = promise[t]
      BY <3>1, <3>2, PromiseTyped
    <3>4. QED BY <1>2, <1>4, <3>1, <3>2, <3>3 DEF TierSound
  <2>3. CASE InvalidateTier(s)
    <3>1. tier' = [tier EXCEPT ![s] = [at |-> 0, floor |-> 0]] /\ promise' = promise
      BY <2>3 DEF InvalidateTier
    <3>2. tier' \in [Sources -> [at : Nat, floor : Nat]] /\ tier'[s].at = 0 /\ tier'[s].floor = 0
          /\ \A t \in Sources : t # s => tier'[t] = tier[t]
      BY <1>2, <3>1
    <3>3. QED BY <1>2, <1>4, <3>1, <3>2 DEF TierSound
  <2>4. QED BY <2>1, <2>2, <2>3
<1>6. BudgetsTyped'
  BY <1>1, <1>5 DEF BudgetsInv, BudgetsTyped
<1>7. PromisesSound'
  <2>1. \A t \in Sources : IngressSound(t)' /\ CredentialSound(t)'
    <3> SUFFICES ASSUME NEW t \in Sources PROVE IngressSound(t)' /\ CredentialSound(t)'
      OBVIOUS
    <3>1. IngressSound(t) /\ CredentialSound(t)
      BY DEF BudgetsInv, PromisesSound
    <3>2. promise'[t] = promise[t] \/ promise'[t].of \in {"none", "tier"}
      BY <1>5
    <3>3. QED BY <1>1, <3>1, <3>2 DEF IngressSound, CredentialSound, Refilled
  <2>2. \A t \in Sources : TierSound(t)'
    BY <1>5 DEF TierSound
  <2>3. QED BY <2>1, <2>2 DEF PromisesSound
<1>8. QED BY <1>3, <1>6, <1>7 DEF BudgetsInv

\* The hits that count, now or later.
LEMMA InWindowIs ==
  ASSUME NEW times \in Seq(Nat), clock \in Nat
  PROVE  /\ InWindow(times) \in Seq(Nat) /\ Len(InWindow(times)) <= Len(times)
         /\ (times # << >> /\ clock - Head(times) >= Window) => Len(InWindow(times)) < Len(times)
<1> DEFINE I == {i \in DOMAIN times : clock - times[i] < Window}
<1>1. I \in SUBSET (1..Len(times)) /\ InWindow(times) = Picked(times, I)
  BY DEF InWindow
<1>2. Window \in Nat
  BY BudgetLimits
<1>3. times # << >> => 1 \in 1..Len(times) /\ Head(times) = times[1] /\ times[1] \in Nat
  OBVIOUS
<1>4. (times # << >> /\ clock - Head(times) >= Window) => 1 \in 1..Len(times) /\ 1 \notin I
  BY <1>2, <1>3
<1> HIDE DEF I
<1>5. QED BY <1>1, <1>4, PickedRows, PickedLength

LEMMA CredentialTrue ==
  ASSUME BudgetsInv, NEW s \in Sources, CheckCredential(s)
  PROVE  BudgetsInv'
<1> DEFINE now == InWindow(hits[s])
<1>1. UNCHANGED << clock, total, sources, tier >>
  BY DEF CheckCredential
<1>2. /\ clock \in Nat /\ hits \in [Sources -> Seq(Nat)]
      /\ promise \in [Sources -> [of : {"none", "ingress", "credential", "tier"}, at : Nat]]
      /\ Window \in Nat /\ SourceLimit \in Nat /\ SourceLimit >= 1
      /\ \A t \in Sources : Len(hits[t]) <= SourceLimit
  BY BudgetLimits DEF BudgetsInv, BudgetsTyped, TableSound
<1>3. now \in Seq(Nat) /\ Len(now) \in Nat /\ Len(now) <= SourceLimit
  <2>1. hits[s] \in Seq(Nat) /\ Len(hits[s]) <= SourceLimit /\ Len(hits[s]) \in Nat
    BY <1>2
  <2>2. now \in Seq(Nat) /\ Len(now) <= Len(hits[s])
    BY <1>2, <2>1, InWindowIs
  <2> HIDE DEF now
  <2>3. Len(now) \in Nat
    BY <2>2
  <2>4. QED BY <1>2, <2>1, <2>2, <2>3
<1>4. \/ /\ Len(now) >= SourceLimit
         /\ hits' = [hits EXCEPT ![s] = now]
         /\ promise' = Promised(s, "credential", RetryAfter(now))
      \/ /\ Len(now) < SourceLimit
         /\ hits' = [hits EXCEPT ![s] = Append(now, clock)]
         /\ promise' = Broken({s}, "credential")
  BY <1>2, <1>3 DEF CheckCredential
<1> HIDE DEF now
<1>5. /\ hits' \in [Sources -> Seq(Nat)] /\ \A t \in Sources : Len(hits'[t]) <= SourceLimit
      /\ \A t \in Sources : t # s => hits'[t] = hits[t]
      /\ promise' \in [Sources -> [of : {"none", "ingress", "credential", "tier"}, at : Nat]]
      /\ \A t \in Sources : t # s => promise'[t] = promise[t] \/ promise'[t].of = "none"
      /\ promise'[s] = promise[s] \/ promise'[s].of \in {"none", "credential"}
      /\ promise'[s].of = "credential" => hits'[s] # << >> /\ Head(hits'[s]) + Window <= promise'[s].at
  <2>1. CASE /\ Len(now) >= SourceLimit
             /\ hits' = [hits EXCEPT ![s] = now]
             /\ promise' = Promised(s, "credential", RetryAfter(now))
    <3>1. now # << >> /\ Head(now) \in Nat
      BY <1>2, <1>3, <2>1
    <3>2. RetryAfter(now) \in Nat /\ Head(now) + Window <= clock + RetryAfter(now)
      <4>1. RetryAfter(now) = AtLeastOne(Window - (clock - Head(now)) + 1)
        BY DEF RetryAfter
      <4>2. QED BY <1>2, <3>1, <4>1 DEF AtLeastOne
    <3>3. /\ promise' \in [Sources -> [of : {"none", "ingress", "credential", "tier"}, at : Nat]]
          /\ promise'[s].of = "credential" /\ promise'[s].at = clock + RetryAfter(now)
          /\ \A t \in Sources : t # s => promise'[t] = promise[t]
      BY <2>1, <3>2, PromiseTyped
    <3>4. /\ hits' \in [Sources -> Seq(Nat)] /\ hits'[s] = now
          /\ \A t \in Sources : t # s => hits'[t] = hits[t]
      BY <1>2, <1>3, <2>1
    <3>5. QED BY <1>2, <1>3, <3>1, <3>2, <3>3, <3>4
  <2>2. CASE /\ Len(now) < SourceLimit
             /\ hits' = [hits EXCEPT ![s] = Append(now, clock)]
             /\ promise' = Broken({s}, "credential")
    <3>1. Append(now, clock) \in Seq(Nat) /\ Len(Append(now, clock)) <= SourceLimit
      BY <1>2, <1>3, <2>2
    <3>2. /\ hits' \in [Sources -> Seq(Nat)] /\ hits'[s] = Append(now, clock)
          /\ \A t \in Sources : t # s => hits'[t] = hits[t]
      BY <1>2, <3>1, <2>2
    <3>3. /\ promise' \in [Sources -> [of : {"none", "ingress", "credential", "tier"}, at : Nat]]
          /\ \A t \in Sources : promise'[t] = promise[t] \/ promise'[t].of = "none"
          /\ promise'[s].of # "credential"
      BY <2>2, BrokenTyped
    <3>4. QED BY <1>2, <3>1, <3>2, <3>3
  <2>3. QED BY <1>4, <2>1, <2>2
<1>6. BudgetsTyped'
  BY <1>1, <1>5 DEF BudgetsInv, BudgetsTyped
<1>7. TableSound'
  BY <1>1, <1>5 DEF BudgetsInv, TableSound, OneEach
<1>8. PromisesSound'
  <2> SUFFICES ASSUME NEW t \in Sources PROVE IngressSound(t)' /\ CredentialSound(t)' /\ TierSound(t)'
    BY DEF PromisesSound
  <2>1. IngressSound(t) /\ CredentialSound(t) /\ TierSound(t)
    BY DEF BudgetsInv, PromisesSound
  <2>2. promise'[t] = promise[t] \/ promise'[t].of \in {"none", "credential"}
    BY <1>5
  <2>3. IngressSound(t)' /\ TierSound(t)'
    BY <1>1, <2>1, <2>2 DEF IngressSound, TierSound, Refilled
  <2>4. CredentialSound(t)'
    BY <1>5, <2>1 DEF CredentialSound
  <2>5. QED BY <2>3, <2>4
<1>9. QED BY <1>6, <1>7, <1>8 DEF BudgetsInv

-----------------------------------------------------------------------------
\* A bucket that is drawn from keeps what the token leaves of it.
LEMMA DrawnTyped ==
  ASSUME clock \in Nat, NEW level \in Nat, level >= Window
  PROVE  Drawn(level) \in Buckets /\ Drawn(level).at = clock
BY BudgetLimits DEF Drawn, Buckets

LEMMA LevelOf ==
  ASSUME BudgetsInv, NEW s \in Sources
  PROVE  Level(total, GlobalLimit) \in Nat /\ Level(BucketOf(s), SourceLimit) \in Nat
<1>1. clock \in Nat /\ (total = NoBucket \/ (total \in Buckets /\ total.at <= clock))
  BY DEF BudgetsInv, BudgetsTyped
<1>2. Level(total, GlobalLimit) \in Nat
  BY <1>1, Levels, UntouchedLevel, BudgetLimits
<1>3. BucketOf(s) = NoBucket \/ (BucketOf(s) \in Buckets /\ BucketOf(s).at <= clock)
  BY BucketOfIs
<1>4. Level(BucketOf(s), SourceLimit) \in Nat
  BY <1>1, <1>3, Levels, UntouchedLevel, BudgetLimits
<1>5. QED BY <1>2, <1>4

\* A request that is served: its row moves to the end, and fits.
LEMMA AllowedTrue ==
  ASSUME BudgetsInv, NEW s \in Sources, CheckIngress(s), IngressAllows(s)
  PROVE  BudgetsInv'
<1> DEFINE r == Remembered
           I == {i \in DOMAIN r : r[i].source # s}
           row == [source |-> s, bucket |-> Drawn(Level(BucketOf(s), SourceLimit))]
           rows == Picked(r, I)
<1>1. /\ total' = Drawn(Level(total, GlobalLimit)) /\ sources' = Append(rows, row)
      /\ promise' = Broken(Sources, "ingress")
      /\ UNCHANGED << clock, hits, tier >>
      /\ ~ TableFull(s) /\ Level(total, GlobalLimit) >= Window
      /\ Level(BucketOf(s), SourceLimit) >= Window
  BY DEF CheckIngress, IngressAllows
<1>2. /\ r \in Seq(SourceRows) /\ OneEach(r) /\ Len(r) \in Nat /\ Len(r) <= Len(sources)
      /\ \A i \in DOMAIN r : \E k \in DOMAIN sources : r[i] = sources[k]
  BY RememberedIs
<1>3. /\ clock \in Nat /\ sources \in Seq(SourceRows) /\ MaxSources \in Nat /\ Len(sources) <= MaxSources
      /\ \A i \in DOMAIN sources : sources[i].bucket.at <= clock
  BY BudgetLimits DEF BudgetsInv, BudgetsTyped, TableSound
<1>4. row \in SourceRows /\ row.source = s /\ row.bucket.at = clock
  BY <1>1, <1>3, LevelOf, DrawnTyped DEF SourceRows
<1>5. total' \in Buckets /\ total'.at = clock
  BY <1>1, <1>3, LevelOf, DrawnTyped
<1>6. Len(r) < MaxSources \/ \E i \in DOMAIN r : r[i].source = s
  BY <1>1, <1>2, <1>3, BucketOfIs DEF TableFull
<1> HIDE DEF r, row
<1>7. I \in SUBSET (1..Len(r)) /\ DOMAIN r = 1..Len(r)
  BY <1>2
<1>8. \A i \in DOMAIN r : r[i].source = s <=> i \notin I
  OBVIOUS
<1> HIDE DEF I
<1>9. /\ rows \in Seq(SourceRows) /\ OneEach(rows)
      /\ \A i \in DOMAIN rows : \E k \in I : rows[i] = r[k]
      /\ Len(rows) <= Len(r)
      /\ \A n \in 1..Len(r) : n \notin I => Len(rows) < Len(r)
  BY <1>2, <1>7, PickedRows, PickedOneEach, PickedLength
<1> HIDE DEF rows
<1>10. Len(rows) \in Nat /\ Len(rows) < MaxSources
  <2>1. Len(rows) \in Nat
    BY <1>9
  <2>2. QED BY <1>2, <1>3, <1>6, <1>7, <1>8, <1>9, <2>1
<1>11. /\ sources' \in Seq(SourceRows) /\ Len(sources') <= MaxSources
       /\ DOMAIN sources' = DOMAIN rows \cup {Len(rows) + 1}
       /\ \A i \in DOMAIN rows : sources'[i] = rows[i]
       /\ sources'[Len(rows) + 1] = row
  BY <1>1, <1>3, <1>4, <1>9, <1>10
<1>12. \A i \in DOMAIN rows : rows[i].source # s /\ rows[i].bucket.at <= clock
  BY <1>2, <1>3, <1>7, <1>8, <1>9
<1>13. TableSound'
  <2>1. OneEach(sources')
    BY <1>4, <1>9, <1>11, <1>12 DEF OneEach
  <2>2. \A i \in DOMAIN sources' : sources'[i].bucket.at <= clock
    BY <1>3, <1>4, <1>11, <1>12
  <2>3. QED BY <1>1, <1>11, <2>1, <2>2 DEF BudgetsInv, TableSound
<1>14. /\ promise' \in [Sources -> [of : {"none", "ingress", "credential", "tier"}, at : Nat]]
       /\ \A t \in Sources : promise'[t] = promise[t] \/ promise'[t].of = "none"
       /\ \A t \in Sources : promise'[t].of # "ingress"
  BY <1>1, BrokenTyped
<1>15. BudgetsTyped'
  BY <1>1, <1>3, <1>5, <1>11, <1>14 DEF BudgetsInv, BudgetsTyped
<1>16. PromisesSound'
  <2> SUFFICES ASSUME NEW t \in Sources PROVE IngressSound(t)' /\ CredentialSound(t)' /\ TierSound(t)'
    BY DEF PromisesSound
  <2>1. CredentialSound(t) /\ TierSound(t)
    BY DEF BudgetsInv, PromisesSound
  <2>2. (promise'[t] = promise[t] \/ promise'[t].of = "none") /\ promise'[t].of # "ingress"
    BY <1>14
  <2>3. QED BY <1>1, <2>1, <2>2 DEF IngressSound, CredentialSound, TierSound
<1>17. QED BY <1>13, <1>15, <1>16 DEF BudgetsInv

\* The wait of a refusal covers what each budget misses.
LEMMA IngressWaitIs ==
  ASSUME BudgetsInv, NEW s \in Sources
  PROVE  /\ IngressWait(s) \in Nat
         /\ TableFull(s) => IngressWait(s) = Window
         /\ ~ TableFull(s) =>
              /\ Ceiling(Missing(Level(total, GlobalLimit)), GlobalLimit) <= IngressWait(s)
              /\ Ceiling(Missing(Level(BucketOf(s), SourceLimit)), SourceLimit) <= IngressWait(s)
<1> DEFINE a == Ceiling(Missing(Level(total, GlobalLimit)), GlobalLimit)
           b == Ceiling(Missing(Level(BucketOf(s), SourceLimit)), SourceLimit)
<1>1. Missing(Level(total, GlobalLimit)) \in Nat /\ Missing(Level(BucketOf(s), SourceLimit)) \in Nat
  BY LevelOf, BudgetLimits DEF Missing
<1>2. a \in Nat /\ b \in Nat
  BY <1>1, CeilingCovers, BudgetLimits
<1>3. IngressWait(s) = IF TableFull(s) THEN Window ELSE AtLeastOne(Max({a, b}))
  BY DEF IngressWait
<1> HIDE DEF a, b
<1>4. Max({a, b}) \in {a, b} /\ Max({a, b}) >= a /\ Max({a, b}) >= b
  <2>1. \E x \in {a, b} : \A y \in {a, b} : x >= y
    BY <1>2
  <2>2. Max({a, b}) = CHOOSE x \in {a, b} : \A y \in {a, b} : x >= y
    BY DEF Max
  <2>3. QED BY <2>1, <2>2
<1>5. AtLeastOne(Max({a, b})) \in Nat /\ AtLeastOne(Max({a, b})) >= a /\ AtLeastOne(Max({a, b})) >= b
  BY <1>2, <1>4 DEF AtLeastOne
<1>6. QED BY <1>3, <1>5, BudgetLimits DEF a, b

\* A request that is refused: the table only forgets, and the wait is a promise.
LEMMA RefusedTrue ==
  ASSUME BudgetsInv, NEW s \in Sources, CheckIngress(s), ~ IngressAllows(s)
  PROVE  BudgetsInv'
<1> DEFINE r == Remembered
           wait == IngressWait(s)
           p == clock + wait
<1>1. /\ sources' = r /\ promise' = Promised(s, "ingress", wait)
      /\ UNCHANGED << clock, total, hits, tier >>
  BY DEF CheckIngress
<1>2. /\ r \in Seq(SourceRows) /\ OneEach(r) /\ Len(r) \in Nat /\ Len(r) <= Len(sources)
      /\ \A i \in DOMAIN r : \E k \in DOMAIN sources : r[i] = sources[k]
      /\ \A k \in DOMAIN sources : (\E i \in DOMAIN r : r[i] = sources[k]) \/ Len(r) < Len(sources)
  BY RememberedIs
<1>3. /\ clock \in Nat /\ sources \in Seq(SourceRows) /\ MaxSources \in Nat /\ Len(sources) <= MaxSources
      /\ \A i \in DOMAIN sources : sources[i].bucket.at <= clock
      /\ Len(sources) \in Nat
      /\ total = NoBucket \/ (total \in Buckets /\ total.at <= clock)
  <2>1. sources \in Seq(SourceRows)
    BY DEF BudgetsInv, BudgetsTyped
  <2>2. Len(sources) \in Nat
    BY <2>1
  <2>3. QED BY <2>1, <2>2, BudgetLimits DEF BudgetsInv, BudgetsTyped, TableSound
<1>4. /\ wait \in Nat
      /\ TableFull(s) => wait = Window
      /\ ~ TableFull(s) =>
           /\ Ceiling(Missing(Level(total, GlobalLimit)), GlobalLimit) <= wait
           /\ Ceiling(Missing(Level(BucketOf(s), SourceLimit)), SourceLimit) <= wait
  BY IngressWaitIs
<1>5. \A i \in DOMAIN r : r[i].bucket \in Buckets /\ r[i].bucket.at <= clock /\ r[i].bucket.at \in Nat
  <2> SUFFICES ASSUME NEW i \in DOMAIN r
               PROVE  r[i].bucket \in Buckets /\ r[i].bucket.at <= clock /\ r[i].bucket.at \in Nat
    OBVIOUS
  <2>1. r[i] \in SourceRows
    BY <1>2
  <2>2. r[i].bucket \in Buckets
    BY <2>1 DEF SourceRows
  <2>3. r[i].bucket.at <= clock
    BY <1>2, <1>3
  <2>4. QED BY <2>2, <2>3 DEF Buckets
<1>6. total # NoBucket => Refilled(total, GlobalLimit, p)
  <2> SUFFICES ASSUME total # NoBucket PROVE Refilled(total, GlobalLimit, p)
    OBVIOUS
  <2>1. total \in Buckets /\ total.at <= clock /\ total.at \in Nat
    BY <1>3 DEF Buckets
  <2>2. CASE TableFull(s)
    <3> HIDE DEF wait
    <3>1. p \in Nat /\ total.at + Window <= p
      BY <1>3, <1>4, <2>1, <2>2, BudgetLimits
    <3>2. QED BY <2>1, <3>1, WindowRefills, BudgetLimits
  <2>3. CASE ~ TableFull(s)
    BY <1>3, <1>4, <2>1, <2>3, WaitRefills, BudgetLimits
  <2>4. QED BY <2>2, <2>3
<1>7. \A i \in DOMAIN r : r[i].source = s => Refilled(r[i].bucket, SourceLimit, p)
  <2> SUFFICES ASSUME NEW i \in DOMAIN r, r[i].source = s PROVE Refilled(r[i].bucket, SourceLimit, p)
    OBVIOUS
  <2>1. PICK k \in DOMAIN r : r[k].source = s /\ BucketOf(s) = r[k].bucket
    BY BucketOfIs
  <2>2. k = i
    BY <1>2, <2>1 DEF OneEach
  <2>3. ~ TableFull(s)
    BY <1>5, <2>1, BudgetLimits DEF TableFull
  <2>4. QED BY <1>3, <1>4, <1>5, <2>1, <2>2, <2>3, WaitRefills, BudgetLimits
<1>8. \/ Len(r) < MaxSources
      \/ \E i \in DOMAIN r : r[i].source = s
      \/ \A i \in DOMAIN r : r[i].bucket.at + Window <= p
  <2>1. CASE TableFull(s)
    <3> HIDE DEF wait
    <3>1. \A i \in DOMAIN r : r[i].bucket.at + Window <= p
      BY <1>3, <1>4, <1>5, <2>1, BudgetLimits
    <3>2. QED BY <3>1
  <2>2. CASE ~ TableFull(s)
    <3>1. BucketOf(s) # NoBucket \/ Len(r) < MaxSources
      BY <1>2, <1>3, <2>2 DEF TableFull
    <3>2. BucketOf(s) # NoBucket => \E i \in DOMAIN r : r[i].source = s
      BY BucketOfIs
    <3>3. QED BY <3>1, <3>2
  <2>3. QED BY <2>1, <2>2
<1>9. /\ promise' \in [Sources -> [of : {"none", "ingress", "credential", "tier"}, at : Nat]]
      /\ promise'[s].of = "ingress" /\ promise'[s].at = p
      /\ \A t \in Sources : t # s => promise'[t] = promise[t]
  BY <1>1, <1>4, PromiseTyped
<1> HIDE DEF r, wait, p
<1>10. BudgetsTyped'
  BY <1>1, <1>2, <1>9 DEF BudgetsInv, BudgetsTyped
<1>11. TableSound'
  <2>1. Len(sources') <= MaxSources /\ OneEach(sources')
    BY <1>1, <1>2, <1>3
  <2>2. \A i \in DOMAIN sources' : sources'[i].bucket.at <= clock'
    BY <1>1, <1>5
  <2>3. QED BY <1>1, <2>1, <2>2 DEF BudgetsInv, TableSound
<1>12. ASSUME NEW t \in Sources PROVE IngressSound(t)'
  <2>1. CASE t = s
    BY <1>1, <1>6, <1>7, <1>8, <1>9, <2>1 DEF IngressSound, Refilled
  <2>2. CASE t # s /\ promise[t].of = "ingress"
    <3> DEFINE q == promise[t].at
    <3>1. /\ total # NoBucket => Refilled(total, GlobalLimit, q)
          /\ \A k \in DOMAIN sources : sources[k].source = t => Refilled(sources[k].bucket, SourceLimit, q)
          /\ \/ Len(sources) < MaxSources
             \/ \E k \in DOMAIN sources : sources[k].source = t
             \/ \A k \in DOMAIN sources : sources[k].bucket.at + Window <= q
      BY <2>2 DEF BudgetsInv, PromisesSound, IngressSound
    <3>2. promise'[t] = promise[t]
      BY <1>9, <2>2
    <3> HIDE DEF q
    <3>3. \A i \in DOMAIN r : r[i].source = t => Refilled(r[i].bucket, SourceLimit, q)
      BY <1>2, <3>1
    <3>4. \/ Len(r) < MaxSources
          \/ \E i \in DOMAIN r : r[i].source = t
          \/ \A i \in DOMAIN r : r[i].bucket.at + Window <= q
      <4>1. CASE Len(sources) < MaxSources
        BY <1>2, <1>3, <4>1
      <4>2. CASE \E k \in DOMAIN sources : sources[k].source = t
        <5>1. PICK k \in DOMAIN sources : sources[k].source = t
          BY <4>2
        <5>2. CASE \E i \in DOMAIN r : r[i] = sources[k]
          BY <5>1, <5>2
        <5>3. CASE Len(r) < Len(sources)
          BY <1>2, <1>3, <5>3
        <5>4. QED BY <1>2, <5>2, <5>3
      <4>3. CASE \A k \in DOMAIN sources : sources[k].bucket.at + Window <= q
        BY <1>2, <4>3
      <4>4. QED BY <3>1, <4>1, <4>2, <4>3
    <3>5. promise'[t].at = q /\ sources' = r /\ total' = total
      BY <1>1, <3>2 DEF q
    <3>6. QED BY ONLY <3>1, <3>3, <3>4, <3>5 DEF IngressSound, Refilled
  <2>3. CASE t # s /\ promise[t].of # "ingress"
    BY <1>9, <2>3 DEF IngressSound
  <2>4. QED BY <2>1, <2>2, <2>3
<1>13. ASSUME NEW t \in Sources PROVE CredentialSound(t)' /\ TierSound(t)'
  <2>1. CredentialSound(t) /\ TierSound(t)
    BY DEF BudgetsInv, PromisesSound
  <2>2. QED BY <1>1, <1>9, <2>1 DEF CredentialSound, TierSound
<1>14. PromisesSound'
  BY <1>12, <1>13 DEF PromisesSound
<1>15. QED BY <1>10, <1>11, <1>14 DEF BudgetsInv

LEMMA BudgetsStepTrue ==
  ASSUME BudgetsInv, [BudgetsNext]_budgetVars
  PROVE  BudgetsInv'
<1>1. CASE ClockTicks
  BY <1>1, TickTrue
<1>2. CASE UNCHANGED budgetVars
  <2>1. UNCHANGED << clock, total, sources, hits, tier, promise >>
    BY <1>2 DEF budgetVars
  <2>2. BudgetsTyped' /\ TableSound' /\ PromisesSound'
    BY <2>1 DEF BudgetsInv, BudgetsTyped, TableSound, OneEach, PromisesSound, IngressSound,
                CredentialSound, TierSound, Refilled
  <2>3. QED BY <2>2 DEF BudgetsInv
<1>3. CASE \E s \in Sources : \/ CheckIngress(s) \/ CheckCredential(s) \/ CheckTier(s)
                              \/ InvalidateTier(s) \/ ClaimChat(s)
  BY <1>3, AllowedTrue, RefusedTrue, CredentialTrue, TierTrue, ClaimTrue
<1>4. QED BY <1>1, <1>2, <1>3 DEF BudgetsNext

\* A promise that is kept in the state of the budget is kept by the answer.
LEMMA PromisedIsServed ==
  ASSUME BudgetsInv, NEW s \in Sources, promise[s].of # "none", clock >= promise[s].at
  PROVE  WouldAdmit(s, promise[s].of)
<1> DEFINE p == promise[s].at
<1>1. /\ clock \in Nat /\ promise[s] \in [of : {"none", "ingress", "credential", "tier"}, at : Nat]
      /\ sources \in Seq(SourceRows) /\ hits[s] \in Seq(Nat)
      /\ tier[s] \in [at : Nat, floor : Nat]
      /\ IngressSound(s) /\ CredentialSound(s) /\ TierSound(s)
      /\ total = NoBucket \/ (total \in Buckets /\ total.at <= clock)
      /\ Len(sources) <= MaxSources /\ Len(hits[s]) <= SourceLimit
  BY DEF BudgetsInv, BudgetsTyped, PromisesSound, TableSound
<1>2. p \in Nat /\ p <= clock
  BY <1>1
<1>3. CASE promise[s].of = "tier"
  <2>1. TierAllows(s)
    BY <1>1, <1>2, <1>3 DEF TierSound, TierAllows
  <2>2. QED BY <1>3, <2>1 DEF WouldAdmit
<1>4. CASE promise[s].of = "credential"
  <2>1. hits[s] # << >> /\ Head(hits[s]) + Window <= p
    BY <1>1, <1>4 DEF CredentialSound
  <2>2. Head(hits[s]) \in Nat /\ Len(hits[s]) \in Nat
    BY <1>1, <2>1
  <2>3. clock - Head(hits[s]) >= Window
    BY <1>1, <1>2, <2>1, <2>2, BudgetLimits
  <2>4. Len(InWindow(hits[s])) < Len(hits[s]) /\ Len(InWindow(hits[s])) \in Nat
    BY <1>1, <2>1, <2>3, InWindowIs
  <2>5. Len(InWindow(hits[s])) < SourceLimit
    BY <1>1, <2>2, <2>4, BudgetLimits
  <2>6. QED BY <1>4, <2>5 DEF WouldAdmit
<1>5. CASE promise[s].of = "ingress"
  <2>1. /\ total # NoBucket => Refilled(total, GlobalLimit, p)
        /\ \A i \in DOMAIN sources : sources[i].source = s => Refilled(sources[i].bucket, SourceLimit, p)
        /\ \/ Len(sources) < MaxSources
           \/ \E i \in DOMAIN sources : sources[i].source = s
           \/ \A i \in DOMAIN sources : sources[i].bucket.at + Window <= p
    BY <1>1, <1>5 DEF IngressSound
  <2>2. /\ Remembered \in Seq(SourceRows) /\ Len(Remembered) \in Nat /\ Len(Remembered) <= Len(sources)
        /\ \A i \in DOMAIN Remembered :
             \E k \in DOMAIN sources : Remembered[i] = sources[k] /\ sources[k].bucket.at > clock - Window
        /\ \A k \in DOMAIN sources :
             (\E i \in DOMAIN Remembered : Remembered[i] = sources[k]) \/ Len(Remembered) < Len(sources)
    BY RememberedIs
  <2>3. Len(sources) \in Nat /\ MaxSources \in Nat /\ MaxSources >= 1 /\ Window \in Nat
    BY <1>1, BudgetLimits
  <2> HIDE DEF p
  <2>4. Level(total, GlobalLimit) >= Window
    <3>1. CASE total = NoBucket
      BY <3>1, UntouchedLevel, BudgetLimits
    <3>2. CASE total # NoBucket
      <4>1. total \in Buckets /\ total.at <= clock /\ Refilled(total, GlobalLimit, p)
        BY <1>1, <2>1, <3>2
      <4>2. Refilled(total, GlobalLimit, clock)
        BY <1>1, <1>2, <4>1, RefilledLater, BudgetLimits
      <4>3. QED BY <1>1, <4>1, <4>2, Levels, BudgetLimits
    <3>3. QED BY <3>1, <3>2
  <2>5. CASE BucketOf(s) = NoBucket /\ \A i \in DOMAIN Remembered : Remembered[i].source # s
    <3>1. Level(BucketOf(s), SourceLimit) >= Window
      BY <2>5, UntouchedLevel, BudgetLimits
    <3>2. Len(Remembered) < MaxSources
      <4>1. CASE Len(sources) < MaxSources
        BY <2>2, <2>3, <4>1
      <4>2. CASE \E k \in DOMAIN sources : sources[k].source = s
        <5>1. Len(Remembered) < Len(sources)
          BY <2>2, <2>5, <4>2
        <5>2. QED BY <1>1, <2>2, <2>3, <5>1
      <4>3. CASE \A k \in DOMAIN sources : sources[k].bucket.at + Window <= p
        <5>1. \A k \in DOMAIN sources : sources[k].bucket.at \in Nat
          <6>1. \A k \in DOMAIN sources : sources[k] \in SourceRows
            BY <1>1
          <6>2. QED BY <6>1 DEF SourceRows, Buckets
        <5>2. DOMAIN Remembered = {}
          <6> SUFFICES ASSUME NEW i \in DOMAIN Remembered PROVE FALSE
            OBVIOUS
          <6>1. PICK k \in DOMAIN sources : sources[k].bucket.at > clock - Window
            BY <2>2
          <6>2. QED BY <1>1, <1>2, <2>3, <4>3, <5>1, <6>1
        <5>3. Len(Remembered) = 0
          BY <2>2, <5>2
        <5>4. QED BY <2>3, <5>3
      <4>4. QED BY <2>1, <4>1, <4>2, <4>3
    <3>3. ~ TableFull(s)
      BY <2>2, <2>3, <3>2 DEF TableFull
    <3>4. IngressAllows(s)
      BY <2>4, <3>1, <3>3 DEF IngressAllows
    <3>5. QED BY <1>5, <3>4 DEF WouldAdmit
  <2>6. CASE \E i \in DOMAIN Remembered :
               /\ Remembered[i].source = s /\ BucketOf(s) = Remembered[i].bucket
               /\ Remembered[i].bucket \in Buckets /\ Remembered[i].bucket.at <= clock
    <3> DEFINE b == BucketOf(s)
    <3>1. b \in Buckets /\ b.at <= clock /\ Refilled(b, SourceLimit, p)
      BY <2>1, <2>2, <2>6
    <3> HIDE DEF b
    <3>2. Refilled(b, SourceLimit, clock)
      BY <1>1, <1>2, <3>1, RefilledLater, BudgetLimits
    <3>3. Level(b, SourceLimit) >= Window
      BY <1>1, <3>1, <3>2, Levels, BudgetLimits
    <3>4. ~ TableFull(s)
      BY <3>1, BudgetLimits DEF TableFull, b
    <3>5. IngressAllows(s)
      BY <2>4, <3>3, <3>4 DEF IngressAllows, b
    <3>6. QED BY <1>5, <3>5 DEF WouldAdmit
  <2>7. QED BY <2>5, <2>6, BucketOfIs
<1>6. QED BY <1>1, <1>3, <1>4, <1>5

THEOREM RetryAfterIsHonest == BudgetsSpec => []RetryAfterHolds
<1>1. BudgetsInit => BudgetsInv
  BY BudgetsInitTrue
<1>2. BudgetsInv /\ [BudgetsNext]_budgetVars => BudgetsInv'
  BY BudgetsStepTrue
<1>3. BudgetsInv => RetryAfterHolds
  BY PromisedIsServed DEF RetryAfterHolds
<1>4. QED BY <1>1, <1>2, <1>3, PTL DEF BudgetsSpec

\* What the bounds add to the invariant.
BudgetBounds ==
  /\ kind \in Budget /\ clock <= MaxClock
  /\ actors \in [Sources -> Seq(Nat)]
  /\ \A s \in Sources : Len(actors[s]) <= SourceLimit /\ promise[s].of \in {"none", kind}

LEMMA RecentIs ==
  ASSUME NEW times \in Seq(Nat), clock \in Nat
  PROVE  Recent(times) \in Seq(Nat) /\ Len(Recent(times)) <= Len(times)
<1> DEFINE I == {i \in DOMAIN times : times[i] > clock - Window}
<1>1. I \in SUBSET (1..Len(times)) /\ Recent(times) = Picked(times, I)
  BY DEF Recent
<1> HIDE DEF I
<1>2. QED BY <1>1, PickedRows, PickedLength

LEMMA ClaimBounded ==
  ASSUME BudgetsInv, BudgetBounds, NEW s \in Sources, ClaimChat(s)
  PROVE  BudgetBounds'
<1>1. clock \in Nat /\ SourceLimit \in Nat /\ actors[s] \in Seq(Nat) /\ Len(actors[s]) <= SourceLimit
  BY BudgetLimits DEF BudgetsInv, BudgetsTyped, BudgetBounds
<1>2. PICK a : /\ actors' = [actors EXCEPT ![s] = a]
               /\ \/ a = Recent(actors[s])
                  \/ Len(Recent(actors[s])) < SourceLimit /\ a = Append(Recent(actors[s]), clock)
  BY DEF ClaimChat
<1> DEFINE r == Recent(actors[s])
<1>3. r \in Seq(Nat) /\ Len(r) <= SourceLimit /\ Len(r) \in Nat
  BY <1>1, RecentIs
<1> HIDE DEF r
<1>4. a \in Seq(Nat) /\ Len(a) <= SourceLimit
  BY <1>1, <1>2, <1>3 DEF r
<1>5. UNCHANGED << kind, clock, promise >>
  BY DEF ClaimChat
<1>6. QED BY <1>2, <1>4, <1>5 DEF BudgetBounds

LEMMA ChecksBounded ==
  ASSUME BudgetsInv, BudgetBounds, NEW s \in Sources,
         CheckIngress(s) \/ CheckCredential(s) \/ CheckTier(s) \/ InvalidateTier(s)
  PROVE  BudgetBounds'
<1>1. UNCHANGED << kind, clock, actors >>
  BY DEF CheckIngress, CheckCredential, CheckTier, InvalidateTier
<1>2. promise \in [Sources -> [of : {"none", "ingress", "credential", "tier"}, at : Nat]]
  BY DEF BudgetsInv, BudgetsTyped
<1>3. \/ UNCHANGED promise
      \/ \E S : promise' = Broken(S, kind)
      \/ \E wait : promise' = Promised(s, kind, wait)
  BY DEF CheckIngress, CheckCredential, CheckTier, InvalidateTier
<1>4. \A t \in Sources : promise'[t].of \in {"none", kind}
  <2>1. CASE UNCHANGED promise
    BY <2>1 DEF BudgetBounds
  <2>2. ASSUME NEW S, promise' = Broken(S, kind) PROVE \A t \in Sources : promise'[t].of \in {"none", kind}
    BY <2>2 DEF BudgetBounds, Broken, NoPromise
  <2>3. ASSUME NEW wait, promise' = Promised(s, kind, wait) PROVE \A t \in Sources : promise'[t].of \in {"none", kind}
    BY <1>2, <2>3 DEF BudgetBounds, Promised
  <2>4. QED BY <1>3, <2>1, <2>2, <2>3
<1>5. QED BY <1>1, <1>4 DEF BudgetBounds

LEMMA BudgetsBounded ==
  ASSUME BudgetsInv, BudgetBounds, [BudgetsNext]_budgetVars
  PROVE  BudgetBounds'
<1>1. CASE ClockTicks
  <2>1. clock' <= MaxClock
    BY <1>1, BudgetsAssumption DEF ClockTicks, BudgetsInv, BudgetsTyped
  <2>2. QED BY <1>1, <2>1 DEF ClockTicks, BudgetBounds
<1>2. CASE UNCHANGED budgetVars
  BY <1>2 DEF budgetVars, BudgetBounds
<1>3. QED BY <1>1, <1>2, ClaimBounded, ChecksBounded DEF BudgetsNext

(***************************************************************************)
(* BudgetsBoundedAlways: the table of sources, the windows of hits and     *)
(* those of the actors keep within their limits, no bucket is overdrawn,   *)
(* and a source is promised something of the budget it asked only          *)
(* (resource_api/ingress.py, traffic.py, feishu/unbound.py).               *)
(***************************************************************************)
THEOREM BudgetsBoundedAlways == BudgetsSpec => []BudgetsTypeOK
<1>1. BudgetsInit => BudgetsInv /\ BudgetBounds
  <2> SUFFICES ASSUME BudgetsInit PROVE BudgetBounds
    BY BudgetsInitTrue
  <2>1. actors \in [Sources -> Seq(Nat)] /\ \A s \in Sources : Len(actors[s]) <= SourceLimit
    BY BudgetLimits DEF BudgetsInit
  <2>2. QED BY <2>1, BudgetsAssumption DEF BudgetsInit, BudgetBounds, NoPromise
<1>2. BudgetsInv /\ BudgetBounds /\ [BudgetsNext]_budgetVars => (BudgetsInv /\ BudgetBounds)'
  BY BudgetsStepTrue, BudgetsBounded
<1>3. BudgetsInv /\ BudgetBounds => BudgetsTypeOK
  <2> SUFFICES ASSUME BudgetsInv, BudgetBounds PROVE BudgetsTypeOK
    OBVIOUS
  <2>1. clock \in 0..MaxClock
    BY BudgetsAssumption DEF BudgetsInv, BudgetsTyped, BudgetBounds
  <2>2. total = NoBucket \/ total.level >= 0
    BY DEF BudgetsInv, BudgetsTyped, Buckets
  <2>3. QED BY <2>1, <2>2 DEF BudgetsInv, TableSound, BudgetBounds, BudgetsTypeOK
<1>4. QED BY <1>1, <1>2, <1>3, PTL DEF BudgetsSpec

-----------------------------------------------------------------------------
(***************************************************************************)
(* Traffic.                                                                *)
(***************************************************************************)
LEMMA RowsFinite ==
  ASSUME NEW A, NEW rows \in Seq(A)
  PROVE  /\ IsFiniteSet(ToSet(rows)) /\ ToSet(rows) \subseteq A
         /\ ToSet(rows) = {rows[i] : i \in DOMAIN rows}
<1> DEFINE n == Len(rows)
<1>1. n \in Nat /\ DOMAIN rows = 1..n
  OBVIOUS
<1>2. IsFiniteSet(1..n)
  BY <1>1, FS_Interval
<1>3. ToSet(rows) = {rows[i] : i \in DOMAIN rows}
  BY DEF ToSet
<1>4. rows \in Surjection(1..n, ToSet(rows))
  BY <1>1, <1>3 DEF Surjection
<1>5. IsFiniteSet(ToSet(rows))
  BY <1>2, <1>4, FS_Surjection
<1>6. QED BY <1>3, <1>5

RouteCounters == UNION {[D -> Nat] : D \in SUBSET (Routes \cup {Other})}
MinuteCounters == UNION {[D -> Nat] : D \in SUBSET Nat}
Stats == [total : Nat, routes : RouteCounters, minutes : MinuteCounters, operations : [Outcomes -> Nat]]
TrafficRows == [bot : TrafficBots, stats : Stats]
CredentialRows == [bot : TrafficBots, credential : Credentials, count : Nat]

\* The counters of one scope agree with each other.
Truthful(s) ==
  /\ IsFiniteSet(DOMAIN s.routes) /\ IsFiniteSet(DOMAIN s.minutes)
  /\ SumFunction(s.routes) = s.total /\ SumFunction(s.minutes) <= s.total

TrafficTyped ==
  /\ minute \in Nat /\ unattributed \in Nat
  /\ stats \in Stats
  /\ botTable \in Seq(TrafficRows)
  /\ credentials \in Seq(CredentialRows)

RowPerBot == \A i, k \in DOMAIN botTable : botTable[i].bot = botTable[k].bot => i = k
RowPerCredential ==
  \A i, k \in DOMAIN credentials :
    credentials[i].bot = credentials[k].bot /\ credentials[i].credential = credentials[k].credential => i = k

\* The sums over the tables, as sums over sets of rows.
BotTotals == [e \in TrafficRows |-> e.stats.total]
CredentialCounts == [e \in CredentialRows |-> e.count]
CredentialsOf(b) == {e \in ToSet(credentials) : e.bot = b}

BelowTotals ==
  /\ SumFunctionOnSet(BotTotals, ToSet(botTable)) + unattributed <= stats.total
  /\ \A i \in DOMAIN botTable : SumFunctionOnSet(CredentialCounts, CredentialsOf(botTable[i].bot)) <= botTable[i].stats.total

TrafficInv ==
  /\ TrafficTyped
  /\ Truthful(stats) /\ \A i \in DOMAIN botTable : Truthful(botTable[i].stats)
  /\ RowPerBot /\ RowPerCredential
  /\ \A i \in DOMAIN credentials : Known(credentials[i].bot)
  /\ BelowTotals

-----------------------------------------------------------------------------
\* Counting one more of a key adds one to the sum.
LEMMA BumpedSum ==
  ASSUME NEW D, IsFiniteSet(D), NEW f \in [D -> Nat], NEW key
  PROVE  /\ Bumped(f, key) \in [D \cup {key} -> Nat] /\ IsFiniteSet(D \cup {key})
         /\ SumFunction(Bumped(f, key)) = SumFunction(f) + 1
<1> DEFINE h == Bumped(f, key)
           E == D \cup {key}
           R == D \ {key}
<1>1. h \in [E -> Nat] /\ \A x \in R : h[x] = f[x]
  BY DEF Bumped
<1>2. h[key] = (IF key \in D THEN f[key] ELSE 0) + 1
  BY DEF Bumped
<1> HIDE DEF h
<1>3. IsFiniteSet(E) /\ IsFiniteSet(R)
  BY FS_AddElement, FS_Subset
<1>4. SumFunctionOnSet(h, E) = h[key] + SumFunctionOnSet(h, R) /\ SumFunctionOnSet(h, R) \in Int
  <2>1. key \in E /\ \A x \in E : h[x] \in Int
    BY <1>1
  <2>2. E \ {key} = R
    OBVIOUS
  <2> HIDE DEF E, R
  <2>3. SumFunctionOnSet(h, E) = h[key] + SumFunctionOnSet(h, E \ {key}) /\ SumFunctionOnSet(h, E \ {key}) \in Int
    BY <1>3, <2>1, SumTakeOut
  <2>4. QED BY <2>2, <2>3
<1>5. SumFunctionOnSet(h, R) = SumFunctionOnSet(f, R)
  BY <1>1, <1>3, SumCongruence
<1>6. SumFunctionOnSet(f, D) = (IF key \in D THEN f[key] ELSE 0) + SumFunctionOnSet(f, R)
  <2>1. CASE key \in D
    <3>1. \A x \in D : f[x] \in Int
      OBVIOUS
    <3>2. QED BY <2>1, <3>1, SumTakeOut
  <2>2. CASE key \notin D
    <3>1. R = D
      BY <2>2
    <3>2. SumFunctionOnSet(f, D) = SumFunctionOnSet(f, R) /\ SumFunctionOnSet(f, R) \in Int
      BY ONLY <1>4, <1>5, <3>1
    <3>3. QED BY ONLY <2>2, <3>2
  <2>3. QED BY <2>1, <2>2
<1>7. (IF key \in D THEN f[key] ELSE 0) \in Nat
  OBVIOUS
<1>8. SumFunction(h) = SumFunctionOnSet(h, E) /\ SumFunction(f) = SumFunctionOnSet(f, D)
  BY <1>1 DEF SumFunction
<1>9. SumFunction(h) = SumFunction(f) + 1
  BY <1>2, <1>4, <1>5, <1>6, <1>7, <1>8
<1>10. QED BY <1>1, <1>3, <1>9 DEF h

\* Forgetting old minutes takes nothing more away than they held.
LEMMA KeptSum ==
  ASSUME NEW D, IsFiniteSet(D), NEW f \in [D -> Nat]
  PROVE  /\ \E E \in SUBSET D : Kept(f) \in [E -> Nat] /\ IsFiniteSet(E)
         /\ SumFunction(Kept(f)) <= SumFunction(f)
         /\ SumFunction(Kept(f)) \in Int /\ SumFunction(f) \in Int
<1> DEFINE h == Kept(f)
           E == {m \in D : minute - History < m /\ m <= minute}
<1>1. h = [m \in E |-> f[m]] /\ E \in SUBSET D
  BY DEF Kept
<1> HIDE DEF h, E
<1>2. h \in [E -> Nat] /\ IsFiniteSet(E)
  BY <1>1, FS_Subset
<1>3. SumFunction(h) = SumFunctionOnSet(h, E) /\ SumFunction(f) = SumFunctionOnSet(f, D)
  BY <1>2 DEF SumFunction
<1>4. SumFunctionOnSet(h, E) <= SumFunctionOnSet(f, D)
  <2>1. (\A x \in E : h[x] \in Int /\ h[x] <= f[x]) /\ \A x \in D : f[x] \in Nat
    BY <1>1
  <2>2. QED BY <1>1, <2>1, SumAtMost
<1>5. SumFunctionOnSet(h, E) \in Int /\ SumFunctionOnSet(f, D) \in Int
  BY <1>2, SumInt
<1>6. QED BY <1>1, <1>2, <1>3, <1>4, <1>5 DEF h

LEMMA NoStatsTrue == NoStats \in Stats /\ Truthful(NoStats) /\ NoStats.total = 0
<1> DEFINE none == << >>
<1>1. none \in [{} -> Nat] /\ DOMAIN none = {}
  OBVIOUS
<1>2. SumFunction(none) = 0 /\ IsFiniteSet(DOMAIN none)
  BY <1>1, SumEmpty, FS_EmptySet DEF SumFunction
<1>3. none \in RouteCounters /\ none \in MinuteCounters
  BY <1>1 DEF RouteCounters, MinuteCounters
<1>4. NoStats = [total |-> 0, routes |-> none, minutes |-> none, operations |-> [o \in Outcomes |-> 0]]
  BY DEF NoStats
<1> HIDE DEF none
<1>5. [o \in Outcomes |-> 0] \in [Outcomes -> Nat]
  OBVIOUS
<1>6. QED BY <1>2, <1>3, <1>4, <1>5 DEF Stats, Truthful

LEMMA CountedTrue ==
  ASSUME minute \in Nat, NEW s \in Stats, Truthful(s), NEW route \in Routes \cup {Other}
  PROVE  /\ CountedIn(s, route) \in Stats /\ Truthful(CountedIn(s, route))
         /\ CountedIn(s, route).total = s.total + 1
<1> DEFINE key == RowOf(s.routes, route)
           routes == Bumped(s.routes, key)
           kept == Kept(s.minutes)
           minutes == Bumped(kept, minute)
<1>1. PICK D \in SUBSET (Routes \cup {Other}) : s.routes \in [D -> Nat]
  BY DEF Stats, RouteCounters
<1>2. PICK M \in SUBSET Nat : s.minutes \in [M -> Nat]
  BY DEF Stats, MinuteCounters
<1>3. IsFiniteSet(D) /\ IsFiniteSet(M) /\ s.total \in Nat
      /\ SumFunction(s.routes) = s.total /\ SumFunction(s.minutes) <= s.total
  BY <1>1, <1>2 DEF Truthful, Stats
<1>4. key \in Routes \cup {Other}
  BY DEF RowOf
<1>5. CountedIn(s, route) = [s EXCEPT !.total = s.total + 1, !.routes = routes, !.minutes = minutes]
  BY DEF CountedIn
<1> HIDE DEF key
<1>6. routes \in [D \cup {key} -> Nat] /\ IsFiniteSet(D \cup {key}) /\ SumFunction(routes) = s.total + 1
  <2>1. /\ routes \in [D \cup {key} -> Nat] /\ IsFiniteSet(D \cup {key})
        /\ SumFunction(routes) = SumFunction(s.routes) + 1
    BY ONLY <1>1, <1>3, BumpedSum
  <2>2. QED BY ONLY <1>3, <2>1
<1>7. PICK E \in SUBSET M : kept \in [E -> Nat] /\ IsFiniteSet(E)
  BY <1>2, <1>3, KeptSum
<1>8. SumFunction(kept) <= s.total /\ SumFunction(kept) \in Int
  <2>1. SumFunction(kept) <= SumFunction(s.minutes) /\ SumFunction(kept) \in Int /\ SumFunction(s.minutes) \in Int
    BY ONLY <1>2, <1>3, KeptSum
  <2> HIDE DEF kept
  <2>2. QED BY ONLY <1>3, <2>1
<1> HIDE DEF kept
<1>9. minutes \in [E \cup {minute} -> Nat] /\ IsFiniteSet(E \cup {minute})
      /\ SumFunction(minutes) = SumFunction(kept) + 1
  BY <1>7, BumpedSum
<1> HIDE DEF routes, minutes
<1>10. routes \in RouteCounters
  BY <1>4, <1>6 DEF RouteCounters
<1>11. minutes \in MinuteCounters
  BY <1>9 DEF MinuteCounters
<1>12. /\ CountedIn(s, route) \in Stats /\ CountedIn(s, route).total = s.total + 1
       /\ CountedIn(s, route).routes = routes /\ CountedIn(s, route).minutes = minutes
  <2>1. s = [total |-> s.total, routes |-> s.routes, minutes |-> s.minutes, operations |-> s.operations]
        /\ s.operations \in [Outcomes -> Nat]
    BY DEF Stats
  <2>2. CountedIn(s, route) = [total |-> s.total + 1, routes |-> routes, minutes |-> minutes,
                               operations |-> s.operations]
    BY <1>5, <2>1
  <2>3. QED BY ONLY <1>3, <1>10, <1>11, <2>1, <2>2 DEF Stats
<1>13. SumFunction(minutes) <= s.total + 1
  BY <1>3, <1>8, <1>9
<1>14. DOMAIN routes = D \cup {key} /\ DOMAIN minutes = E \cup {minute}
  BY <1>6, <1>9
<1>15. Truthful(CountedIn(s, route))
  BY <1>6, <1>9, <1>12, <1>13, <1>14 DEF Truthful
<1>16. QED BY <1>12, <1>15

LEMMA OperatedTrue ==
  ASSUME NEW s \in Stats, Truthful(s), NEW outcome \in Outcomes
  PROVE  /\ Operated(s, outcome) \in Stats /\ Truthful(Operated(s, outcome))
         /\ Operated(s, outcome).total = s.total
<1> DEFINE operations == [s.operations EXCEPT ![outcome] = @ + 1]
<1>1. operations \in [Outcomes -> Nat]
  BY DEF Stats
<1>2. Operated(s, outcome) = [s EXCEPT !.operations = operations]
  BY DEF Operated
<1> HIDE DEF operations
<1>3. /\ Operated(s, outcome) \in Stats
      /\ Operated(s, outcome).total = s.total /\ Operated(s, outcome).routes = s.routes
      /\ Operated(s, outcome).minutes = s.minutes
  BY <1>1, <1>2 DEF Stats
<1>4. QED BY <1>3 DEF Truthful

-----------------------------------------------------------------------------
\* Rows that differ in their keys still do after a pick.
Distinct(rows, key) == \A i, k \in DOMAIN rows : key[rows[i]] = key[rows[k]] => i = k

LEMMA PickedDistinct ==
  ASSUME NEW A, NEW rows \in Seq(A), NEW I \in SUBSET (1..Len(rows)), NEW key, Distinct(rows, key)
  PROVE  Distinct(Picked(rows, I), key)
<1> DEFINE r == Picked(rows, I)
<1>1. r \in Seq(A) /\ \E f : Follows(r, rows, I, f)
  BY PickedFollows
<1> HIDE DEF r
<1>2. PICK f : Follows(r, rows, I, f)
  BY <1>1
<1>3. ASSUME NEW i \in 1..Len(r), NEW k \in 1..Len(r), key[r[i]] = key[r[k]], i < k PROVE FALSE
  <2>1. f[i] \in 1..Len(rows) /\ f[k] \in 1..Len(rows) /\ f[i] < f[k]
    BY <1>2, <1>3 DEF Follows
  <2>2. r[i] = rows[f[i]] /\ r[k] = rows[f[k]]
    BY <1>2 DEF Follows
  <2>3. f[i] = f[k]
    BY <1>3, <2>1, <2>2 DEF Distinct
  <2>4. QED BY <2>1, <2>3
<1>4. \A i, k \in 1..Len(r) : key[r[i]] = key[r[k]] => i = k
  BY <1>1, <1>3
<1>5. DOMAIN r = 1..Len(r)
  BY <1>1
<1>6. QED BY <1>4, <1>5 DEF Distinct, r

\* A row with a key of its own is put at the end.
LEMMA AppendDistinct ==
  ASSUME NEW A, NEW rows \in Seq(A), NEW e \in A, NEW key, Distinct(rows, key),
         \A i \in DOMAIN rows : key[rows[i]] # key[e]
  PROVE  /\ Append(rows, e) \in Seq(A) /\ Distinct(Append(rows, e), key)
         /\ ToSet(Append(rows, e)) = ToSet(rows) \cup {e}
<1> DEFINE r == Append(rows, e)
           n == Len(rows) + 1
<1>1. /\ r \in Seq(A) /\ DOMAIN r = DOMAIN rows \cup {n} /\ n \notin DOMAIN rows
      /\ r[n] = e /\ \A i \in DOMAIN rows : r[i] = rows[i]
  OBVIOUS
<1> HIDE DEF r, n
<1>2. Distinct(r, key)
  BY <1>1 DEF Distinct
<1>3. ToSet(r) = {r[i] : i \in DOMAIN r} /\ ToSet(rows) = {rows[i] : i \in DOMAIN rows}
  BY DEF ToSet
<1>4. ToSet(r) = ToSet(rows) \cup {e}
  BY <1>1, <1>3
<1>5. QED BY <1>1, <1>2, <1>4 DEF r

LEMMA PickedSet ==
  ASSUME NEW A, NEW rows \in Seq(A), NEW I \in SUBSET (1..Len(rows))
  PROVE  /\ Picked(rows, I) \in Seq(A)
         /\ ToSet(Picked(rows, I)) = {rows[k] : k \in I}
<1> DEFINE r == Picked(rows, I)
<1>1. /\ r \in Seq(A)
      /\ \A i \in DOMAIN r : \E k \in I : r[i] = rows[k]
      /\ \A k \in I : \E i \in DOMAIN r : r[i] = rows[k]
  BY PickedRows
<1>2. ToSet(r) = {r[i] : i \in DOMAIN r}
  BY DEF ToSet
<1> HIDE DEF r
<1>3. ASSUME NEW x \in ToSet(r) PROVE x \in {rows[k] : k \in I}
  <2>1. PICK i \in DOMAIN r : x = r[i]
    BY <1>2
  <2>2. PICK k \in I : r[i] = rows[k]
    BY <1>1
  <2>3. QED BY <2>1, <2>2
<1>4. ASSUME NEW k \in I PROVE rows[k] \in ToSet(r)
  <2>1. PICK i \in DOMAIN r : r[i] = rows[k]
    BY <1>1
  <2>2. QED BY <1>2, <2>1
<1>5. ToSet(r) = {rows[k] : k \in I}
  BY <1>3, <1>4
<1>6. QED BY <1>1, <1>5 DEF r

-----------------------------------------------------------------------------
BotKey == [e \in TrafficRows |-> e.bot]
CredentialKey == [e \in CredentialRows |-> << e.bot, e.credential >>]

\* The sums of the property are the sums over the rows.
LEMMA SumsOfRows ==
  ASSUME TrafficTyped
  PROVE  /\ BotsSum = SumFunctionOnSet(BotTotals, ToSet(botTable))
         /\ \A b : CredentialsSum(b) = SumFunctionOnSet(CredentialCounts, CredentialsOf(b))
<1>1. /\ IsFiniteSet(ToSet(botTable)) /\ ToSet(botTable) \subseteq TrafficRows
      /\ IsFiniteSet(ToSet(credentials)) /\ ToSet(credentials) \subseteq CredentialRows
  BY RowsFinite DEF TrafficTyped
<1>2. BotsSum = SumFunctionOnSet(BotTotals, ToSet(botTable))
  <2> DEFINE f == [e \in ToSet(botTable) |-> e.stats.total]
  <2>1. BotsSum = SumFunctionOnSet(f, ToSet(botTable))
    BY DEF BotsSum, SumFunction
  <2>2. \A e \in ToSet(botTable) : f[e] = BotTotals[e]
    BY <1>1 DEF BotTotals
  <2> HIDE DEF f
  <2>3. QED BY <1>1, <2>1, <2>2, SumCongruence
<1>3. ASSUME NEW b PROVE CredentialsSum(b) = SumFunctionOnSet(CredentialCounts, CredentialsOf(b))
  <2> DEFINE S == CredentialsOf(b)
             f == [e \in S |-> e.count]
  <2>1. CredentialsSum(b) = SumFunctionOnSet(f, S)
    BY DEF CredentialsSum, SumFunction, CredentialsOf
  <2>2. IsFiniteSet(S) /\ S \subseteq CredentialRows
    BY <1>1, FS_Subset DEF CredentialsOf
  <2> HIDE DEF S
  <2>3. \A e \in S : f[e] = CredentialCounts[e]
    BY <2>2 DEF CredentialCounts
  <2> HIDE DEF f
  <2>4. QED BY <2>1, <2>2, <2>3, SumCongruence DEF S
<1>4. QED BY <1>2, <1>3

LEMMA StatsOfIs ==
  ASSUME TrafficInv, NEW b
  PROVE  /\ StatsOf(b) \in Stats /\ Truthful(StatsOf(b)) /\ StatsOf(b).total \in Nat
         /\ Known(b) => \E i \in DOMAIN botTable : botTable[i].bot = b /\ StatsOf(b) = botTable[i].stats
         /\ ~ Known(b) => StatsOf(b).total = 0
<1>1. \A i \in DOMAIN botTable : botTable[i] \in TrafficRows
  BY DEF TrafficInv, TrafficTyped
<1>2. CASE Known(b)
  <2> DEFINE i == CHOOSE i \in DOMAIN botTable : botTable[i].bot = b
  <2>1. i \in DOMAIN botTable /\ botTable[i].bot = b
    BY <1>2 DEF Known
  <2>2. StatsOf(b) = botTable[i].stats
    BY <1>2 DEF StatsOf
  <2> HIDE DEF i
  <2>3. botTable[i].stats \in Stats
    BY <1>1, <2>1 DEF TrafficRows
  <2>4. Truthful(botTable[i].stats)
    BY <2>1 DEF TrafficInv
  <2>5. botTable[i].stats.total \in Nat
    BY <2>3 DEF Stats
  <2>6. QED BY <1>2, <2>1, <2>2, <2>3, <2>4, <2>5
<1>3. CASE ~ Known(b)
  <2>1. StatsOf(b) = NoStats
    BY <1>3 DEF StatsOf
  <2>2. QED BY <1>3, <2>1, NoStatsTrue
<1>4. QED BY <1>2, <1>3

\* A row takes the place of one, or of none, and of any others with it.
LEMMA SumReplaced ==
  ASSUME NEW f, NEW S, IsFiniteSet(S), NEW T, T \subseteq S, \A x \in S : f[x] \in Nat,
         NEW v \in Nat, v = 0 \/ \E e \in S \ T : f[e] = v,
         NEW row, row \notin T, NEW d \in Nat, f[row] = v + d
  PROVE  SumFunctionOnSet(f, T \cup {row}) <= SumFunctionOnSet(f, S) + d
<1> DEFINE sumT == SumFunctionOnSet(f, T)
           sumS == SumFunctionOnSet(f, S)
<1>1. IsFiniteSet(T) /\ \A x \in T \cup {row} : f[x] \in Int
  BY FS_Subset
<1>2. SumFunctionOnSet(f, T \cup {row}) = f[row] + sumT
  BY <1>1, SumOneMore
<1>3. sumT \in Int /\ sumS \in Int
  BY <1>1, SumInt
<1>4. sumT + v <= sumS
  <2>1. CASE v = 0
    <3>1. sumT <= sumS
      BY <1>1, SumAtMost
    <3>2. QED BY <1>3, <2>1, <3>1
  <2>2. CASE \E e \in S \ T : f[e] = v
    <3>1. PICK e \in S \ T : f[e] = v
      BY <2>2
    <3> DEFINE R == S \ {e}
    <3>2. sumS = v + SumFunctionOnSet(f, R) /\ SumFunctionOnSet(f, R) \in Int
      <4>1. sumS = f[e] + SumFunctionOnSet(f, S \ {e}) /\ SumFunctionOnSet(f, S \ {e}) \in Int
        BY <3>1, SumTakeOut
      <4>2. QED BY <3>1, <4>1
    <3>3. IsFiniteSet(R) /\ T \subseteq R /\ R \subseteq S
      BY <3>1, FS_Subset
    <3> HIDE DEF R
    <3>4. sumT <= SumFunctionOnSet(f, R)
      BY <1>1, <3>3, SumAtMost
    <3>5. QED BY <1>3, <3>2, <3>4
  <2>3. QED BY <2>1, <2>2
<1> HIDE DEF sumT, sumS
<1>5. f[row] + sumT <= sumS + d
  BY <1>3, <1>4
<1>6. QED BY <1>2, <1>5 DEF sumS

\* The counters of a bot are given their new row; what is forgotten only lowers the sum.
LEMMA BotsStep ==
  ASSUME TrafficInv, NEW b \in TrafficBots, NEW after \in Stats, Truthful(after), NEW d \in Nat,
         after.total = StatsOf(b).total + d, EnsureBot(b, after)
  PROVE  /\ botTable' \in Seq(TrafficRows) /\ RowPerBot'
         /\ \A i \in DOMAIN botTable' :
              \/ botTable'[i] = [bot |-> b, stats |-> after]
              \/ \E k \in DOMAIN botTable : botTable'[i] = botTable[k] /\ botTable[k].bot # b
         /\ \E i \in DOMAIN botTable' : botTable'[i].bot = b
         /\ \A k \in DOMAIN botTable : botTable[k].bot \notin Evicted(b) => \E i \in DOMAIN botTable' : botTable'[i].bot = botTable[k].bot
         /\ SumFunctionOnSet(BotTotals, ToSet(botTable')) <= SumFunctionOnSet(BotTotals, ToSet(botTable)) + d
<1> DEFINE I == {i \in DOMAIN botTable : botTable[i].bot \notin Evicted(b) \cup {b}}
           kept == Picked(botTable, I)
           row == [bot |-> b, stats |-> after]
<1>1. botTable \in Seq(TrafficRows) /\ Distinct(botTable, BotKey)
  <2>1. botTable \in Seq(TrafficRows)
    BY DEF TrafficInv, TrafficTyped
  <2>2. \A i \in DOMAIN botTable : botTable[i] \in TrafficRows
    BY <2>1
  <2>3. QED BY <2>1, <2>2 DEF TrafficInv, RowPerBot, Distinct, BotKey
<1>2. I \in SUBSET (1..Len(botTable)) /\ DOMAIN botTable = 1..Len(botTable)
  BY <1>1
<1>3. botTable' = Append(kept, row)
  BY DEF EnsureBot
<1>4. row \in TrafficRows /\ row.bot = b /\ row.stats.total = after.total /\ BotTotals[row] = after.total
      /\ BotKey[row] = b
  BY DEF TrafficRows, BotTotals, BotKey
<1>5. \A k \in I : botTable[k].bot # b /\ k \in DOMAIN botTable
  OBVIOUS
<1>6. \A k \in DOMAIN botTable : botTable[k].bot \notin Evicted(b) => botTable[k].bot = b \/ k \in I
  OBVIOUS
<1> HIDE DEF I, row
<1>7. kept \in Seq(TrafficRows) /\ ToSet(kept) = {botTable[k] : k \in I} /\ Distinct(kept, BotKey)
      /\ \A i \in DOMAIN kept : \E k \in I : kept[i] = botTable[k]
  <2>1. kept \in Seq(TrafficRows) /\ ToSet(kept) = {botTable[k] : k \in I}
    BY <1>1, <1>2, PickedSet
  <2>2. Distinct(kept, BotKey)
    BY <1>1, <1>2, PickedDistinct
  <2>3. \A i \in DOMAIN kept : \E k \in I : kept[i] = botTable[k]
    BY <1>1, <1>2, PickedRows
  <2>4. QED BY <2>1, <2>2, <2>3
<1> HIDE DEF kept
<1>8. \A i \in DOMAIN kept : BotKey[kept[i]] # BotKey[row]
  <2> SUFFICES ASSUME NEW i \in DOMAIN kept PROVE BotKey[kept[i]] # b
    BY <1>4
  <2>1. kept[i] \in TrafficRows
    BY <1>7
  <2>2. QED BY <1>5, <1>7, <2>1 DEF BotKey
<1>9. /\ botTable' \in Seq(TrafficRows) /\ Distinct(botTable', BotKey)
      /\ ToSet(botTable') = {botTable[k] : k \in I} \cup {row}
  BY <1>3, <1>4, <1>7, <1>8, AppendDistinct
<1>10. \A i \in DOMAIN botTable' : botTable'[i] \in TrafficRows /\ botTable'[i] \in ToSet(botTable')
  BY <1>9 DEF ToSet
<1>11. RowPerBot'
  BY <1>9, <1>10 DEF RowPerBot, Distinct, BotKey
<1>12. \A i \in DOMAIN botTable' : botTable'[i] = row \/ \E k \in DOMAIN botTable : botTable'[i] = botTable[k] /\ botTable[k].bot # b
  BY <1>5, <1>9, <1>10
<1>13. \A e \in ToSet(botTable') : \E i \in DOMAIN botTable' : botTable'[i] = e
  BY DEF ToSet
<1>14. \E i \in DOMAIN botTable' : botTable'[i].bot = b
  BY <1>4, <1>9, <1>13
<1>15. \A k \in DOMAIN botTable : botTable[k].bot \notin Evicted(b) => \E i \in DOMAIN botTable' : botTable'[i].bot = botTable[k].bot
  <2> SUFFICES ASSUME NEW k \in DOMAIN botTable, botTable[k].bot \notin Evicted(b)
               PROVE  \E i \in DOMAIN botTable' : botTable'[i].bot = botTable[k].bot
    OBVIOUS
  <2>1. CASE botTable[k].bot = b
    BY <1>14, <2>1
  <2>2. CASE k \in I
    BY <1>9, <1>13, <2>2
  <2>3. QED BY <1>6, <2>1, <2>2

<1>16. SumFunctionOnSet(BotTotals, ToSet(botTable')) <= SumFunctionOnSet(BotTotals, ToSet(botTable)) + d
  <2> DEFINE S == ToSet(botTable)
             T == {botTable[k] : k \in I}
             v == StatsOf(b).total
  <2>1. IsFiniteSet(S) /\ S \subseteq TrafficRows /\ S = {botTable[k] : k \in DOMAIN botTable}
    BY <1>1, RowsFinite
  <2>2. T \subseteq S /\ \A e \in T : e.bot # b
    BY <1>5, <2>1
  <2>3. \A e \in S : BotTotals[e] \in Nat
    BY <2>1 DEF BotTotals, TrafficRows, Stats
  <2>4. row \notin T
    BY <1>4, <2>2
  <2>5. v \in Nat /\ BotTotals[row] = v + d
    BY <1>4, StatsOfIs
  <2>6. v = 0 \/ \E e \in S \ T : BotTotals[e] = v
    <3>1. CASE Known(b)
      <4>1. PICK i \in DOMAIN botTable : botTable[i].bot = b /\ StatsOf(b) = botTable[i].stats
        BY <3>1, StatsOfIs
      <4>2. botTable[i] \in S /\ botTable[i] \notin T
        BY <2>1, <2>2, <4>1
      <4>3. BotTotals[botTable[i]] = v
        BY <2>1, <4>1, <4>2 DEF BotTotals
      <4>4. QED BY <4>2, <4>3
    <3>2. QED BY <3>1, StatsOfIs
  <2>7. ToSet(botTable') = T \cup {row}
    BY <1>9
  <2> HIDE DEF S, T, v
  <2>8. SumFunctionOnSet(BotTotals, T \cup {row}) <= SumFunctionOnSet(BotTotals, S) + d
    BY <2>1, <2>2, <2>3, <2>4, <2>5, <2>6, SumReplaced
  <2>9. QED BY <2>7, <2>8 DEF S
<1>17. QED BY <1>9, <1>11, <1>12, <1>14, <1>15, <1>16 DEF row

-----------------------------------------------------------------------------
\* What a step does to the credentials' rows: those of other bots only go, and those of
\* this one count d more at most.
CredentialsMove(b, d) ==
  /\ credentials' \in Seq(CredentialRows) /\ Distinct(credentials', CredentialKey)
  /\ \A e \in ToSet(credentials') : e.bot = b \/ (e.bot \notin Evicted(b) /\ e \in ToSet(credentials))
  /\ SumFunctionOnSet(CredentialCounts, CredentialsOf(b)')
       <= SumFunctionOnSet(CredentialCounts, CredentialsOf(b)) + d

LEMMA CredentialsNow ==
  ASSUME TrafficInv
  PROVE  /\ credentials \in Seq(CredentialRows) /\ Distinct(credentials, CredentialKey)
         /\ IsFiniteSet(ToSet(credentials)) /\ ToSet(credentials) \subseteq CredentialRows
         /\ ToSet(credentials) = {credentials[i] : i \in DOMAIN credentials}
         /\ \A e \in ToSet(credentials) : CredentialCounts[e] = e.count /\ e.count \in Nat
<1>1. credentials \in Seq(CredentialRows)
  BY DEF TrafficInv, TrafficTyped
<1>2. \A i \in DOMAIN credentials : credentials[i] \in CredentialRows
  BY <1>1
<1>3. Distinct(credentials, CredentialKey)
  BY <1>2 DEF TrafficInv, RowPerCredential, Distinct, CredentialKey
<1>4. /\ IsFiniteSet(ToSet(credentials)) /\ ToSet(credentials) \subseteq CredentialRows
      /\ ToSet(credentials) = {credentials[i] : i \in DOMAIN credentials}
  BY <1>1, RowsFinite
<1>5. \A e \in ToSet(credentials) : CredentialCounts[e] = e.count /\ e.count \in Nat
  BY <1>4 DEF CredentialCounts, CredentialRows
<1>6. QED BY <1>1, <1>3, <1>4, <1>5

LEMMA RemainingIs ==
  ASSUME TrafficInv, NEW b
  PROVE  /\ Remaining(b) \in Seq(CredentialRows) /\ Distinct(Remaining(b), CredentialKey)
         /\ ToSet(Remaining(b)) = {e \in ToSet(credentials) : e.bot \notin Evicted(b)}
<1> DEFINE I == {i \in DOMAIN credentials : credentials[i].bot \notin Evicted(b)}
<1>1. /\ credentials \in Seq(CredentialRows) /\ Distinct(credentials, CredentialKey)
      /\ ToSet(credentials) = {credentials[i] : i \in DOMAIN credentials}
  BY CredentialsNow
<1>2. I \in SUBSET (1..Len(credentials)) /\ Remaining(b) = Picked(credentials, I)
  BY <1>1 DEF Remaining
<1>3. {credentials[k] : k \in I} = {e \in ToSet(credentials) : e.bot \notin Evicted(b)}
  BY <1>1
<1> HIDE DEF I
<1>4. QED BY <1>1, <1>2, <1>3, PickedSet, PickedDistinct

LEMMA RemainMoves ==
  ASSUME TrafficInv, NEW b, NEW d \in Nat, credentials' = Remaining(b)
  PROVE  CredentialsMove(b, d)
<1> DEFINE S == CredentialsOf(b)
           T == {e \in ToSet(credentials') : e.bot = b}
<1>1. /\ IsFiniteSet(S) /\ \A e \in S : CredentialCounts[e] \in Nat
  BY CredentialsNow, FS_Subset DEF CredentialsOf
<1>2. /\ credentials' \in Seq(CredentialRows) /\ Distinct(credentials', CredentialKey)
      /\ ToSet(credentials') = {e \in ToSet(credentials) : e.bot \notin Evicted(b)}
  BY RemainingIs
<1>3. T \subseteq S
  BY <1>2 DEF CredentialsOf
<1>4. CredentialsOf(b)' = T
  BY DEF CredentialsOf
<1> HIDE DEF S, T
<1>5. /\ SumFunctionOnSet(CredentialCounts, T) <= SumFunctionOnSet(CredentialCounts, S)
      /\ SumFunctionOnSet(CredentialCounts, T) \in Int /\ SumFunctionOnSet(CredentialCounts, S) \in Int
  <2>1. IsFiniteSet(T) /\ \A e \in T : CredentialCounts[e] \in Int /\ CredentialCounts[e] <= CredentialCounts[e]
    BY <1>1, <1>3, FS_Subset
  <2>2. QED BY <1>1, <1>3, <2>1, SumAtMost, SumInt
<1>6. SumFunctionOnSet(CredentialCounts, T) <= SumFunctionOnSet(CredentialCounts, S) + d
  BY <1>5
<1>7. QED BY <1>2, <1>4, <1>6 DEF CredentialsMove, S

\* One more of a credential: its row moves to the end, and another may make room.
LEMMA CountMoves ==
  ASSUME TrafficInv, NEW b \in TrafficBots, NEW c \in Credentials, CountCredential(b, c)
  PROVE  CredentialsMove(b, 1)
<1> DEFINE rows == Remaining(b)
           mine == {i \in DOMAIN rows : rows[i].bot = b /\ rows[i].credential = c}
           others == Picked(rows, DOMAIN rows \ mine)
           room == IF mine = {} /\ Len(rows) >= MaxCredentials THEN Tail(others) ELSE others
           before == IF mine = {} THEN 0 ELSE rows[CHOOSE i \in mine : TRUE].count
           row == [bot |-> b, credential |-> c, count |-> before + 1]
<1>1. credentials' = Append(room, row)
  BY DEF CountCredential
<1>2. /\ rows \in Seq(CredentialRows) /\ Distinct(rows, CredentialKey)
      /\ ToSet(rows) = {e \in ToSet(credentials) : e.bot \notin Evicted(b)}
  BY RemainingIs
<1> HIDE DEF rows
<1>3. /\ ToSet(rows) = {rows[i] : i \in DOMAIN rows} /\ DOMAIN rows = 1..Len(rows) /\ Len(rows) \in Nat
      /\ \A i \in DOMAIN rows : rows[i] \in CredentialRows /\ rows[i] \in ToSet(rows)
  BY <1>2, RowsFinite
<1>4. before \in Nat /\ (before = 0 \/ \E i \in mine : before = rows[i].count)
  <2>1. CASE mine = {}
    BY <2>1
  <2>2. CASE mine # {}
    <3> DEFINE i == CHOOSE i \in mine : TRUE
    <3>1. i \in mine
      BY <2>2
    <3> HIDE DEF i
    <3>2. rows[i].count \in Nat
      BY <1>3, <3>1 DEF CredentialRows
    <3>3. before = rows[i].count
      BY <2>2 DEF i
    <3>4. QED BY <3>1, <3>2, <3>3
  <2>3. QED BY <2>1, <2>2
<1> HIDE DEF before
<1>5. row \in CredentialRows /\ row.bot = b /\ row.credential = c /\ row.count = before + 1
      /\ CredentialKey[row] = << b, c >> /\ CredentialCounts[row] = before + 1
  BY <1>4 DEF CredentialRows, CredentialKey, CredentialCounts
<1> HIDE DEF row
<1>6. DOMAIN rows \ mine \in SUBSET (1..Len(rows))
  BY <1>3
<1>7. \A k \in DOMAIN rows \ mine : k \in DOMAIN rows /\ ~ (rows[k].bot = b /\ rows[k].credential = c)
  OBVIOUS
<1>8. \A k \in mine : k \in DOMAIN rows /\ rows[k].bot = b /\ rows[k].credential = c
  OBVIOUS
<1>9. mine = {} => DOMAIN rows \ mine = DOMAIN rows
  OBVIOUS
<1> DEFINE I == DOMAIN rows \ mine
<1> HIDE DEF mine
<1>10. others \in Seq(CredentialRows) /\ ToSet(others) = {rows[k] : k \in I}
  BY <1>2, <1>6, PickedSet
<1>11. Distinct(others, CredentialKey)
  BY <1>2, <1>6, PickedDistinct
<1>12. \A k \in I : \E i \in DOMAIN others : others[i] = rows[k]
  BY <1>2, <1>6, PickedRows
<1>13. mine = {} /\ Len(rows) >= MaxCredentials => others # << >>
  <2> SUFFICES ASSUME mine = {}, Len(rows) >= MaxCredentials PROVE others # << >>
    OBVIOUS
  <2>1. 1 \in DOMAIN rows
    BY <1>3, TrafficAssumption
  <2>2. PICK i \in DOMAIN others : others[i] = rows[1]
    BY <1>9, <1>12, <2>1
  <2>3. QED BY <1>10, <2>2
<1> HIDE DEF others
<1>14. room \in Seq(CredentialRows) /\ Distinct(room, CredentialKey) /\ ToSet(room) \subseteq {rows[k] : k \in I}
  <2>1. CASE room = others
    BY <1>10, <1>11, <2>1
  <2>2. CASE room = Tail(others) /\ others # << >>
    <3>1. /\ Tail(others) \in Seq(CredentialRows)
          /\ \A i \in DOMAIN Tail(others) : i + 1 \in DOMAIN others /\ Tail(others)[i] = others[i + 1] /\ i \in Nat
      BY <1>10, <2>2
    <3> DEFINE r == Tail(others)
    <3> HIDE DEF r
    <3>2. r \in Seq(CredentialRows) /\ \A i \in DOMAIN r : i + 1 \in DOMAIN others /\ r[i] = others[i + 1] /\ i \in Nat
      BY <3>1 DEF r
    <3>3. Distinct(r, CredentialKey)
      <4> SUFFICES ASSUME NEW i \in DOMAIN r, NEW k \in DOMAIN r, CredentialKey[r[i]] = CredentialKey[r[k]]
                   PROVE  i = k
        BY DEF Distinct
      <4>1. i + 1 = k + 1
        BY <1>11, <3>2 DEF Distinct
      <4>2. QED BY <3>2, <4>1
    <3>4. ToSet(r) \subseteq ToSet(others)
      BY <3>2 DEF ToSet
    <3>5. QED BY <1>10, <2>2, <3>2, <3>3, <3>4 DEF r
  <2>3. QED BY <1>13, <2>1, <2>2
<1> HIDE DEF room
<1>15. \A i \in DOMAIN room : room[i] \in ToSet(room) /\ room[i] \in CredentialRows
  BY <1>14 DEF ToSet
<1>16. \A i \in DOMAIN room : CredentialKey[room[i]] # CredentialKey[row]
  <2> SUFFICES ASSUME NEW i \in DOMAIN room, CredentialKey[room[i]] = << b, c >> PROVE FALSE
    BY <1>5
  <2>1. room[i].bot = b /\ room[i].credential = c
    BY <1>15 DEF CredentialKey
  <2>2. PICK k \in I : room[i] = rows[k]
    BY <1>14, <1>15
  <2>3. QED BY <1>7, <2>1, <2>2
<1>17. /\ credentials' \in Seq(CredentialRows) /\ Distinct(credentials', CredentialKey)
       /\ ToSet(credentials') = ToSet(room) \cup {row}
  BY <1>1, <1>5, <1>14, <1>16, AppendDistinct
<1>18. \A e \in ToSet(room) : /\ e \in ToSet(credentials) /\ e.bot \notin Evicted(b)
                              /\ ~ (e.bot = b /\ e.credential = c)
  <2> SUFFICES ASSUME NEW e \in ToSet(room)
               PROVE  /\ e \in ToSet(credentials) /\ e.bot \notin Evicted(b)
                      /\ ~ (e.bot = b /\ e.credential = c)
    OBVIOUS
  <2>1. PICK k \in I : e = rows[k]
    BY <1>14
  <2>2. k \in DOMAIN rows /\ ~ (e.bot = b /\ e.credential = c)
    BY <1>7, <2>1
  <2>3. QED BY <1>2, <1>3, <2>1, <2>2
<1>19. \A e \in ToSet(credentials') : e.bot = b \/ (e.bot \notin Evicted(b) /\ e \in ToSet(credentials))
  BY <1>5, <1>17, <1>18
<1> DEFINE S == CredentialsOf(b)
           T == {e \in ToSet(room) : e.bot = b}
<1>20. IsFiniteSet(S) /\ \A e \in S : CredentialCounts[e] \in Nat
  BY CredentialsNow, FS_Subset DEF CredentialsOf
<1>21. T \subseteq S /\ row \notin T
  BY <1>5, <1>18 DEF CredentialsOf
<1>22. before = 0 \/ \E e \in S \ T : CredentialCounts[e] = before
  <2> SUFFICES ASSUME before # 0 PROVE \E e \in S \ T : CredentialCounts[e] = before
    OBVIOUS
  <2>1. PICK i \in mine : before = rows[i].count
    BY <1>4
  <2>2. i \in DOMAIN rows /\ rows[i].bot = b /\ rows[i].credential = c
    BY <1>8
  <2>3. rows[i] \in ToSet(credentials)
    BY <1>2, <1>3, <2>2
  <2>4. rows[i] \in S /\ rows[i] \notin T
    BY <1>18, <2>2, <2>3 DEF CredentialsOf
  <2>5. CredentialCounts[rows[i]] = rows[i].count
    BY <2>3, CredentialsNow
  <2>6. QED BY <2>1, <2>4, <2>5
<1>23. CredentialsOf(b)' = T \cup {row}
  <2>1. CredentialsOf(b)' = {e \in ToSet(credentials') : e.bot = b}
    BY DEF CredentialsOf
  <2>2. QED BY <1>5, <1>17, <2>1
<1> HIDE DEF S, T
<1>24. SumFunctionOnSet(CredentialCounts, T \cup {row}) <= SumFunctionOnSet(CredentialCounts, S) + 1
  BY <1>4, <1>5, <1>20, <1>21, <1>22, SumReplaced
<1>25. QED BY <1>17, <1>19, <1>23, <1>24 DEF CredentialsMove, S

-----------------------------------------------------------------------------
\* A request or a command of a bot, counted in the service's, the bot's and the
\* credential's row.
LEMMA ScopesTrue ==
  ASSUME TrafficInv, NEW b \in TrafficBots, NEW d \in Nat,
         NEW after \in Stats, Truthful(after), after.total = StatsOf(b).total + d,
         EnsureBot(b, after), CredentialsMove(b, d),
         stats' \in Stats, Truthful(stats'), stats'.total = stats.total + d,
         UNCHANGED << minute, unattributed >>
  PROVE  TrafficInv'
<1>1. /\ botTable' \in Seq(TrafficRows) /\ RowPerBot'
      /\ \A i \in DOMAIN botTable' :
           \/ botTable'[i] = [bot |-> b, stats |-> after]
           \/ \E k \in DOMAIN botTable : botTable'[i] = botTable[k] /\ botTable[k].bot # b
      /\ \E i \in DOMAIN botTable' : botTable'[i].bot = b
      /\ \A k \in DOMAIN botTable : botTable[k].bot \notin Evicted(b) => \E i \in DOMAIN botTable' : botTable'[i].bot = botTable[k].bot
      /\ SumFunctionOnSet(BotTotals, ToSet(botTable')) <= SumFunctionOnSet(BotTotals, ToSet(botTable)) + d
  BY BotsStep
<1>2. /\ credentials' \in Seq(CredentialRows) /\ Distinct(credentials', CredentialKey)
      /\ \A e \in ToSet(credentials') : e.bot = b \/ (e.bot \notin Evicted(b) /\ e \in ToSet(credentials))
      /\ SumFunctionOnSet(CredentialCounts, CredentialsOf(b)')
           <= SumFunctionOnSet(CredentialCounts, CredentialsOf(b)) + d
  BY DEF CredentialsMove
<1>3. /\ minute \in Nat /\ unattributed \in Nat /\ stats.total \in Nat
      /\ botTable \in Seq(TrafficRows)
  BY DEF TrafficInv, TrafficTyped, Stats
<1>4. /\ ToSet(credentials) = {credentials[i] : i \in DOMAIN credentials}
      /\ IsFiniteSet(ToSet(credentials)) /\ \A e \in ToSet(credentials) : CredentialCounts[e] \in Nat
  BY CredentialsNow
<1>5. /\ ToSet(credentials') = {credentials'[i] : i \in DOMAIN credentials'}
      /\ IsFiniteSet(ToSet(credentials')) /\ ToSet(credentials') \subseteq CredentialRows
      /\ \A e \in ToSet(credentials') : CredentialCounts[e] \in Nat
  <2>1. /\ ToSet(credentials') = {credentials'[i] : i \in DOMAIN credentials'}
        /\ IsFiniteSet(ToSet(credentials')) /\ ToSet(credentials') \subseteq CredentialRows
    BY <1>2, RowsFinite
  <2>2. QED BY <2>1 DEF CredentialCounts, CredentialRows
<1>6. TrafficTyped'
  BY <1>1, <1>2, <1>3 DEF TrafficTyped
<1>7. \A i \in DOMAIN botTable' : Truthful(botTable'[i].stats)
  BY <1>1 DEF TrafficInv
<1>8. RowPerCredential'
  <2>1. \A i \in DOMAIN credentials' : credentials'[i] \in CredentialRows
    BY <1>2
  <2>2. QED BY <1>2, <2>1 DEF RowPerCredential, Distinct, CredentialKey
<1>9. \A i \in DOMAIN credentials' : Known(credentials[i].bot)'
  <2> SUFFICES ASSUME NEW i \in DOMAIN credentials'
               PROVE  \E k \in DOMAIN botTable' : botTable'[k].bot = credentials'[i].bot
    BY DEF Known
  <2>1. credentials'[i] \in ToSet(credentials')
    BY <1>5
  <2>2. CASE credentials'[i].bot = b
    BY <1>1, <2>2
  <2>3. CASE credentials'[i].bot \notin Evicted(b) /\ credentials'[i] \in ToSet(credentials)
    <3>1. PICK k \in DOMAIN credentials : credentials[k] = credentials'[i]
      BY <1>4, <2>3
    <3>2. PICK j \in DOMAIN botTable : botTable[j].bot = credentials'[i].bot
      BY <3>1 DEF TrafficInv, Known
    <3>3. QED BY <1>1, <2>3, <3>2
  <2>4. QED BY <1>2, <2>1, <2>2, <2>3
<1>10. SumFunctionOnSet(BotTotals, ToSet(botTable')) + unattributed' <= stats'.total
  <2>1. SumFunctionOnSet(BotTotals, ToSet(botTable)) + unattributed <= stats.total
    BY DEF TrafficInv, BelowTotals
  <2>2. SumFunctionOnSet(BotTotals, ToSet(botTable)) \in Int /\ SumFunctionOnSet(BotTotals, ToSet(botTable')) \in Int
    <3>1. /\ IsFiniteSet(ToSet(botTable)) /\ ToSet(botTable) \subseteq TrafficRows
          /\ IsFiniteSet(ToSet(botTable')) /\ ToSet(botTable') \subseteq TrafficRows
      BY <1>1, <1>3, RowsFinite
    <3>2. \A e \in TrafficRows : BotTotals[e] \in Int
      BY DEF BotTotals, TrafficRows, Stats
    <3>3. QED BY <3>1, <3>2, SumInt
  <2>3. QED BY <1>1, <1>3, <2>1, <2>2
<1>11. ASSUME NEW a, a # b
       PROVE  SumFunctionOnSet(CredentialCounts, CredentialsOf(a)')
                <= SumFunctionOnSet(CredentialCounts, CredentialsOf(a))
  <2> DEFINE S == CredentialsOf(a)
             T == {e \in ToSet(credentials') : e.bot = a}
  <2>1. T \subseteq S
    BY <1>2, <1>11 DEF CredentialsOf
  <2>2. IsFiniteSet(S) /\ \A e \in S : CredentialCounts[e] \in Nat
    BY <1>4, FS_Subset DEF CredentialsOf
  <2>3. CredentialsOf(a)' = T
    BY DEF CredentialsOf
  <2> HIDE DEF S, T
  <2>4. \A e \in T : CredentialCounts[e] \in Int /\ CredentialCounts[e] <= CredentialCounts[e]
    BY <2>1, <2>2
  <2>5. SumFunctionOnSet(CredentialCounts, T) <= SumFunctionOnSet(CredentialCounts, S)
    BY <2>1, <2>2, <2>4, SumAtMost
  <2>6. QED BY <2>3, <2>5 DEF S
<1>12. SumFunctionOnSet(CredentialCounts, CredentialsOf(b)) <= StatsOf(b).total
       /\ SumFunctionOnSet(CredentialCounts, CredentialsOf(b)) \in Int /\ StatsOf(b).total \in Nat
  <2>1. StatsOf(b).total \in Nat
    BY StatsOfIs
  <2>2. IsFiniteSet(CredentialsOf(b)) /\ \A e \in CredentialsOf(b) : CredentialCounts[e] \in Int
    BY <1>4, FS_Subset DEF CredentialsOf
  <2>3. SumFunctionOnSet(CredentialCounts, CredentialsOf(b)) \in Int
    BY <2>2, SumInt
  <2>4. CASE Known(b)
    <3>1. PICK i \in DOMAIN botTable : botTable[i].bot = b /\ StatsOf(b) = botTable[i].stats
      BY <2>4, StatsOfIs
    <3>2. SumFunctionOnSet(CredentialCounts, CredentialsOf(botTable[i].bot)) <= botTable[i].stats.total
      BY DEF TrafficInv, BelowTotals
    <3>3. QED BY <2>1, <2>3, <3>1, <3>2
  <2>5. CASE ~ Known(b)
    <3>1. CredentialsOf(b) = {}
      BY <1>4, <2>5 DEF TrafficInv, CredentialsOf
    <3>2. StatsOf(b).total = 0
      BY <2>5, StatsOfIs
    <3>3. SumFunctionOnSet(CredentialCounts, CredentialsOf(b)) = 0
      BY <3>1, SumEmpty
    <3>4. QED BY <2>1, <2>3, <3>2, <3>3
  <2>6. QED BY <2>4, <2>5
<1>13. \A i \in DOMAIN botTable' :
         SumFunctionOnSet(CredentialCounts, CredentialsOf(botTable[i].bot)') <= botTable'[i].stats.total
  <2> SUFFICES ASSUME NEW i \in DOMAIN botTable', NEW a, a = botTable'[i].bot
               PROVE  SumFunctionOnSet(CredentialCounts, CredentialsOf(a)') <= botTable'[i].stats.total
    BY DEF CredentialsOf
  <2>1. CASE botTable'[i] = [bot |-> b, stats |-> after]
    <3>1. a = b /\ botTable'[i].stats.total = StatsOf(b).total + d
      BY <2>1
    <3>2. SumFunctionOnSet(CredentialCounts, CredentialsOf(b)') \in Int
      <4> DEFINE T == {e \in ToSet(credentials') : e.bot = b}
      <4>1. CredentialsOf(b)' = T
        BY DEF CredentialsOf
      <4>2. IsFiniteSet(T) /\ \A e \in T : CredentialCounts[e] \in Int
        BY <1>5, FS_Subset
      <4> HIDE DEF T
      <4>3. QED BY <4>1, <4>2, SumInt
    <3>3. QED BY <1>2, <1>12, <3>1, <3>2
  <2>2. CASE \E k \in DOMAIN botTable : botTable'[i] = botTable[k] /\ botTable[k].bot # b
    <3>1. PICK k \in DOMAIN botTable : botTable'[i] = botTable[k] /\ botTable[k].bot # b
      BY <2>2
    <3>2. SumFunctionOnSet(CredentialCounts, CredentialsOf(a)) <= botTable'[i].stats.total
      BY <3>1 DEF TrafficInv, BelowTotals
    <3>3. SumFunctionOnSet(CredentialCounts, CredentialsOf(a)')
            <= SumFunctionOnSet(CredentialCounts, CredentialsOf(a))
      BY <1>11, <3>1
    <3>4. /\ SumFunctionOnSet(CredentialCounts, CredentialsOf(a)') \in Int
          /\ SumFunctionOnSet(CredentialCounts, CredentialsOf(a)) \in Int
      <4> DEFINE T == {e \in ToSet(credentials') : e.bot = a}
                 S == CredentialsOf(a)
      <4>1. CredentialsOf(a)' = T
        BY DEF CredentialsOf
      <4>2. IsFiniteSet(T) /\ \A e \in T : CredentialCounts[e] \in Int
        BY <1>5, FS_Subset
      <4>3. IsFiniteSet(S) /\ \A e \in S : CredentialCounts[e] \in Int
        BY <1>4, FS_Subset DEF CredentialsOf
      <4> HIDE DEF T, S
      <4>4. SumFunctionOnSet(CredentialCounts, T) \in Int /\ SumFunctionOnSet(CredentialCounts, S) \in Int
        BY <4>2, <4>3, SumInt
      <4>5. QED BY <4>1, <4>4 DEF S
    <3>5. botTable'[i].stats.total \in Nat
      <4>1. botTable[k] \in TrafficRows
        BY <1>3, <3>1
      <4>2. QED BY <3>1, <4>1 DEF TrafficRows, Stats
    <3>6. QED BY <3>2, <3>3, <3>4, <3>5
  <2>3. QED BY <1>1, <2>1, <2>2
<1>14. BelowTotals'
  BY <1>10, <1>13 DEF BelowTotals
<1>15. QED BY <1>1, <1>6, <1>7, <1>8, <1>9, <1>14 DEF TrafficInv

LEMMA TrafficInitTrue == TrafficInit => TrafficInv
<1> SUFFICES ASSUME TrafficInit PROVE TrafficInv
  OBVIOUS
<1>1. stats \in Stats /\ Truthful(stats) /\ stats.total = 0
  BY NoStatsTrue DEF TrafficInit
<1>2. TrafficTyped
  BY <1>1 DEF TrafficInit, TrafficTyped
<1>3. RowPerBot /\ RowPerCredential /\ (\A i \in DOMAIN botTable : Truthful(botTable[i].stats))
      /\ \A i \in DOMAIN credentials : Known(credentials[i].bot)
  BY DEF TrafficInit, RowPerBot, RowPerCredential
<1>4. BelowTotals
  <2>1. ToSet(botTable) = {} /\ DOMAIN botTable = {} /\ unattributed = 0
    BY DEF TrafficInit, ToSet
  <2>2. QED BY <1>1, <2>1, SumEmpty DEF BelowTotals
<1>5. QED BY <1>1, <1>2, <1>3, <1>4 DEF TrafficInv

\* Steps that leave the tables alone.
LEMMA TablesStand ==
  ASSUME TrafficInv, UNCHANGED << botTable, credentials >>, minute' \in Nat, unattributed' \in Nat,
         stats' \in Stats, Truthful(stats'),
         stats'.total - unattributed' >= stats.total - unattributed
  PROVE  TrafficInv'
<1>1. TrafficTyped'
  BY DEF TrafficInv, TrafficTyped
<1>2. /\ RowPerBot' /\ RowPerCredential' /\ \A i \in DOMAIN botTable' : Truthful(botTable'[i].stats)
      /\ \A i \in DOMAIN credentials' : Known(credentials[i].bot)'
  BY DEF TrafficInv, RowPerBot, RowPerCredential, Known
<1>3. ToSet(botTable') = ToSet(botTable) /\ \A a : CredentialsOf(a)' = CredentialsOf(a)
  BY DEF CredentialsOf
<1>4. SumFunctionOnSet(BotTotals, ToSet(botTable')) + unattributed' <= stats'.total
  <2>1. IsFiniteSet(ToSet(botTable)) /\ ToSet(botTable) \subseteq TrafficRows
    BY RowsFinite DEF TrafficInv, TrafficTyped
  <2>2. \A e \in TrafficRows : BotTotals[e] \in Int
    BY DEF BotTotals, TrafficRows, Stats
  <2>3. SumFunctionOnSet(BotTotals, ToSet(botTable)) \in Int
    BY <2>1, <2>2, SumInt
  <2>4. stats.total \in Nat /\ stats'.total \in Nat /\ unattributed \in Nat /\ unattributed' \in Nat
    BY DEF TrafficInv, TrafficTyped, Stats
  <2>5. SumFunctionOnSet(BotTotals, ToSet(botTable)) + unattributed <= stats.total
    BY DEF TrafficInv, BelowTotals
  <2>6. QED BY <1>3, <2>3, <2>4, <2>5
<1>5. BelowTotals'
  BY <1>3, <1>4 DEF TrafficInv, BelowTotals
<1>6. QED BY <1>1, <1>2, <1>5 DEF TrafficInv

LEMMA RequestCounted ==
  ASSUME TrafficInv, NEW b \in TrafficBots \cup {Nowhere}, NEW route \in Routes, RecordRequest(b, route)
  PROVE  TrafficInv'
<1> DEFINE row == RowOf(stats.routes, route)
           after == CountedIn(StatsOf(b), row)
<1>1. minute \in Nat /\ unattributed \in Nat /\ stats \in Stats /\ Truthful(stats) /\ stats.total \in Nat
  BY DEF TrafficInv, TrafficTyped, Stats
<1>2. stats' \in Stats /\ Truthful(stats') /\ stats'.total = stats.total + 1 /\ UNCHANGED minute
  <2>1. stats' = CountedIn(stats, route) /\ UNCHANGED minute /\ route \in Routes \cup {Other}
    BY DEF RecordRequest
  <2>2. QED BY <1>1, <2>1, CountedTrue
<1>3. CASE b = Nowhere
  <2>1. unattributed' = unattributed + 1 /\ UNCHANGED << botTable, credentials >>
    BY <1>3 DEF RecordRequest
  <2>2. stats'.total - unattributed' >= stats.total - unattributed
    BY <1>1, <1>2, <2>1
  <2>3. QED BY <1>1, <1>2, <2>1, <2>2, TablesStand
<1>4. CASE b # Nowhere
  <2>1. /\ b \in TrafficBots /\ EnsureBot(b, after) /\ UNCHANGED unattributed
        /\ credentials' = Remaining(b) \/ \E c \in Credentials : CountCredential(b, c)
    BY <1>4 DEF RecordRequest
  <2>2. row \in Routes \cup {Other}
    BY DEF RowOf
  <2>3. after \in Stats /\ Truthful(after) /\ after.total = StatsOf(b).total + 1
    BY <1>1, <2>2, StatsOfIs, CountedTrue
  <2>4. CredentialsMove(b, 1)
    BY <2>1, RemainMoves, CountMoves
  <2> HIDE DEF after
  <2>5. QED BY <1>2, <2>1, <2>3, <2>4, ScopesTrue
<1>5. QED BY <1>3, <1>4

LEMMA OperationTrue ==
  ASSUME TrafficInv, NEW b \in TrafficBots \cup {Nowhere}, NEW outcome \in Outcomes,
         RecordOperation(b, outcome)
  PROVE  TrafficInv'
<1> DEFINE after == Operated(StatsOf(b), outcome)
<1>1. /\ b \in TrafficBots /\ stats' = Operated(stats, outcome) /\ EnsureBot(b, after)
      /\ credentials' = Remaining(b) /\ UNCHANGED << minute, unattributed >>
  BY DEF RecordOperation
<1>2. stats \in Stats /\ Truthful(stats) /\ stats.total \in Nat
  BY DEF TrafficInv, TrafficTyped, Stats
<1>3. stats' \in Stats /\ Truthful(stats') /\ stats'.total = stats.total + 0
  BY <1>1, <1>2, OperatedTrue
<1>4. after \in Stats /\ Truthful(after) /\ after.total = StatsOf(b).total + 0
  BY StatsOfIs, OperatedTrue
<1>5. CredentialsMove(b, 0)
  BY <1>1, RemainMoves
<1> HIDE DEF after
<1>6. QED BY <1>1, <1>3, <1>4, <1>5, ScopesTrue

LEMMA TrafficStepTrue ==
  ASSUME TrafficInv, [TrafficNext]_trafficVars
  PROVE  TrafficInv'
<1>1. CASE MinutePasses \/ UNCHANGED trafficVars
  <2>1. UNCHANGED << stats, botTable, credentials, unattributed >>
    BY <1>1 DEF MinutePasses, trafficVars
  <2>2. minute \in Nat /\ unattributed \in Nat /\ stats \in Stats /\ Truthful(stats) /\ stats.total \in Nat
    BY DEF TrafficInv, TrafficTyped, Stats
  <2>3. minute' \in Nat
    BY <1>1, <2>2 DEF MinutePasses, trafficVars
  <2>4. stats'.total - unattributed' >= stats.total - unattributed
    BY <2>1, <2>2
  <2>5. QED BY <2>1, <2>2, <2>3, <2>4, TablesStand
<1>2. CASE \E b \in TrafficBots \cup {Nowhere} :
             \/ \E route \in Routes : RecordRequest(b, route)
             \/ \E outcome \in Outcomes : RecordOperation(b, outcome)
  BY <1>2, RequestCounted, OperationTrue
<1>3. QED BY <1>1, <1>2 DEF TrafficNext

LEMMA InvAgrees ==
  ASSUME TrafficInv
  PROVE  CountersAgree
<1>1. /\ BotsSum = SumFunctionOnSet(BotTotals, ToSet(botTable))
      /\ \A b : CredentialsSum(b) = SumFunctionOnSet(CredentialCounts, CredentialsOf(b))
  BY SumsOfRows DEF TrafficInv
<1>2. /\ SumFunction(stats.routes) = stats.total /\ SumFunction(stats.minutes) <= stats.total
      /\ \A i \in DOMAIN botTable : SumFunction(botTable[i].stats.routes) = botTable[i].stats.total
  BY DEF TrafficInv, Truthful
<1>3. /\ BotsSum + unattributed <= stats.total
      /\ \A i \in DOMAIN botTable : CredentialsSum(botTable[i].bot) <= botTable[i].stats.total
  BY <1>1 DEF TrafficInv, BelowTotals
<1>4. \A i, k \in DOMAIN botTable : botTable[i].bot = botTable[k].bot => i = k
  BY DEF TrafficInv, RowPerBot
<1>5. \A i \in DOMAIN credentials :
        /\ Known(credentials[i].bot)
        /\ \A k \in DOMAIN credentials :
            << credentials[i].bot, credentials[i].credential >> =
                << credentials[k].bot, credentials[k].credential >> => i = k
  BY DEF TrafficInv, RowPerCredential
<1>6. QED BY <1>2, <1>3, <1>4, <1>5 DEF CountersAgree

THEOREM CountersAlwaysAgree == TrafficSpec => []CountersAgree
<1>1. TrafficInit => TrafficInv
  BY TrafficInitTrue
<1>2. TrafficInv /\ [TrafficNext]_trafficVars => TrafficInv'
  BY TrafficStepTrue
<1>3. TrafficInv => CountersAgree
  BY InvAgrees
<1>4. QED BY <1>1, <1>2, <1>3, PTL DEF TrafficSpec

\* The tables are within their bounds.
OwnRoutes(s) == Cardinality(DOMAIN s.routes \ {Other})
TablesBounded ==
  /\ minute <= MaxMinute /\ stats.total <= MaxRequests
  /\ Len(botTable) <= MaxBots /\ Len(credentials) <= MaxCredentials
  /\ OwnRoutes(stats) <= MaxRoutes

LEMMA RoutesBounded ==
  ASSUME NEW s \in Stats, Truthful(s), OwnRoutes(s) <= MaxRoutes, NEW route
  PROVE  OwnRoutes(CountedIn(s, route)) <= MaxRoutes
<1> DEFINE D == DOMAIN s.routes
           key == RowOf(s.routes, route)
<1>1. s = [total |-> s.total, routes |-> s.routes, minutes |-> s.minutes, operations |-> s.operations]
  BY DEF Stats
<1>2. CountedIn(s, route).routes = Bumped(s.routes, key)
  BY <1>1 DEF CountedIn
<1>3. DOMAIN CountedIn(s, route).routes = D \cup {key}
  BY <1>2 DEF Bumped
<1>4. IsFiniteSet(D) /\ IsFiniteSet(D \ {Other}) /\ Cardinality(D) \in Nat /\ MaxRoutes \in Nat
  BY TrafficAssumption, FS_Subset, FS_CardinalityType DEF Truthful
<1>5. CASE key \in D \/ key = Other
  <2>1. (D \cup {key}) \ {Other} = D \ {Other}
    BY <1>5
  <2>2. QED BY <1>3, <2>1 DEF OwnRoutes
<1>6. CASE key \notin D /\ key # Other
  <2>1. Cardinality(D) < MaxRoutes
    BY <1>6 DEF RowOf
  <2>2. IsFiniteSet(D \cup {key}) /\ Cardinality(D \cup {key}) = Cardinality(D) + 1
    BY <1>4, <1>6, FS_AddElement
  <2>3. Cardinality((D \cup {key}) \ {Other}) <= Cardinality(D \cup {key})
        /\ Cardinality((D \cup {key}) \ {Other}) \in Nat
    BY <2>2, FS_Subset, FS_CardinalityType
  <2>4. QED BY <1>3, <1>4, <2>1, <2>2, <2>3 DEF OwnRoutes
<1>7. QED BY <1>5, <1>6

LEMMA BotsBounded ==
  ASSUME TrafficInv, Len(botTable) <= MaxBots, NEW b, NEW after, EnsureBot(b, after)
  PROVE  Len(botTable') <= MaxBots
<1> DEFINE I == {i \in DOMAIN botTable : botTable[i].bot \notin Evicted(b) \cup {b}}
           kept == Picked(botTable, I)
           row == [bot |-> b, stats |-> after]
<1>1. botTable \in Seq(TrafficRows) /\ Len(botTable) \in Nat /\ MaxBots \in Nat /\ MaxBots >= 1
  BY TrafficAssumption DEF TrafficInv, TrafficTyped
<1>2. botTable' = Append(kept, row)
  BY DEF EnsureBot
<1>3. I \in SUBSET (1..Len(botTable))
  BY <1>1
<1>4. /\ kept \in Seq(TrafficRows) /\ Len(kept) <= Len(botTable)
      /\ \A n \in 1..Len(botTable) : n \notin I => Len(kept) < Len(botTable)
  BY <1>1, <1>3, PickedRows, PickedLength
<1>5. Len(botTable) < MaxBots \/ \E n \in 1..Len(botTable) : n \notin I
  <2>1. CASE Known(b)
    BY <1>1, <2>1 DEF Known
  <2>2. CASE ~ Known(b) /\ Len(botTable) >= MaxBots
    <3>1. 1 \in 1..Len(botTable) /\ Head(botTable) = botTable[1]
      BY <1>1, <2>2
    <3>2. botTable[1].bot \in Evicted(b)
      BY <2>2, <3>1 DEF Evicted
    <3>3. QED BY <3>1, <3>2
  <2>3. QED BY <1>1, <2>1, <2>2
<1> HIDE DEF I, row
<1>6. Len(kept) < MaxBots /\ Len(kept) \in Nat
  BY <1>1, <1>4, <1>5
<1> HIDE DEF kept
<1>7. Len(botTable') = Len(kept) + 1
  <2>1. kept \in Seq(TrafficRows \cup {row})
    BY <1>4
  <2>2. Len(Append(kept, row)) = Len(kept) + 1
    BY <2>1
  <2>3. QED BY <1>2, <2>2
<1>8. QED BY <1>1, <1>6, <1>7

LEMMA CredentialsBounded ==
  ASSUME TrafficInv, Len(credentials) <= MaxCredentials, NEW b,
         credentials' = Remaining(b) \/ \E c \in Credentials : CountCredential(b, c)
  PROVE  Len(credentials') <= MaxCredentials
<1> DEFINE rows == Remaining(b)
<1>1. credentials \in Seq(CredentialRows) /\ MaxCredentials \in Nat /\ MaxCredentials >= 1
  BY TrafficAssumption DEF TrafficInv, TrafficTyped
<1>2. rows \in Seq(CredentialRows) /\ Len(rows) <= Len(credentials) /\ Len(rows) \in Nat
  <2> DEFINE I == {i \in DOMAIN credentials : credentials[i].bot \notin Evicted(b)}
  <2>1. I \in SUBSET (1..Len(credentials)) /\ rows = Picked(credentials, I)
    BY <1>1 DEF Remaining
  <2> HIDE DEF I
  <2>2. QED BY <1>1, <2>1, PickedRows, PickedLength
<1>3. Len(rows) <= MaxCredentials
  BY <1>1, <1>2
<1>4. ASSUME NEW c \in Credentials, CountCredential(b, c) PROVE Len(credentials') <= MaxCredentials
  <2> DEFINE mine == {i \in DOMAIN rows : rows[i].bot = b /\ rows[i].credential = c}
             others == Picked(rows, DOMAIN rows \ mine)
             room == IF mine = {} /\ Len(rows) >= MaxCredentials THEN Tail(others) ELSE others
  <2>1. PICK row : credentials' = Append(room, row)
    BY <1>4 DEF CountCredential
  <2> HIDE DEF rows
  <2>2. DOMAIN rows \ mine \in SUBSET (1..Len(rows))
    BY <1>2
  <2>3. \A n \in mine : n \in 1..Len(rows) /\ n \notin DOMAIN rows \ mine
    BY <1>2
  <2> HIDE DEF mine
  <2>4. /\ others \in Seq(CredentialRows) /\ Len(others) <= Len(rows) /\ Len(others) \in Nat
        /\ mine # {} => Len(others) < Len(rows)
    BY <1>2, <2>2, <2>3, PickedRows, PickedLength
  <2>5. mine = {} /\ Len(rows) >= MaxCredentials => others # << >>
    <3> SUFFICES ASSUME mine = {}, Len(rows) >= MaxCredentials PROVE others # << >>
      OBVIOUS
    <3>1. 1 \in DOMAIN rows \ mine
      BY <1>1, <1>2
    <3>2. \E i \in DOMAIN others : others[i] = rows[1]
      BY <1>2, <2>2, <3>1, PickedRows
    <3>3. QED BY <2>4, <3>2
  <2> HIDE DEF others
  <2>6. room \in Seq(CredentialRows) /\ Len(room) < MaxCredentials
    <3>1. CASE mine = {} /\ Len(rows) >= MaxCredentials
      <4>1. Tail(others) \in Seq(CredentialRows) /\ Len(Tail(others)) = Len(others) - 1
        BY <2>4, <2>5, <3>1
      <4>2. QED BY <1>1, <1>3, <2>4, <3>1, <4>1
    <3>2. CASE ~ (mine = {} /\ Len(rows) >= MaxCredentials)
      BY <1>1, <1>2, <1>3, <2>4, <3>2
    <3>3. QED BY <3>1, <3>2
  <2> HIDE DEF room
  <2>7. Len(Append(room, row)) = Len(room) + 1 /\ Len(room) \in Nat
    <3>1. room \in Seq(CredentialRows \cup {row})
      BY <2>6
    <3>2. QED BY <3>1
  <2>8. QED BY <1>1, <2>1, <2>6, <2>7
<1>5. QED BY <1>3, <1>4

LEMMA OutcomesFinite == IsFiniteSet(Outcomes)
<1>1. Outcomes = (({} \cup {"dispatched"}) \cup {"rejected"}) \cup {"uncertain"}
  BY DEF Outcomes
<1>2. QED BY <1>1, FS_EmptySet, FS_AddElement

LEMMA InBoundTotal ==
  ASSUME stats \in Stats, IsFiniteSet(Outcomes), InBound
  PROVE  stats.total < MaxRequests
<1>1. /\ stats.total \in Nat /\ stats.operations \in [Outcomes -> Nat] /\ MaxRequests \in Nat
  BY TrafficAssumption DEF Stats
<1>2. SumFunction(stats.operations) \in Nat
  <2>1. SumFunction(stats.operations) = SumFunctionOnSet(stats.operations, Outcomes)
    BY <1>1 DEF SumFunction, SumFunctionOnSet
  <2>2. QED BY <1>1, <2>1, SumNat
<1>3. QED BY <1>1, <1>2 DEF InBound

LEMMA StepTablesBounded ==
  ASSUME TrafficInv, TablesBounded, [TrafficNext]_trafficVars
  PROVE  TablesBounded'
<1>1. /\ stats \in Stats /\ Truthful(stats) /\ stats.total \in Nat /\ minute \in Nat
      /\ MaxRequests \in Nat /\ MaxMinute \in Nat
  BY TrafficAssumption DEF TrafficInv, TrafficTyped, Stats
<1>2. CASE MinutePasses \/ UNCHANGED trafficVars
  <2>1. minute' <= MaxMinute
    BY <1>1, <1>2 DEF MinutePasses, trafficVars, TablesBounded
  <2>2. QED BY <1>2, <2>1 DEF MinutePasses, trafficVars, TablesBounded
<1>3. ASSUME NEW b \in TrafficBots \cup {Nowhere}, NEW route \in Routes, RecordRequest(b, route)
      PROVE  TablesBounded'
  <2>1. /\ InBound /\ stats' = CountedIn(stats, route) /\ UNCHANGED minute
        /\ UNCHANGED botTable \/ \E after : EnsureBot(b, after)
        /\ UNCHANGED credentials \/ credentials' = Remaining(b) \/ \E c \in Credentials : CountCredential(b, c)
    BY <1>3 DEF RecordRequest
  <2>2. Len(botTable') <= MaxBots /\ Len(credentials') <= MaxCredentials
    BY <2>1, BotsBounded, CredentialsBounded DEF TablesBounded
  <2>3. stats'.total <= MaxRequests
    <3>1. stats.total < MaxRequests
      BY <1>1, <2>1, InBoundTotal, OutcomesFinite
    <3>2. stats'.total = stats.total + 1
      BY <1>1, <2>1, CountedTrue
    <3>3. QED BY <1>1, <3>1, <3>2
  <2>4. OwnRoutes(stats') <= MaxRoutes
    BY <1>1, <2>1, RoutesBounded DEF TablesBounded
  <2>5. QED BY <2>1, <2>2, <2>3, <2>4 DEF TablesBounded, OwnRoutes
<1>4. ASSUME NEW b \in TrafficBots \cup {Nowhere}, NEW outcome \in Outcomes, RecordOperation(b, outcome)
      PROVE  TablesBounded'
  <2>1. /\ stats' = Operated(stats, outcome) /\ UNCHANGED minute
        /\ \E after : EnsureBot(b, after)
        /\ credentials' = Remaining(b)
    BY <1>4 DEF RecordOperation
  <2>2. Len(botTable') <= MaxBots /\ Len(credentials') <= MaxCredentials
    BY <2>1, BotsBounded, CredentialsBounded DEF TablesBounded
  <2>3. stats'.total = stats.total /\ stats'.routes = stats.routes
    BY <1>1, <2>1 DEF Operated, Stats
  <2>4. QED BY <2>1, <2>2, <2>3 DEF TablesBounded, OwnRoutes
<1>5. QED BY <1>2, <1>3, <1>4 DEF TrafficNext

(***************************************************************************)
(* TrafficBounded: whatever is requested of whom, the counters keep no     *)
(* more bots, credentials and routes than they are meant to                *)
(* (service_traffic.py).                                                   *)
(***************************************************************************)
THEOREM TrafficBounded == TrafficSpec => []TrafficTypeOK
<1>1. TrafficInit => TrafficInv /\ TablesBounded
  <2> SUFFICES ASSUME TrafficInit PROVE TablesBounded
    BY TrafficInitTrue
  <2>1. OwnRoutes(stats) = 0
    <3>1. DOMAIN stats.routes \ {Other} = {}
      BY DEF TrafficInit, NoStats
    <3>2. QED BY <3>1, FS_EmptySet DEF OwnRoutes
  <2>2. Len(botTable) = 0 /\ Len(credentials) = 0 /\ minute = 0 /\ stats.total = 0
    BY DEF TrafficInit, NoStats
  <2>3. QED BY <2>1, <2>2, TrafficAssumption DEF TablesBounded
<1>2. TrafficInv /\ TablesBounded /\ [TrafficNext]_trafficVars => (TrafficInv /\ TablesBounded)'
  BY TrafficStepTrue, StepTablesBounded
<1>3. TrafficInv /\ TablesBounded => TrafficTypeOK
  <2> SUFFICES ASSUME TrafficInv, TablesBounded PROVE TrafficTypeOK
    OBVIOUS
  <2>1. /\ stats.total \in 0..MaxRequests /\ minute \in 0..MaxMinute /\ MaxRequests \in Nat /\ MaxRoutes \in Nat
        /\ unattributed \in Nat
    BY TrafficAssumption DEF TrafficInv, TrafficTyped, TablesBounded, Stats
  <2>2. unattributed \in 0..MaxRequests
    <3>1. IsFiniteSet(ToSet(botTable)) /\ ToSet(botTable) \subseteq TrafficRows
      BY RowsFinite DEF TrafficInv, TrafficTyped
    <3>2. \A e \in TrafficRows : BotTotals[e] \in Nat
      BY DEF BotTotals, TrafficRows, Stats
    <3>3. SumFunctionOnSet(BotTotals, ToSet(botTable)) \in Nat
      BY <3>1, <3>2, SumNat
    <3>4. SumFunctionOnSet(BotTotals, ToSet(botTable)) + unattributed <= stats.total
      BY DEF TrafficInv, BelowTotals
    <3>5. QED BY <2>1, <3>3, <3>4
  <2>3. Cardinality(DOMAIN stats.routes) <= MaxRoutes + 1
    <3> DEFINE D == DOMAIN stats.routes
    <3>1. IsFiniteSet(D) /\ IsFiniteSet(D \ {Other}) /\ Cardinality(D \ {Other}) \in Nat
          /\ Cardinality(D \ {Other}) <= MaxRoutes
      BY FS_Subset, FS_CardinalityType DEF TrafficInv, Truthful, TablesBounded, OwnRoutes
    <3>2. Cardinality(D) = Cardinality(D \ {Other}) \/ Cardinality(D) = Cardinality(D \ {Other}) + 1
      <4>1. CASE Other \in D
        <5>1. (D \ {Other}) \cup {Other} = D
          BY <4>1
        <5>2. QED BY <3>1, <5>1, FS_AddElement
      <4>2. CASE Other \notin D
        <5>1. D \ {Other} = D
          BY <4>2
        <5>2. QED BY <5>1
      <4>3. QED BY <4>1, <4>2
    <3>3. QED BY <2>1, <3>1, <3>2
  <2>4. QED BY <2>1, <2>2, <2>3 DEF TrafficTypeOK, TablesBounded
<1>4. QED BY <1>1, <1>2, <1>3, PTL DEF TrafficSpec
=============================================================================
