------------------------------- MODULE Restore --------------------------------
(***************************************************************************)
(* backup/service.py: restoring bots from an archive while the same bots   *)
(* are started, stopped, deleted and used, and while the process dies.     *)
(*                                                                         *)
(* A bot's row and its state file belong together: occupancy only makes    *)
(* sense under the configuration it was saved under.  They are replaced as *)
(* a pair: the row goes to recovery_required with the archived             *)
(* configuration, then the file is replaced, then the row becomes          *)
(* startable.  What is known of either is its origin: the deployment or    *)
(* one of the archives.  What an archive pairs is taken as a pair.         *)
(***************************************************************************)
EXTENDS Naturals, FiniteSets

CONSTANTS
  Restorable,   \* the uuids that the deployment or an archive knows
  Versions,     \* the deployment and the archives: where a configuration comes from
  MaxRevision,  \* bound: identity changes of a bot
  NoFile        \* no state file

ASSUME RestoreAssumption ==
  /\ MaxRevision \in Nat
  /\ NoFile \notin Versions

RowStatuses == {"absent", "stopped", "running", "error", "recovery_required"}
Rows == [status : RowStatuses, deleted : BOOLEAN, cfg : Versions, revision : 0..MaxRevision]
(* One bot of an archive: its configuration, and its state file if it has one. *)
Archives == [cfg : Versions, hasState : BOOLEAN]

RestoreSteps == {"idle", "preflight", "own", "drain", "overwrite", "insert", "ownNew",
                 "install", "promote", "fence"}

VARIABLES
  record,    \* uuid -> its row
  stateFile, \* uuid -> the origin of its state file, or NoFile
  live,      \* uuid -> the origin of what its live instance runs, or NoFile
  lifecycle, \* uuid -> who owns its transition
  granted,     \* uuid -> the revisions that live credentials of the bot are bound to
  restorer,  \* the restore in progress (the application guard admits one): step, uuid, archive
  request    \* uuid -> the start that an administrator's thread is in the middle of

restoreVars == << record, stateFile, live, lifecycle, granted, restorer, request >>

NoRestore == [at |-> "idle"]

RestoreInit ==
  /\ record \in [Restorable -> {r \in Rows : /\ r.status \in {"absent", "stopped", "running"}
                                             /\ r.revision = 0
                                             /\ r.deleted => r.status = "stopped"}]
  /\ stateFile = [u \in Restorable |-> IF record[u].status = "absent" THEN NoFile ELSE record[u].cfg]
  /\ live = [u \in Restorable |-> NoFile]
  /\ lifecycle = [u \in Restorable |-> "nobody"]
  /\ granted = [u \in Restorable |-> {}]
  /\ restorer = NoRestore
  /\ request = [u \in Restorable |-> "none"]

Present(u) == record[u].status # "absent" /\ ~record[u].deleted
Own(u, who) == lifecycle[u] = "nobody" /\ lifecycle' = [lifecycle EXCEPT ![u] = who]
Disown(u, who) == lifecycle' = [lifecycle EXCEPT ![u] = IF @ = who THEN "nobody" ELSE @]
MoveTo(step) == restorer' = [restorer EXCEPT !.at = step]

-------------------------------------------------------------------------------
(* restore_apply: take the application guard and read the archive.  The bots
   of a selection are restored one after the other, each on its own. *)
BeginRestore ==
  /\ restorer = NoRestore
  /\ \E u \in Restorable, a \in Archives :
       /\ record[u].revision < MaxRevision
       /\ restorer' = [at |-> "preflight", uuid |-> u, archive |-> a]
  /\ UNCHANGED << record, stateFile, live, lifecycle, granted, request >>

(* Skip this bot with an error: whatever was owned is given back. *)
SkipBot(u) ==
  /\ restorer' = NoRestore
  /\ Disown(u, "restore")

(* The archived state must parse for the bot's type, the deployment's own state
   must not wait for a migration, and a tombstone is not a free slot. *)
Preflight ==
  LET u == restorer.uuid IN
  /\ restorer.at = "preflight"
  /\ \/ SkipBot(u)
     \/ /\ Present(u)
        /\ MoveTo("own")
        /\ UNCHANGED lifecycle
     \/ /\ record[u].status = "absent"
        /\ MoveTo("insert")
        /\ UNCHANGED lifecycle
  /\ UNCHANGED << record, stateFile, live, granted, request >>

(* Own the transition, or be refused at once.  Then look at the row again:
   without an archived state only the very configuration the bot has, and no
   bot in recovery, is accepted. *)
OwnTarget ==
  LET u == restorer.uuid
      restorable == /\ Present(u)
                    /\ \/ restorer.archive.hasState
                       \/ /\ record[u].status # "recovery_required"
                          /\ record[u].cfg = restorer.archive.cfg
  IN
  /\ restorer.at = "own"
  /\ IF lifecycle[u] = "nobody" /\ restorable
     THEN Own(u, "restore") /\ MoveTo("drain")
     ELSE SkipBot(u)
  /\ UNCHANGED << record, stateFile, live, granted, request >>

(* stop_bot: the instance is drained and gone, or a worker is still in it and
   nothing may be overwritten. *)
DrainTarget ==
  LET u == restorer.uuid IN
  /\ restorer.at = "drain"
  /\ \/ /\ live' = [live EXCEPT ![u] = NoFile]
        /\ MoveTo("overwrite")
        /\ UNCHANGED lifecycle
     \/ /\ live[u] # NoFile
        /\ SkipBot(u)
        /\ UNCHANGED live
  /\ UNCHANGED << record, stateFile, granted, request >>

(* Mutant: the row keeps its status while it is overwritten. *)
OverwriteRowUnfenced ==
  LET u == restorer.uuid IN
  /\ restorer.at = "overwrite"
  /\ \/ /\ record' = [record EXCEPT ![u].cfg = restorer.archive.cfg, ![u].revision = @ + 1]
        /\ granted' = [granted EXCEPT ![u] = {}]
        /\ MoveTo("install")
        /\ UNCHANGED lifecycle
     \/ SkipBot(u) /\ UNCHANGED << record, granted >>
  /\ UNCHANGED << stateFile, live, request >>

(* One transaction: the archived configuration behind the fence, a new identity
   and the old identity's credentials revoked.  A rejected route or credential
   rolls it back; a failed commit may have taken effect or not. *)
OverwriteRow ==
  LET u == restorer.uuid
      Overwritten == /\ record' = [record EXCEPT ![u].status = "recovery_required",
                                                ![u].cfg = restorer.archive.cfg,
                                                ![u].revision = @ + 1]
                     /\ granted' = [granted EXCEPT ![u] = {}]
  IN
  /\ restorer.at = "overwrite"
  /\ \/ Overwritten /\ MoveTo("install") /\ UNCHANGED lifecycle
     \/ Overwritten /\ MoveTo("fence") /\ UNCHANGED lifecycle
     \/ MoveTo("fence") /\ UNCHANGED << record, granted, lifecycle >>
     \/ SkipBot(u) /\ UNCHANGED << record, granted >>
  /\ UNCHANGED << stateFile, live, request >>

(* A new bot is inserted behind the fence before anybody owns it. *)
InsertRow ==
  LET u == restorer.uuid IN
  /\ restorer.at = "insert"
  /\ \/ /\ record' = [record EXCEPT ![u] = [status |-> "recovery_required", deleted |-> FALSE,
                                            cfg |-> restorer.archive.cfg, revision |-> 0]]
        /\ MoveTo("ownNew")
        /\ UNCHANGED lifecycle
     \/ SkipBot(u) /\ UNCHANGED record
  /\ UNCHANGED << stateFile, live, granted, request >>

OwnNew ==
  LET u == restorer.uuid IN
  /\ restorer.at = "ownNew"
  /\ IF lifecycle[u] = "nobody"
     THEN Own(u, "restore") /\ MoveTo("install")
     ELSE MoveTo("fence") /\ UNCHANGED lifecycle
  /\ UNCHANGED << record, stateFile, live, granted, request >>

(* _write_state_file: temporary file, fsync, rename; or nothing. *)
InstallState ==
  LET u == restorer.uuid IN
  /\ restorer.at = "install"
  /\ \/ /\ stateFile' = IF restorer.archive.hasState
                        THEN [stateFile EXCEPT ![u] = restorer.archive.cfg] ELSE stateFile
        /\ MoveTo("promote")
     \/ MoveTo("fence") /\ UNCHANGED stateFile
  /\ UNCHANGED << record, live, lifecycle, granted, request >>

PromoteRow ==
  LET u == restorer.uuid IN
  /\ restorer.at = "promote"
  /\ \/ /\ record' = [record EXCEPT ![u].status = "stopped"]
        /\ SkipBot(u)
     \/ MoveTo("fence") /\ UNCHANGED << record, lifecycle >>
  /\ UNCHANGED << stateFile, live, granted, request >>

(* _mark_recovery_required, best effort: it may fail too. *)
FenceRow ==
  LET u == restorer.uuid IN
  /\ restorer.at = "fence"
  /\ \/ UNCHANGED record
     \/ /\ Present(u)
        /\ record' = [record EXCEPT ![u].status = "recovery_required"]
  /\ SkipBot(u)
  /\ UNCHANGED << stateFile, live, granted, request >>

RestoreStep ==
  \/ Preflight \/ OwnTarget \/ DrainTarget \/ OverwriteRow \/ InsertRow \/ OwnNew
  \/ InstallState \/ PromoteRow \/ FenceRow

-------------------------------------------------------------------------------
(* The lifecycle that a restore competes with (BotManager has all of it). *)
BeginStart(u) ==
  /\ request[u] = "none"
  /\ Own(u, "admin")
  /\ Present(u)
  /\ record[u].status # "recovery_required"
  /\ live[u] = NoFile
  /\ request' = [request EXCEPT ![u] = "construct"]
  /\ UNCHANGED << record, stateFile, live, granted, restorer >>

(* Construct from the row and the saved state, then commit the row and open. *)
CommitStart(u) ==
  /\ request[u] = "construct"
  /\ \/ /\ live' = [live EXCEPT ![u] = record[u].cfg]
        /\ record' = [record EXCEPT ![u].status = "running"]
     \/ /\ record' = [record EXCEPT ![u].status = "stopped"]
        /\ UNCHANGED live
  /\ request' = [request EXCEPT ![u] = "none"]
  /\ Disown(u, "admin")
  /\ UNCHANGED << stateFile, granted, restorer >>

StopRoute(u) ==
  /\ lifecycle[u] = "nobody"
  /\ Present(u)
  /\ record[u].status \in {"running", "error"}
  /\ live' = [live EXCEPT ![u] = NoFile]
  /\ record' = [record EXCEPT ![u].status = "stopped"]
  /\ UNCHANGED << stateFile, lifecycle, granted, restorer, request >>

DeleteRoute(u) ==
  /\ lifecycle[u] = "nobody"
  /\ Present(u)
  /\ live' = [live EXCEPT ![u] = NoFile]
  /\ record' = [record EXCEPT ![u].status = "stopped", ![u].deleted = TRUE]
  /\ granted' = [granted EXCEPT ![u] = {}]
  /\ UNCHANGED << stateFile, lifecycle, restorer, request >>

(* A command of an admitted worker saves the state of the instance it is in. *)
WorkerSaves(u) ==
  /\ live[u] # NoFile
  /\ stateFile' = [stateFile EXCEPT ![u] = live[u]]
  /\ UNCHANGED << record, live, lifecycle, granted, restorer, request >>

(* A chat user confirms a binding against the row as it is now. *)
Bind(u) ==
  /\ Present(u)
  /\ live[u] # NoFile
  /\ granted' = [granted EXCEPT ![u] = @ \cup {record[u].revision}]
  /\ UNCHANGED << record, stateFile, live, lifecycle, restorer, request >>

(* The process dies: rows, files and credentials are what is left. *)
ProcessDies ==
  /\ live' = [u \in Restorable |-> NoFile]
  /\ lifecycle' = [u \in Restorable |-> "nobody"]
  /\ restorer' = NoRestore
  /\ request' = [u \in Restorable |-> "none"]
  /\ UNCHANGED << record, stateFile, granted >>

RestoreNext ==
  \/ BeginRestore
  \/ RestoreStep
  \/ \E u \in Restorable :
       \/ BeginStart(u) \/ CommitStart(u) \/ StopRoute(u) \/ DeleteRoute(u)
       \/ WorkerSaves(u) \/ Bind(u)
  \/ ProcessDies

RestoreSpec == RestoreInit /\ [][RestoreNext]_restoreVars
RestoreFairSpec == RestoreSpec /\ WF_restoreVars(RestoreStep)

-------------------------------------------------------------------------------
RestoreTypeOK ==
  /\ record \in [Restorable -> Rows]
  /\ {stateFile, live} \subseteq [Restorable -> Versions \cup {NoFile}]
  /\ lifecycle \in [Restorable -> {"nobody", "restore", "admin"}]
  /\ granted \in [Restorable -> SUBSET (0..MaxRevision)]
  /\ restorer \in {NoRestore} \cup [at : RestoreSteps \ {"idle"}, uuid : Restorable, archive : Archives]
  /\ request \in [Restorable -> {"none", "construct"}]

(* Whatever fails or dies in a restore, a bot that can be started has a state
   file of the same origin as its configuration, or none; its instance runs
   that configuration; and no credential bound before its identity changed is
   still alive. *)
RestoredWhole ==
  \A u \in Restorable :
    /\ (Present(u) /\ record[u].status # "recovery_required") => stateFile[u] \in {NoFile, record[u].cfg}
    /\ live[u] \in {NoFile, record[u].cfg}
    /\ granted[u] \subseteq {record[u].revision}

(* A restore is refused by another transition, it never waits for one: it ends
   even if the administrator's thread never does. *)
RestoreEnds == [](restorer # NoRestore => <>(restorer = NoRestore))
===============================================================================
