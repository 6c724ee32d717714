------------------------------- MODULE Startup --------------------------------
(***************************************************************************)
(* main.py before the first request: a process takes the locks of its      *)
(* deployment (state_ownership.py), brings the database to this release    *)
(* (the _migrate functions), moves saved state out of the old file name    *)
(* (state_migration.py) and only then serves.                              *)
(*                                                                         *)
(* Processes may be configured with different managed roots over one       *)
(* database.  A process may die anywhere; the kernel then drops its locks  *)
(* and the disk stays as it is.                                            *)
(***************************************************************************)
EXTENDS Naturals, Sequences, FiniteSets, Functions

CONSTANTS
  Processes,   \* the processes started for the deployment
  Roots,       \* managed roots
  Stores,      \* the bots of the database
  Releases,    \* the migrations that older releases left in the database
  Found,       \* the layouts of saved state on the disk before the first start
  NoProcess    \* nobody holds the lock

(* The migrations in lifespan's order.  The first groups look for a table or
   a column and add it if it is missing. *)
ReleaseColumns ==
  << "bot_logs.category", "bots.consecutive_failures", "users.must_change_password",
     "users.token_version", "bots.is_deleted", "audit_logs", "binding_audit", "bots.api_key" >>
AgentColumns ==
  << "bots.resource_auth_enabled", "bots.resource_api_notify_enabled", "bots.utilization_config",
     "usage.agent_label", "usage.task_category", "resource_bindings" >>
IdentityColumns == << "bots.identity_revision", "bots.binding_accept_after", "bots.observed_group_ids",
                      "bindings.identity_revision", "bindings.credential_encrypted" >>
UuidSteps == << "bots.uuid", "uuid_backfill", "uuid_index" >>

Migrations == << "create_all" >> \o ReleaseColumns \o UuidSteps \o AgentColumns
              \o IdentityColumns \o << "binding_index" >>

ThisRelease == Range(Migrations)

Seeds == << "dev_admin", "dev_users" >>

Order == Migrations \o << "inventory", "move" >> \o Seeds \o << "serving" >>

Indexes == {"uuid_index", "binding_index"}

(* What is found of a bot's saved state: nothing, a canonical file, one under
   the old name beside it, a "copy" under both names, as a crash between link
   and unlink leaves it, or a "conflict": contents that differ, a source
   outside the directory, a file that cannot be read. *)
Layouts == {"none", "canonical", "legacy", "copy", "conflict"}

ASSUME StartupAssumption ==
  /\ Releases \subseteq SUBSET ThisRelease
  /\ Found \subseteq Layouts
  /\ NoProcess \notin Processes
  /\ IsFiniteSet(Stores)

VARIABLES
  rootOf,     \* process -> the managed root it is configured with
  rootLock,   \* root -> the process whose flock holds it
  dbLock,     \* the process whose flock holds the database
  stage,      \* process -> how far its startup is
  plan,       \* process -> the bots whose file it still has to move
  schema,     \* the migrations and seeds the database has
  unfit,      \* the indexes that the rows, or an index of that name, rule out
  files       \* root -> bot -> the layout of its saved state

startupVars == << rootOf, rootLock, dbLock, stage, plan, schema, unfit, files >>
locks == << rootOf, rootLock, dbLock >>

Stages == {"down", "root", "unlink"} \cup Range(Order)

After(step) == Order[1 + CHOOSE i \in DOMAIN Order : Order[i] = step]

NeedsMigration(layout) == layout \notin {"none", "canonical"}

(* Mutant: whatever is there is moved. *)
MovableAnything(layout) == layout # "canonical"

(* migrate_legacy_state_files moves only an unambiguous old name. *)
Movable(layout) == layout = "legacy"

StartupInit ==
  /\ rootOf \in [Processes -> Roots]
  /\ rootLock = [r \in Roots |-> NoProcess]
  /\ dbLock = NoProcess
  /\ stage = [p \in Processes |-> "down"]
  /\ plan = [p \in Processes |-> {}]
  /\ schema \in Releases
  /\ unfit \in SUBSET (Indexes \ schema)
  /\ files \in [Roots -> [Stores -> Found]]

-------------------------------------------------------------------------------
GoTo(p, step) == stage' = [stage EXCEPT ![p] = step]

(* The process exits: its flocks go with it. *)
Exit(p) ==
  /\ GoTo(p, "down")
  /\ plan' = [plan EXCEPT ![p] = {}]
  /\ rootLock' = [r \in Roots |-> IF rootLock[r] = p THEN NoProcess ELSE rootLock[r]]
  /\ dbLock' = IF dbLock = p THEN NoProcess ELSE dbLock
  /\ UNCHANGED rootOf

AcquireStateStoreOwnership(p) ==
  /\ stage[p] = "down"
  /\ rootLock[rootOf[p]] = NoProcess
  /\ rootLock' = [rootLock EXCEPT ![rootOf[p]] = p]
  /\ GoTo(p, "root")
  /\ UNCHANGED << rootOf, dbLock, plan, schema, unfit, files >>

AcquireDatabaseOwnership(p) ==
  /\ stage[p] = "root"
  /\ IF dbLock = NoProcess
     THEN /\ dbLock' = p
          /\ GoTo(p, Head(Order))
          /\ UNCHANGED << rootOf, rootLock, plan >>
     ELSE Exit(p)
  /\ UNCHANGED << schema, unfit, files >>

(* One transaction that adds what is missing and is a no-op the second time. *)
AddIfMissing(p) ==
  /\ stage[p] \in Range(Migrations \o Seeds) \ Indexes
  /\ schema' = schema \cup {stage[p]}
  /\ GoTo(p, After(stage[p]))
  /\ UNCHANGED << locks, plan, unfit, files >>

(* A unique index is built only over rows without duplicates; no row is ever
   deleted or re-keyed to make room for it. *)
BuildIndex(p) ==
  /\ stage[p] \in Indexes
  /\ IF stage[p] \in unfit
     THEN Exit(p) /\ UNCHANGED schema
     ELSE /\ schema' = schema \cup {stage[p]}
          /\ GoTo(p, After(stage[p]))
          /\ UNCHANGED << locks, plan >>
  /\ UNCHANGED << unfit, files >>

(* The whole deployment is inspected first: one bot that cannot be moved keeps
   every file where it is.  Two names of one file are no valid managed path
   (managed_paths.py), so what a crash left between link and unlink waits for
   the operator like any other conflict. *)
Inventory(p) ==
  LET moves == {b \in Stores : NeedsMigration(files[rootOf[p]][b])} IN
  /\ stage[p] = "inventory"
  /\ IF \A b \in moves : Movable(files[rootOf[p]][b])
     THEN /\ plan' = [plan EXCEPT ![p] = moves]
          /\ GoTo(p, "move")
          /\ UNCHANGED locks
     ELSE Exit(p)
  /\ UNCHANGED << schema, unfit, files >>

Link(p) ==
  /\ stage[p] = "move"
  /\ \E b \in plan[p] :
       \/ /\ files' = [files EXCEPT ![rootOf[p]][b] = "copy"]
          /\ GoTo(p, "unlink")
          /\ UNCHANGED << locks, plan >>
       \/ Exit(p) /\ UNCHANGED files
  /\ UNCHANGED << schema, unfit >>

(* If the old name cannot be removed the new one is taken back. *)
Unlink(p) ==
  /\ stage[p] = "unlink"
  /\ \E b \in plan[p] :
       /\ files[rootOf[p]][b] = "copy"
       /\ \/ /\ files' = [files EXCEPT ![rootOf[p]][b] = "canonical"]
             /\ plan' = [plan EXCEPT ![p] = @ \ {b}]
             /\ GoTo(p, "move")
             /\ UNCHANGED locks
          \/ /\ files' = [files EXCEPT ![rootOf[p]][b] = "legacy"]
             /\ Exit(p)
  /\ UNCHANGED << schema, unfit >>

AssertStateStoreReady(p) ==
  /\ stage[p] = "move"
  /\ plan[p] = {}
  /\ IF \E b \in Stores : NeedsMigration(files[rootOf[p]][b])
     THEN Exit(p)
     ELSE GoTo(p, After("move")) /\ UNCHANGED << locks, plan >>
  /\ UNCHANGED << schema, unfit, files >>

(* A served bot saves under the canonical name. *)
Save(p) ==
  /\ stage[p] = "serving"
  /\ \E b \in Stores : files' = [files EXCEPT ![rootOf[p]][b] = "canonical"]
  /\ UNCHANGED << locks, stage, plan, schema, unfit >>

(* Shutdown and death alike: the locks go, the disk stays. *)
Die(p) ==
  /\ stage[p] # "down"
  /\ Exit(p)
  /\ UNCHANGED << schema, unfit, files >>

StartupNext ==
  \E p \in Processes :
    \/ AcquireStateStoreOwnership(p)
    \/ AcquireDatabaseOwnership(p)
    \/ AddIfMissing(p)
    \/ BuildIndex(p)
    \/ Inventory(p)
    \/ Link(p)
    \/ Unlink(p)
    \/ AssertStateStoreReady(p)
    \/ Save(p)
    \/ Die(p)

StartupSpec == StartupInit /\ [][StartupNext]_startupVars

-------------------------------------------------------------------------------
StartupTypeOK ==
  /\ rootOf \in [Processes -> Roots]
  /\ rootLock \in [Roots -> Processes \cup {NoProcess}]
  /\ dbLock \in Processes \cup {NoProcess}
  /\ stage \in [Processes -> Stages]
  /\ plan \in [Processes -> SUBSET Stores]
  /\ schema \subseteq Range(Migrations \o Seeds)
  /\ unfit \subseteq Indexes
  /\ files \in [Roots -> [Stores -> Layouts]]

(* A process that serves is alone with its root and with its database, on the
   schema of this release, with no saved state left under another name.  And
   files are moved only in a deployment without a conflict: one bot's conflict
   leaves every other bot's file where it was. *)
ServesAlone(p) ==
  /\ stage[p] = "serving" =>
       /\ ThisRelease \subseteq schema
       /\ \A b \in Stores : ~NeedsMigration(files[rootOf[p]][b])
       /\ \A q \in Processes \ {p} : stage[q] \in {"down", "root"}
  /\ stage[p] \in {"move", "unlink"} =>
       \A b \in Stores : files[rootOf[p]][b] # "conflict"

(* A bot whose saved state exists keeps it through every startup, whichever
   step of the move the process dies in. *)
SavedStateKept ==
  [][\A r \in Roots, b \in Stores :
       files[r][b] # "none" => files'[r][b] # "none"]_startupVars

(* A startup ends in a deployment it alone serves, and loses nothing on the way. *)
StartsSafely == [](\A p \in Processes : ServesAlone(p)) /\ SavedStateKept
===============================================================================
