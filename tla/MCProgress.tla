------------------------------ MODULE MCProgress ------------------------------
(***************************************************************************)
(* One model-checking instance of what has to survive the process or come  *)
(* to an end: the lifecycle of a bot, the start of the server, restore,    *)
(* the backup thread and broadcasts.  They share no state here, so a       *)
(* behaviour is a behaviour of one of them: part says of which.  The       *)
(* others stay in one initial state, where nothing has been promised.      *)
(***************************************************************************)
EXTENDS BotManager, Startup, Restore, BackupTimer, Broadcast

VARIABLE part

Parts == {"lifecycle", "startup", "restore", "backups", "broadcast"}

\* A database that the release before this one left.
OldReleases == {ThisRelease \ {"binding_index", "bots.observed_group_ids"}}

\* Servers in UTC, east and west of it.
TimeZones == {0, 8, -5}

ServerInit ==
  /\ part \in Parts
  /\ Init /\ (part # "lifecycle" => \A b \in Bots : row[b] = "stopped")
  /\ StartupInit
  /\ part # "startup" => /\ unfit = {}
                         /\ \A p \in Processes : rootOf[p] = CHOOSE r \in Roots : TRUE
                         /\ \A r \in Roots : \A b \in Stores : files[r][b] = CHOOSE f \in Found : TRUE
  /\ RestoreInit /\ (part # "restore" => \A u \in Restorable : record[u].status = "absent" /\ ~record[u].deleted
                                                        /\ record[u].cfg = CHOOSE v \in Versions : TRUE)
  /\ TimerInit
  /\ part # "backups" => /\ offset = CHOOSE o \in Offsets : TRUE
                         /\ hour = CHOOSE h \in Hours : TRUE
                         /\ settings = [auto |-> FALSE, at |-> hour]
  /\ BroadcastInit

ServerNext ==
  /\ UNCHANGED part
  /\ IF part = "lifecycle" THEN Next ELSE UNCHANGED vars
  /\ IF part = "startup" THEN StartupNext ELSE UNCHANGED startupVars
  /\ IF part = "restore" THEN RestoreNext ELSE UNCHANGED restoreVars
  /\ IF part = "backups" THEN TimerNext ELSE UNCHANGED timerVars
  /\ IF part = "broadcast" THEN BroadcastNext ELSE UNCHANGED broadcastVars

serverVars == << part, vars, startupVars, restoreVars, timerVars, broadcastVars >>

\* The fairness of each module, for the part that moves.
ServerFairness ==
  /\ \A t \in Admins : WF_vars(part = "lifecycle" /\ Handle(t))
  /\ WF_vars(part = "lifecycle" /\ Sweeper)
  /\ WF_vars(part = "lifecycle" /\ TimePasses)
  /\ WF_restoreVars(part = "restore" /\ RestoreStep)
  /\ WF_timerVars(part = "backups" /\ (Decide \/ WakeUp \/ Skip \/ Attempt))
  /\ WF_timerVars(part = "backups" /\ HourPasses)
  /\ WF_broadcastVars(part = "broadcast" /\ WorkerStep)

ServerSpec == ServerInit /\ [][ServerNext]_serverVars /\ ServerFairness

ServerTypeOK == StartupTypeOK /\ RestoreTypeOK /\ TimerTypeOK /\ BroadcastTypeOK

\* What has begun ends: a restore whatever it meets, backups recur while they are
\* switched on, and a broadcast leaves no recipient untried.
WorkEnds == RestoreEnds /\ BackupsRecur /\ BroadcastsEnd
=============================================================================
