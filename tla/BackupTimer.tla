----------------------------- MODULE BackupTimer ------------------------------
(***************************************************************************)
(* backup/scheduler.py and the route around it: a thread that sleeps until *)
(* the configured hour, skips if a backup succeeded lately and otherwise   *)
(* runs one, while administrators change the settings and run backups of   *)
(* their own.  Time passes in hours; the thread is never late by one.      *)
(***************************************************************************)
EXTENDS Integers

CONSTANTS
  Offsets,    \* local time minus UTC, in hours
  Hours,      \* the hours a daily backup may be set to
  MaxAge,     \* bound: an older success is as old as this
  MaxSettings \* bound: changes of the settings

ASSUME BackupTimerAssumption ==
  /\ Offsets \subseteq -12..14
  /\ Hours \subseteq 0..23
  /\ MaxAge \in Nat \ (0..24)
  /\ MaxSettings \in Nat

VARIABLES
  offset,    \* of the server's time zone
  hour,      \* local hour
  settings,  \* the saved settings: automatic backups, and at which hour
  edits,     \* changes made so far
  lastRun,   \* backup_last_status and how long ago a success was recorded
  reloaded,  \* _reload_event
  timer      \* where the thread is, and the hours it still sleeps

timerVars == << offset, hour, settings, edits, lastRun, reloaded, timer >>

Settings == [auto : BOOLEAN, at : Hours]
Waits == [at : {"decide", "due"}, left : {0}] \cup [at : {"asleep"}, left : 0..24]

TimerInit ==
  /\ offset \in Offsets
  /\ hour \in Hours
  /\ settings \in Settings
  /\ edits = 0
  /\ lastRun = [status |-> "never", age |-> MaxAge]
  /\ reloaded = FALSE
  /\ timer = [at |-> "decide", left |-> 0]

(* Mutant: one hour too many. *)
UntilNextLate ==
  IF settings.auto THEN ((settings.at - hour) % 24) + 2 ELSE 0

(* _seconds_until_next: the next time it is that hour, never now; one round of
   300 seconds, shorter than an hour, when there is nothing to wait for. *)
UntilNext ==
  IF settings.auto
  THEN LET d == (settings.at - hour) % 24 IN IF d = 0 THEN 24 ELSE d
  ELSE 0

Decide ==
  /\ timer.at = "decide"
  /\ timer' = [at |-> "asleep", left |-> UntilNext]
  /\ UNCHANGED << offset, hour, settings, edits, lastRun, reloaded >>

(* Mutant: the event is left set. *)
WakeUpKeepingEvent ==
  /\ timer.at = "asleep"
  /\ reloaded \/ (timer.left = 0 /\ settings.auto)
  /\ timer' = [at |-> IF reloaded THEN "decide" ELSE "due", left |-> 0]
  /\ UNCHANGED << offset, hour, settings, edits, lastRun, reloaded >>

(* A change of the settings ends the sleep; so does the hour.  Either clears
   the event.  With automatic backups off the round just ends. *)
WakeUp ==
  /\ timer.at = "asleep"
  /\ reloaded \/ (timer.left = 0 /\ settings.auto)
  /\ timer' = [at |-> IF reloaded THEN "decide" ELSE "due", left |-> 0]
  /\ reloaded' = FALSE
  /\ UNCHANGED << offset, hour, settings, edits, lastRun >>

(* _should_skip subtracts the recorded time, in UTC, from the local clock. *)
ShouldSkip == lastRun.status = "success" /\ lastRun.age + offset < 20

Skip ==
  /\ timer.at = "due"
  /\ ShouldSkip
  /\ timer' = [at |-> "decide", left |-> 0]
  /\ UNCHANGED << offset, hour, settings, edits, lastRun, reloaded >>

(* run_backup: archive, upload, record; any failure is recorded as one. *)
RunBackup ==
  lastRun' \in {[status |-> "success", age |-> 0], [status |-> "failed", age |-> lastRun.age]}

Attempt ==
  /\ timer.at = "due"
  /\ ~ShouldSkip
  /\ RunBackup
  /\ timer' = [at |-> "decide", left |-> 0]
  /\ UNCHANGED << offset, hour, settings, edits, reloaded >>

TriggerBackup ==
  /\ edits < MaxSettings
  /\ edits' = edits + 1
  /\ RunBackup
  /\ UNCHANGED << offset, hour, settings, reloaded, timer >>

UpdateSettings ==
  /\ edits < MaxSettings
  /\ edits' = edits + 1
  /\ settings' \in Settings
  /\ reloaded' = TRUE
  /\ UNCHANGED << offset, hour, lastRun, timer >>

HourPasses ==
  /\ timer.at = "asleep"
  /\ ~reloaded
  /\ settings.auto => timer.left > 0
  /\ hour' = (hour + 1) % 24
  /\ lastRun' = [lastRun EXCEPT !.age = IF @ < MaxAge THEN @ + 1 ELSE @]
  /\ timer' = [timer EXCEPT !.left = IF @ > 0 THEN @ - 1 ELSE @]
  /\ UNCHANGED << offset, settings, edits, reloaded >>

TimerNext ==
  Decide \/ WakeUp \/ Skip \/ Attempt \/ TriggerBackup \/ UpdateSettings \/ HourPasses

TimerSpec == TimerInit /\ [][TimerNext]_timerVars
(* The thread runs and time passes. *)
TimerFairSpec ==
  TimerSpec /\ WF_timerVars(Decide \/ WakeUp \/ Skip \/ Attempt) /\ WF_timerVars(HourPasses)

-------------------------------------------------------------------------------
TimerTypeOK ==
  /\ offset \in Offsets
  /\ hour \in 0..23
  /\ settings \in Settings
  /\ edits \in 0..MaxSettings
  /\ lastRun \in [status : {"never", "success", "failed"}, age : 0..MaxAge]
  /\ reloaded \in BOOLEAN
  /\ timer \in Waits

(* While automatic backups stay on, backups are attempted again and again:
   neither a failure, a skip nor a change of the settings stops the thread. *)
BackupsRecur == <>[](settings.auto) => []<><<Attempt>>_timerVars
===============================================================================
