------------------------------ MODULE BotManager ------------------------------
(***************************************************************************)
(* bots/manager.py with what drives it: the routes of bots/router.py that  *)
(* start, stop, restart and delete a bot, change its identity or edit its  *)
(* saved state, main.py's recovery at startup, commands and reads, and the *)
(* scheduler's thread.                                                     *)
(*                                                                         *)
(* A lifecycle request owns its bot from its first step to its last.  It   *)
(* stops an instance by refusing new work, removing its sweeps and waiting *)
(* for what was admitted; it starts one by constructing it from the saved  *)
(* state, publishing it, committing the row and only then letting work in. *)
(* Commands and sweeps are admitted work.  The bot's database row is all   *)
(* that survives the process: the initial states are those of a new        *)
(* process that finds any row.                                             *)
(***************************************************************************)
EXTENDS BotScheduler

CONSTANTS
  Admins,          \* threads that serve lifecycle requests
  Clients,         \* threads that serve commands and reads
  Requests,        \* the lifecycle requests that are made
  MaxInflight,     \* max_inflight
  MaxStartFailures,\* MAX_CONSECUTIVE_FAILURES of the start route
  CommitFaults,    \* the requests whose commit of the row may fail
  StrayErrors,     \* may a restart or an update raise what its route does not expect?
  MaxGeneration,   \* bound: generations of a bot
  MaxRemovals      \* bound: removals of a bot from the scheduler

Kinds == {"start", "stop", "restart", "delete", "update", "edit", "recover"}

ASSUME BotManagerAssumption ==
  /\ IsFiniteSet(Clients)
  /\ Requests \subseteq Kinds \ {"recover"}
  /\ MaxInflight \in Nat \ {0}
  /\ MaxStartFailures \in Nat \ {0}
  /\ CommitFaults \subseteq Kinds \cup {"fatal", "reset"}
  /\ StrayErrors \in BOOLEAN
  /\ {MaxGeneration, MaxRemovals} \subseteq Nat

VARIABLES
  bots,          \* _bots: the live generation of a bot, or None
  failed,        \* _failed: the generation kept for reading after it failed
  staged,        \* _staged: the generation not activated yet, or None
  retiring,      \* _retiring
  generations,   \* _generations
  inflight,      \* _inflight
  fatalPending,  \* _fatal_pending
  job,           \* the request of an admin thread and where it is
  op,            \* the operation a client thread was admitted with
  row,           \* Bot.status
  startFailures, \* Bot.consecutive_failures
  recovering,    \* the bots the new process still has to recover
  streak         \* history: failed sweeps in a row of the newest generation

managed == << bots, failed, staged, retiring, generations >>
database == << row, startFailures >>
vars == << schedVars, managed, inflight, fatalPending, job, op, database, recovering, streak >>

Statuses == {"stopped", "running", "error", "deleted"}
Places == {"idle", "begin", "edit", "write", "construct", "publish", "commit", "register", "open",
           "nudge", "retire", "unschedule", "drain", "stopped"}
NoJob == [kind |-> "none", bot |-> CHOOSE b \in Bots : TRUE, at |-> "idle", gen |-> 0]
Job == [kind : Kinds \cup {"none", "reset"}, bot : Bots, at : Places, gen : Nat]
NoOp == [bot |-> CHOOSE b \in Bots : TRUE, gen |-> None, reads |-> FALSE]
Op == [bot : Bots, gen : Nat, reads : BOOLEAN]

Init ==
  /\ SchedInit
  /\ bots = [b \in Bots |-> None]
  /\ failed = [b \in Bots |-> None]
  /\ staged = [b \in Bots |-> None]
  /\ retiring = {}
  /\ generations = [b \in Bots |-> 0]
  /\ inflight = [b \in Bots |-> 0]
  /\ fatalPending = [b \in Bots |-> 0]
  /\ job = [t \in Admins |-> NoJob]
  /\ op = [c \in Clients |-> NoOp]
  /\ row \in [Bots -> Statuses]
  /\ startFailures = [b \in Bots |-> 0]
  /\ recovering = {b \in Bots : row[b] \in {"running", "error"}}
  /\ streak = [b \in Bots |-> 0]

-----------------------------------------------------------------------------
(* Admission and its release. *)
Busy(c) == op[c].gen # None

Starting(b) == staged[b] = generations[b]

Admits(b, reads) ==
  /\ b \notin retiring
  /\ \/ bots[b] # None /\ ~ Starting(b)
     \/ bots[b] = None /\ failed[b] # None /\ reads

\* The sweep is bound to the generation and instance it was registered with
\* and is never refused for want of capacity.
AdmitsSweep(i) ==
  /\ Admits(i.bot, FALSE)
  /\ generations[i.bot] = i.mgrGen
  /\ bots[i.bot] = i.instance

Released(counter, b) ==
  [counter EXCEPT ![b] = IF @ > 0 THEN @ - 1 ELSE 0]

\* A command, a webhook message or a read; the process serves after recovery.
Admit(c, b, reads) ==
  /\ recovering = {}
  /\ ~ Busy(c)
  /\ Admits(b, reads)
  /\ inflight[b] < MaxInflight
  /\ inflight' = [inflight EXCEPT ![b] = @ + 1]
  /\ op' = [op EXCEPT ![c] = [bot |-> b, gen |-> IF bots[b] # None THEN bots[b] ELSE failed[b],
                              reads |-> reads]]
  /\ UNCHANGED << schedVars, managed, fatalPending, job, database, recovering, streak >>

\* The command changes the bot's state, which nudges the scheduler.
ChangeState(c) ==
  /\ Busy(c) /\ ~ op[c].reads
  /\ Entries < MaxEntries
  /\ RescheduleSoon(op[c].bot)
  /\ UNCHANGED << registry, thread, managed, inflight, fatalPending, job, op, database,
                  recovering, streak >>

Release(c) ==
  /\ Busy(c)
  /\ inflight' = Released(inflight, op[c].bot)
  /\ op' = [op EXCEPT ![c] = NoOp]
  /\ UNCHANGED << schedVars, managed, fatalPending, job, database, recovering, streak >>

-----------------------------------------------------------------------------
(* Lifecycle requests.  transition(): one request per bot. *)
Owned(b) == \E t \in Admins : job[t].kind # "none" /\ job[t].bot = b

Go(t, place) == job' = [job EXCEPT ![t].at = place]

Leave(t) ==
  /\ job' = [job EXCEPT ![t] = NoJob]
  /\ recovering' = recovering \ {job[t].bot}

At(t, place) == job[t].kind # "none" /\ job[t].at = place

\* The startup brings the bots back one by one, before it serves requests.
MayRecover(b) == b \in recovering /\ \A t \in Admins : job[t] = NoJob

\* What the request finds in the row it reads again as the owner.
Eligible(kind, b) ==
  CASE kind = "recover" -> MayRecover(b)
    [] kind = "stop" -> recovering = {} /\ row[b] \in {"running", "error"}
    [] OTHER -> recovering = {} /\ row[b] # "deleted"

Begin(t, kind, b) ==
  /\ job[t] = NoJob
  /\ ~ Owned(b)
  /\ Eligible(kind, b)
  /\ generations[b] < MaxGeneration /\ gens[b] < MaxRemovals
  /\ job' = [job EXCEPT ![t] =
       [kind |-> kind, bot |-> b, gen |-> 0,
        at |-> CASE kind \in {"start", "recover"} -> "begin"
                 [] kind = "edit" -> "edit"
                 [] OTHER -> "retire"]]
  /\ UNCHANGED << schedVars, managed, inflight, fatalPending, op, database, recovering, streak >>

(* start_bot *)
MayStart(b) ==
  /\ bots[b] = None /\ b \notin retiring
  /\ failed[b] = None /\ fatalPending[b] = 0

CheckStart(t) ==
  /\ At(t, "begin")
  /\ IF MayStart(job[t].bot)
     THEN Go(t, "construct") /\ UNCHANGED recovering
     ELSE Leave(t)
  /\ UNCHANGED << schedVars, managed, inflight, fatalPending, op, database, streak >>

\* The constructor loads the saved state, and may write it.
Construct(t) ==
  /\ At(t, "construct")
  /\ Go(t, "publish")
  /\ UNCHANGED << schedVars, managed, inflight, fatalPending, op, database, recovering, streak >>

\* The start route counts failures, the restart and the recovery put the row
\* back to stopped; a restart whose constructor raises anything else than
\* RuntimeError leaves the row as it is.
ConstructFails(t) ==
  LET b == job[t].bot IN
  /\ At(t, "construct")
  /\ \/ /\ job[t].kind = "start"
        /\ startFailures' = [startFailures EXCEPT ![b] =
             IF @ < MaxStartFailures THEN @ + 1 ELSE @]
        /\ row' = IF startFailures'[b] = MaxStartFailures
                  THEN [row EXCEPT ![b] = "error"] ELSE row
        /\ Leave(t)
     \/ /\ job[t].kind \in {"restart", "recover"}
        /\ job' = [job EXCEPT ![t].kind = "reset", ![t].at = "retire"]
        /\ UNCHANGED << database, recovering >>
     \/ /\ job[t].kind = "restart" /\ StrayErrors
        /\ Leave(t)
        /\ UNCHANGED database
  /\ UNCHANGED << schedVars, managed, inflight, fatalPending, op, streak >>

Publish(t) ==
  LET b == job[t].bot
      g == generations[b] + 1
  IN
  /\ At(t, "publish")
  /\ bots' = [bots EXCEPT ![b] = g]
  /\ generations' = [generations EXCEPT ![b] = g]
  /\ staged' = [staged EXCEPT ![b] = g]
  /\ streak' = [streak EXCEPT ![b] = 0]
  /\ Go(t, "commit")
  /\ UNCHANGED << schedVars, failed, retiring, inflight, fatalPending, op, database, recovering >>

\* The row says running before the sweep can say error.
CommitRunning(t) ==
  LET b == job[t].bot IN
  /\ At(t, "commit")
  /\ \/ /\ row' = [row EXCEPT ![b] = "running"]
        /\ startFailures' = [startFailures EXCEPT ![b] = IF job[t].kind = "restart" THEN @ ELSE 0]
        /\ Go(t, "register")
     \/ /\ job[t].kind \in CommitFaults
        /\ job' = [job EXCEPT ![t].kind = "reset", ![t].at = "retire"]
        /\ UNCHANGED database
  /\ UNCHANGED << schedVars, managed, inflight, fatalPending, op, recovering, streak >>

(* _activate_generation *)
Register(t) ==
  LET b == job[t].bot IN
  /\ At(t, "register")
  /\ Add(b, generations[b], 0)
  /\ Go(t, "open")
  /\ UNCHANGED << thread, managed, inflight, fatalPending, op, database, recovering, streak >>

Open(t) ==
  LET b == job[t].bot IN
  /\ At(t, "open")
  /\ staged' = [staged EXCEPT ![b] = None]
  /\ Go(t, "nudge")
  /\ UNCHANGED << schedVars, bots, failed, retiring, generations, inflight, fatalPending, op,
                  database, recovering, streak >>

Nudge(t) ==
  /\ At(t, "nudge")
  /\ RescheduleSoon(job[t].bot)
  /\ Leave(t)
  /\ UNCHANGED << registry, thread, managed, inflight, fatalPending, op, database, streak >>

(* stop_bot *)
Retire(t) ==
  LET b == job[t].bot IN
  /\ At(t, "retire")
  /\ IF bots[b] = None /\ failed[b] = None
     THEN Go(t, "stopped") /\ UNCHANGED managed
     ELSE /\ retiring' = retiring \cup {b}
          /\ job' = [job EXCEPT ![t].gen = generations[b], ![t].at = "unschedule"]
          /\ UNCHANGED << bots, failed, staged, generations >>
  /\ UNCHANGED << schedVars, inflight, fatalPending, op, database, recovering, streak >>

Unschedule(t) ==
  /\ At(t, "unschedule")
  /\ RemoveEntry(job[t].bot, job[t].gen)
  /\ Go(t, "drain")
  /\ UNCHANGED << heap, thread, managed, inflight, fatalPending, op, database, recovering, streak >>

\* Mutant: a fatal error still being recorded is not waited for.
DrainedOfWork(b) == inflight[b] = 0

\* Mutant: only a fatal error being recorded is waited for.
DrainedOfFatal(b) == fatalPending[b] = 0

Drained(b) == inflight[b] = 0 /\ fatalPending[b] = 0

\* Mutant: the retired generation stays marked as staged.
FinalizeKeepingStaged(t) ==
  LET b == job[t].bot IN
  /\ At(t, "drain") /\ Drained(b)
  /\ bots' = [bots EXCEPT ![b] = None]
  /\ failed' = [failed EXCEPT ![b] = None]
  /\ inflight' = [inflight EXCEPT ![b] = 0]
  /\ retiring' = retiring \ {b}
  /\ Go(t, "stopped")
  /\ UNCHANGED << schedVars, staged, generations, fatalPending, op, database, recovering,
                  streak >>

Finalize(t) ==
  LET b == job[t].bot IN
  /\ At(t, "drain") /\ Drained(b)
  /\ IF generations[b] = job[t].gen
     THEN /\ bots' = [bots EXCEPT ![b] = None]
          /\ failed' = [failed EXCEPT ![b] = None]
          /\ staged' = [staged EXCEPT ![b] = None]
          /\ inflight' = [inflight EXCEPT ![b] = 0]
          /\ retiring' = retiring \ {b}
     ELSE UNCHANGED << bots, failed, staged, inflight, retiring >>
  /\ Go(t, "stopped")
  /\ UNCHANGED << schedVars, generations, fatalPending, op, database, recovering, streak >>

\* The drain timed out: the instance stays, retiring, and the row as it is.
GiveUp(t) ==
  /\ At(t, "drain") /\ ~ Drained(job[t].bot)
  /\ Leave(t)
  /\ UNCHANGED << schedVars, managed, inflight, fatalPending, op, database, streak >>

\* The instance is gone: the row is committed, a restart goes on.
CommitStopped(t) ==
  LET b == job[t].bot IN
  /\ At(t, "stopped")
  /\ \/ /\ job[t].kind \in {"stop", "delete", "update", "reset"}
        /\ row' = [row EXCEPT ![b] = IF job[t].kind = "delete" THEN "deleted" ELSE "stopped"]
        /\ startFailures' = [startFailures EXCEPT ![b] = IF job[t].kind = "stop" THEN 0 ELSE @]
        /\ Leave(t)
     \/ /\ job[t].kind \in CommitFaults /\ job[t].kind # "restart"
        /\ Leave(t)
        /\ UNCHANGED database
     \/ /\ job[t].kind = "update" /\ StrayErrors
        /\ Leave(t)
        /\ UNCHANGED database
     \/ /\ job[t].kind = "restart"
        /\ Go(t, "begin")
        /\ UNCHANGED << database, recovering >>
  /\ UNCHANGED << schedVars, managed, inflight, fatalPending, op, streak >>

(* The offline edit of the saved state (update_bot_state): if an instance
   lives or failed, the edit is an admitted command or refused. *)
CheckEdit(t) ==
  LET b == job[t].bot IN
  /\ At(t, "edit")
  /\ IF bots[b] = None /\ failed[b] = None /\ b \notin retiring
     THEN Go(t, "write") /\ UNCHANGED recovering
     ELSE Leave(t)
  /\ UNCHANGED << schedVars, managed, inflight, fatalPending, op, database, streak >>

WriteEdit(t) ==
  /\ At(t, "write")
  /\ Leave(t)
  /\ UNCHANGED << schedVars, managed, inflight, fatalPending, op, database, streak >>

Handle(t) ==
  \/ CheckStart(t) \/ Construct(t) \/ ConstructFails(t) \/ Publish(t) \/ CommitRunning(t)
  \/ Register(t) \/ Open(t) \/ Nudge(t)
  \/ Retire(t) \/ Unschedule(t) \/ Finalize(t) \/ GiveUp(t) \/ CommitStopped(t)
  \/ CheckEdit(t) \/ WriteEdit(t)

-----------------------------------------------------------------------------
(* The scheduler's thread with the manager's admission and fatal handler. *)
SweepUnadmitted ==
  /\ \/ FireDue \/ NextItem \/ Refused \/ CountSuccess \/ DropFailure \/ CountFailure
     \/ Requeue \/ RemoveFailing
  /\ UNCHANGED << managed, inflight, fatalPending, job, op, database, recovering, streak >>

Enter ==
  /\ EnterSweep(AdmitsSweep(item))
  /\ inflight' = IF AdmitsSweep(item)
                 THEN [inflight EXCEPT ![item.bot] = @ + 1] ELSE inflight
  /\ UNCHANGED << managed, fatalPending, job, op, database, recovering, streak >>

\* The lease is released before the outcome is accounted for.
Sweep ==
  /\ \/ SweepSucceeds /\ streak' = [streak EXCEPT ![item.bot] = 0]
     \/ SweepFails /\ streak' = [streak EXCEPT ![item.bot] =
                                   IF @ < MaxFailures THEN @ + 1 ELSE @]
  /\ inflight' = Released(inflight, item.bot)
  /\ UNCHANGED << managed, fatalPending, job, op, database, recovering >>

\* _on_fatal_error, under the lock: only the live instance of this generation.
OnFatalError ==
  LET b == item.bot IN
  /\ step = "fatal"
  /\ IF generations[b] = item.mgrGen /\ staged[b] # item.mgrGen /\ bots[b] # None
     THEN /\ bots' = [bots EXCEPT ![b] = None]
          /\ failed' = [failed EXCEPT ![b] = bots[b]]
          /\ fatalPending' = [fatalPending EXCEPT ![b] = @ + 1]
          /\ step' = "recording" /\ UNCHANGED << due, item, delay >>
     ELSE Finished /\ UNCHANGED << bots, failed, fatalPending >>
  /\ UNCHANGED << registry, heap, cooldown, staged, retiring, generations, inflight, job, op,
                  database, recovering, streak >>

StillOurs(b) == generations[b] = item.mgrGen /\ failed[b] # None

CheckOurs ==
  /\ step = "recording"
  /\ step' = IF StillOurs(item.bot) THEN "committing" ELSE "releasing"
  /\ UNCHANGED << registry, heap, due, item, delay, cooldown, managed, inflight, fatalPending,
                  job, op, database, recovering, streak >>

CommitError ==
  /\ step = "committing"
  /\ \/ row' = [row EXCEPT ![item.bot] = "error"]
     \/ "fatal" \in CommitFaults /\ UNCHANGED row
  /\ step' = "releasing"
  /\ UNCHANGED << registry, heap, due, item, delay, cooldown, managed, inflight, fatalPending,
                  job, op, startFailures, recovering, streak >>

ReleaseFatal ==
  /\ step = "releasing"
  /\ fatalPending' = Released(fatalPending, item.bot)
  /\ Finished
  /\ UNCHANGED << registry, heap, cooldown, managed, inflight, job, op, database, recovering,
                  streak >>

Sweeper ==
  SweepUnadmitted \/ Enter \/ Sweep \/ OnFatalError \/ CheckOurs \/ CommitError \/ ReleaseFatal

TimePasses ==
  /\ Tick
  /\ UNCHANGED << managed, inflight, fatalPending, job, op, database, recovering, streak >>

Next ==
  \/ \E t \in Admins : Handle(t)
  \/ \E t \in Admins, kind \in Requests \cup {"recover"}, b \in Bots : Begin(t, kind, b)
  \/ \E c \in Clients, b \in Bots, reads \in BOOLEAN : Admit(c, b, reads)
  \/ \E c \in Clients : ChangeState(c) \/ Release(c)
  \/ Sweeper
  \/ TimePasses

Spec == Init /\ [][Next]_vars

\* Threads go on; nothing makes a command end or a request be made.
Fairness ==
  /\ \A t \in Admins : WF_vars(Handle(t))
  /\ WF_vars(Sweeper)
  /\ WF_vars(TimePasses)

FairSpec == Spec /\ Fairness

-----------------------------------------------------------------------------
(* Properties *)
IsBag(B, S) == DOMAIN B \subseteq S /\ \A e \in DOMAIN B : B[e] \in Nat \ {0}

SchedTypeOK ==
  /\ registered \in [Bots -> Nat] /\ newest \in [Bots -> Nat]
  /\ gens \in [Bots -> Nat] /\ failures \in [Bots -> Nat]
  /\ IsBag(heap, Entry) /\ IsBag(due, Item)
  /\ step \in Steps /\ item \in Item /\ delay \in Nat
  /\ cooldown \in [Bots -> Nat]

ManagedTypeOK ==
  /\ generations \in [Bots -> Nat] /\ bots \in [Bots -> Nat]
  /\ failed \in [Bots -> Nat] /\ staged \in [Bots -> Nat]
  /\ \A b \in Bots : /\ {bots[b], failed[b]} \subseteq {None, generations[b]}
                     /\ bots[b] = None \/ failed[b] = None
                     /\ staged[b] \in {None, bots[b]}
  /\ retiring \subseteq Bots

WorkTypeOK ==
  /\ inflight \in [Bots -> Nat] /\ fatalPending \in [Bots -> Nat]
  /\ job \in [Admins -> Job] /\ op \in [Clients -> Op]
  /\ row \in [Bots -> Statuses]
  /\ startFailures \in [Bots -> 0..MaxStartFailures]
  /\ recovering \subseteq Bots
  /\ streak \in [Bots -> 0..MaxFailures]

\* Every variable has its type; a bot has at most one generation in the
\* registry, live or failed, the newest, and only a live one can be staged
\* (manager.py:150-190).
TypeOK == SchedTypeOK /\ ManagedTypeOK /\ WorkTypeOK

Sweeping(b) == step = "sweeping" /\ item.bot = b
OpsOn(b) == {c \in Clients : Busy(c) /\ op[c].bot = b}
Working(b) == Sweeping(b) \/ OpsOn(b) # {}
Recording(b) == step \in {"recording", "committing", "releasing"} /\ item.bot = b

\* What a drain waits for is exactly what is going on: each admitted operation
\* and sweep is counted once until it ends, and so is a fatal error until it
\* is in the database (manager.py:285-308, 543-591).
WorkIsCounted ==
  \A b \in Bots :
    /\ inflight[b] = Cardinality(OpsOn(b)) + IF Sweeping(b) THEN 1 ELSE 0
    /\ fatalPending[b] = IF Recording(b) THEN 1 ELSE 0

\* The request reads or writes the saved state itself.
OnDisk(t, b) == job[t].bot = b /\ (At(t, "construct") \/ At(t, "write"))

\* Saved state has one user at a time: while an instance is constructed from
\* it, or an offline edit writes it, no command, read or sweep of the bot is at
\* work and no other request constructs or edits; and whatever is at work
\* belongs to the newest generation (manager.py:169-206 and 385-391, 631-655;
\* router.py:1596-1632).
OneGenerationWorks ==
  /\ \A t \in Admins, b \in Bots : OnDisk(t, b) =>
       ~ Working(b) /\ \A s \in Admins \ {t} : ~ OnDisk(s, b)
  /\ \A b \in Bots : Sweeping(b) => item.instance = generations[b]
  /\ \A c \in Clients : Busy(c) => op[c].gen = generations[op[c].bot]

\* The thread is on its way to retire the registration it works on.
FailingFatally(b) == item.bot = b /\ step \in {"removing", "fatal"}

\* A bot that serves is registered for sweeps with the very instance that
\* serves, or is about to be set aside as failed (manager.py:440-471).
ServedIsRegistered ==
  \A b \in Bots :
    bots[b] # None /\ ~ Starting(b) /\ b \notin retiring =>
      registered[b] = bots[b] \/ FailingFatally(b)

\* A registered bot is never forgotten: a valid entry of it waits in the heap,
\* or was popped, or is the one the thread works on and will push again
\* (scheduler.py:249-330).
NeverForgotten ==
  \A b \in Bots : registered[b] # None =>
    \/ \E e \in DOMAIN heap : e.bot = b /\ Current(e)
    \/ \E i \in DOMAIN due : i.bot = b /\ Current(i)
    \/ step # "idle" /\ item.bot = b /\ Current(item)

\* An instance is set aside as failed only if its own last sweeps failed,
\* MaxFailures of them in a row, whatever earlier instances did
\* (scheduler.py:275-314, manager.py:519-546).
FatalEarned == \A b \in Bots : failed[b] # None => streak[b] = MaxFailures

\* When no request owns the bot and the process has recovered, the row tells
\* the truth: running with an instance, stopped or deleted without any, error
\* without a live one (router.py:196-235, 885-1100, main.py:528-590).
RowTellsTruth ==
  \A b \in Bots : ~ Owned(b) /\ recovering = {} =>
    CASE row[b] = "running" -> bots[b] # None \/ failed[b] # None
      [] row[b] = "error" -> bots[b] = None
      [] OTHER -> bots[b] = None /\ failed[b] = None

\* After a failed sweep the next one waits for the back-off, unless a command
\* or a request concerned the bot (scheduler.py:25, 317-325).
BackoffHeld == \A b \in Bots : Sweeping(b) => cooldown[b] = 0

\* Every lifecycle request ends (manager.py:342-356: the drain is bounded).
RequestsEnd == \A b \in Bots : Owned(b) ~> ~ Owned(b)

\* A bot that serves is swept, again and again, as long as it serves.
ServedIsSwept ==
  \A b \in Bots :
    bots[b] # None /\ ~ Starting(b) /\ b \notin retiring ~>
      Sweeping(b) \/ bots[b] = None \/ b \in retiring

\* The thread tried to write down the failure of this very instance and could
\* not: it logs the error and goes on, the row keeps what it had
\* (manager.py:575-587).
CommitLost(b) == step = "releasing" /\ item.bot = b /\ StillOurs(b) /\ row[b] # "error"

\* A bot just set aside as failed comes to have a row that says so, or is
\* stopped, or the one commit that would have said so fails; and whatever becomes
\* of the commit, a stop does not wait for it for ever (manager.py:548-591).
FailureIsRecorded ==
  \A b \in Bots :
    /\ step = "recording" /\ item.bot = b ~>
         row[b] = "error" \/ failed[b] = None \/ CommitLost(b)
    /\ fatalPending[b] > 0 ~> fatalPending[b] = 0

\* The counters that a drain waits for are exact, and by them saved state has
\* one user at a time.
SavedStateHasOneUser == WorkIsCounted /\ OneGenerationWorks

\* Sweeps follow the instance that serves: it is registered, its registration
\* is not forgotten, and it is given up only for its own failures.
SweepsFollowService == ServedIsRegistered /\ NeverForgotten /\ FatalEarned

\* Requests end, a serving bot is swept, a failed one gets its row.
LifecycleProgresses == RequestsEnd /\ ServedIsSwept /\ FailureIsRecorded
=============================================================================
