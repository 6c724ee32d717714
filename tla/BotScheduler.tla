----------------------------- MODULE BotScheduler -----------------------------
(***************************************************************************)
(* core/scheduler.py: one thread and one heap of due times drive the       *)
(* sweeps of all bots.  The registry and the heap are guarded by one lock; *)
(* every action here is one critical section of it, or one step of the     *)
(* thread between two of them, so that registrations and removals of other *)
(* threads come in between.  BotManager supplies those threads and decides *)
(* whether a sweep is admitted.                                            *)
(*                                                                         *)
(* An instance of a bot is known by its manager generation: every start    *)
(* makes one instance and one generation.  A registration's callback and   *)
(* admission factory are added and removed with the instance, and are part *)
(* of it here.                                                             *)
(***************************************************************************)
EXTENDS Integers, FiniteSets, Bags

CONSTANTS
  Bots,
  MinInterval,    \* _MIN_INTERVAL
  IdleInterval,   \* _IDLE_INTERVAL
  Backoff,        \* _BACKOFF_SEC
  MaxFailures,    \* _MAX_CONSECUTIVE_FAILURES
  NextChecks,     \* the delays a sweep asks for until the next one
  MaxEntries      \* bound: entries beyond which no command adds one

ASSUME BotSchedulerAssumption ==
  /\ Bots # {}
  /\ {MinInterval, IdleInterval, Backoff} \cup NextChecks \subseteq Nat
  /\ NextChecks # {}
  /\ MaxFailures \in Nat \ {0}
  /\ MaxEntries \in Nat

\* No instance; generations count from one.
None == 0

VARIABLES
  registered,  \* _instances: the registered generation of a bot, or None
  newest,      \* _mgr_gens: the highest generation ever registered
  gens,        \* _gens: counts the removals, older heap entries are stale
  failures,    \* _failure_counts
  heap,        \* _heap: a bag of entries, with the time left instead of fire_at
  due,         \* the entries _fire_due popped and has not come to yet
  step,        \* where the thread is
  item,        \* the entry it works on
  delay,       \* the delay it will push that entry with
  cooldown     \* history: what is left of a back-off nobody cut short

registry == << registered, newest, gens, failures >>
thread == << due, step, item, delay >>
schedVars == << registry, heap, thread, cooldown >>

Entry == [bot : Bots, gen : Nat, wait : Nat]
Item == [bot : Bots, gen : Nat, mgrGen : Nat, instance : Nat]
NoItem == [bot |-> CHOOSE b \in Bots : TRUE, gen |-> 0, mgrGen |-> 0, instance |-> None]

Steps == {"idle", "admitting", "sweeping", "refused", "succeeded", "failed",
          "requeue", "removing", "fatal", "recording", "committing", "releasing"}

SchedInit ==
  /\ registered = [b \in Bots |-> None]
  /\ newest = [b \in Bots |-> 0]
  /\ gens = [b \in Bots |-> 0]
  /\ failures = [b \in Bots |-> 0]
  /\ heap = EmptyBag
  /\ due = EmptyBag
  /\ step = "idle"
  /\ item = NoItem
  /\ delay = 0
  /\ cooldown = [b \in Bots |-> 0]

-----------------------------------------------------------------------------
(* What other threads call. *)
Push(b, gen, d) == heap' = heap (+) SetToBag({[bot |-> b, gen |-> gen, wait |-> d]})

\* A registration older than one already seen lost a race and is ignored.
Add(b, g, d) ==
  /\ IF g < newest[b]
     THEN UNCHANGED << registry, heap >>
     ELSE /\ newest' = [newest EXCEPT ![b] = g]
          /\ registered' = [registered EXCEPT ![b] = g]
          /\ failures' = [failures EXCEPT ![b] = 0]
          /\ Push(b, gens[b], d)
          /\ UNCHANGED gens
  /\ cooldown' = [cooldown EXCEPT ![b] = 0]

\* Within remove_expecting(expected): another generation's removal is ignored.
RemoveEntry(b, expected) ==
  /\ IF newest[b] # expected
     THEN UNCHANGED registry
     ELSE /\ gens' = [gens EXCEPT ![b] = @ + 1]
          /\ registered' = [registered EXCEPT ![b] = None]
          /\ failures' = [failures EXCEPT ![b] = 0]
          /\ UNCHANGED newest
  /\ cooldown' = [cooldown EXCEPT ![b] = 0]

RescheduleSoon(b) ==
  /\ IF registered[b] = None THEN UNCHANGED heap ELSE Push(b, gens[b], MinInterval)
  /\ cooldown' = [cooldown EXCEPT ![b] = 0]

-----------------------------------------------------------------------------
(* The thread. *)
\* All the entries there are, for the bound.
Entries ==
  BagCardinality(heap) + BagCardinality(due) + IF step = "idle" THEN 0 ELSE 1

Current(e) == e.gen = gens[e.bot]

DueEntries == {e \in DOMAIN heap : e.wait = 0}

Captured(e) ==
  [bot |-> e.bot, gen |-> e.gen, mgrGen |-> newest[e.bot], instance |-> registered[e.bot]]

\* _fire_due pops what is due; stale entries are dropped.  (_next_sleep drops
\* stale entries earlier, which nobody can tell.)
FireDue ==
  /\ step = "idle" /\ due = EmptyBag
  /\ DueEntries # {}
  /\ heap' = [e \in DOMAIN heap \ DueEntries |-> heap[e]]
  /\ due' = [i \in {Captured(e) : e \in {x \in DueEntries : Current(x)}} |->
               heap[[bot |-> i.bot, gen |-> i.gen, wait |-> 0]]]
  /\ UNCHANGED << registry, step, item, delay, cooldown >>

\* Due entries come in the order of their due times, which is any order.
NextItem ==
  /\ step = "idle"
  /\ \E i \in DOMAIN due :
       /\ due' = due (-) SetToBag({i})
       /\ item' = i
       /\ step' = IF registered[i.bot] = i.instance THEN "admitting" ELSE "refused"
  /\ UNCHANGED << registry, heap, delay, cooldown >>

\* The lease is entered or refused; the sweep runs, ends well or raises.
EnterSweep(admitted) ==
  /\ step = "admitting"
  /\ step' = IF admitted THEN "sweeping" ELSE "refused"
  /\ UNCHANGED << registry, heap, due, item, delay, cooldown >>

SweepSucceeds ==
  /\ step = "sweeping"
  /\ step' = "succeeded"
  /\ \E d \in NextChecks : delay' = IF d < MinInterval THEN MinInterval ELSE d
  /\ UNCHANGED << registry, heap, due, item, cooldown >>

SweepFails ==
  /\ step = "sweeping"
  /\ step' = "failed"
  /\ UNCHANGED << registry, heap, due, item, delay, cooldown >>

Finished == step' = "idle" /\ item' = NoItem /\ delay' = 0 /\ UNCHANGED due

PushItem(d) ==
  IF Current(item) THEN Push(item.bot, item.gen, d) ELSE UNCHANGED heap

\* Mutant: a refused sweep is not tried again.
RefusedForGood ==
  /\ step = "refused"
  /\ Finished
  /\ UNCHANGED << registry, heap, cooldown >>

Refused ==
  /\ step = "refused"
  /\ PushItem(IdleInterval)
  /\ Finished
  /\ UNCHANGED << registry, cooldown >>

CountSuccess ==
  /\ step = "succeeded"
  /\ failures' = IF Current(item) THEN [failures EXCEPT ![item.bot] = 0] ELSE failures
  /\ step' = "requeue"
  /\ UNCHANGED << registered, newest, gens, heap, due, item, delay, cooldown >>

\* A failure of a registration that is gone is not counted.
DropFailure ==
  /\ step = "failed" /\ ~ Current(item)
  /\ Finished
  /\ UNCHANGED << registry, heap, cooldown >>

CountFailure ==
  /\ step = "failed" /\ Current(item)
  /\ LET b == item.bot IN
       /\ failures' = [failures EXCEPT ![b] = @ + 1]
       /\ IF failures'[b] >= MaxFailures
          THEN step' = "removing" /\ UNCHANGED << delay, cooldown >>
          ELSE /\ step' = "requeue" /\ delay' = Backoff
               /\ cooldown' = [cooldown EXCEPT ![b] = Backoff]
  /\ UNCHANGED << registered, newest, gens, heap, due, item >>

\* Mutant: only a successful sweep is scheduled again.
RequeueUnlessFailed ==
  /\ step = "requeue"
  /\ IF failures[item.bot] = 0 THEN PushItem(delay) ELSE UNCHANGED heap
  /\ Finished
  /\ UNCHANGED << registry, cooldown >>

Requeue ==
  /\ step = "requeue"
  /\ PushItem(delay)
  /\ Finished
  /\ UNCHANGED << registry, cooldown >>

RemoveFailing ==
  /\ step = "removing"
  /\ RemoveEntry(item.bot, item.mgrGen)
  /\ step' = "fatal"
  /\ UNCHANGED << heap, due, item, delay >>

\* How many entries of the heap are e.
Copies(e) == IF e \in DOMAIN heap THEN heap[e] ELSE 0

\* Time passes; a sweep that is due may be late.
Aged(e) == [e EXCEPT !.wait = IF @ = 0 THEN 0 ELSE @ - 1]

Tick ==
  /\ \E e \in DOMAIN heap : e.wait > 0
  /\ heap' = [e \in {Aged(x) : x \in DOMAIN heap} |->
                Copies([e EXCEPT !.wait = @ + 1])
                  + IF e.wait = 0 THEN Copies(e) ELSE 0]
  /\ cooldown' = [b \in Bots |-> IF cooldown[b] = 0 THEN 0 ELSE cooldown[b] - 1]
  /\ UNCHANGED << registry, thread >>
=============================================================================
